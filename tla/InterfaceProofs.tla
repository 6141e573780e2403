-------------------------- MODULE InterfaceProofs ---------------------------
(***************************************************************************)
(* Theorems about where the library meets the world outside of it: the     *)
(* files it reads in chunks (ChunkedRead, ArcList) and the sketches it     *)
(* hands out to Python (CApi).                                             *)
(***************************************************************************)
EXTENDS ArcList, CApi, Lemmas

-----------------------------------------------------------------------------
(***************************************************************************)
(* For any number of processes and any file that ends with a newline: what *)
(* the processes are left with are the lines of the file, whole, each with *)
(* one process (ChunkedRead); and once every process has returned, their   *)
(* parts of the matrix make up exactly the matrix the lines describe, for  *)
(* any arcs (ArcList).                                                     *)
(***************************************************************************)
(***************************************************************************)
(* Reading the file.  The number of bytes a process is told of always      *)
(* leads to the same place, the first line that begins in the shares after *)
(* its own.                                                                *)
(***************************************************************************)

(* The last process is not taken to end before the file does.              *)
Exact == FinalNewline /\ \A size \in Sizes : <<P, size>> \notin Short

(***************************************************************************)
(* Where the lines left to process r begin: after the first newline that   *)
(* is not in the shares before its own.                                    *)
(***************************************************************************)
LaterNewlines(at) == {p \in file.newlines : at <= p}

NextLine(at) ==
  (CHOOSE p \in LaterNewlines(at) : \A q \in LaterNewlines(at) : p <= q) + 1

Cut(r) == IF r = 0 THEN 0 ELSE IF r = P THEN file.size ELSE NextLine(Start(r))

(* The lines left to process r.                                            *)
Part(r) == {line \in Lines : Cut(r) <= line.first /\ line.end <= Cut(r + 1)}

(* What process r tells its predecessor.                                   *)
Bytes(r) == IF file.size = 0 THEN -1 ELSE Cut(r) - Start(r)

FileOK == /\ file.size \in Nat
          /\ file.newlines \subseteq 0 .. file.size - 1
          /\ file.end = file.size
          /\ file.size > 0 => file.size - 1 \in file.newlines

-----------------------------------------------------------------------------
(* The shares are in the order of the processes and make up the file.      *)
LEMMA Starts ==
  ASSUME FileOK
  PROVE  /\ \A r \in 0 .. P : Start(r) \in 0 .. file.size
         /\ \A r, s \in 0 .. P : r <= s => Start(r) <= Start(s)
         /\ Start(0) = 0 /\ Start(P) = file.size
         /\ file.size > 0 => \A r \in Rank : Start(r) < file.size
<1> DEFINE n == file.size
<1>1. n \in Nat /\ P \in Nat \ {0}
  BY PAssumption DEF FileOK
<1> HIDE DEF n
<1>2. \A a \in Nat : a \div P \in Nat /\ P * (a \div P) <= a /\ a < P * (a \div P) + P
  BY <1>1
<1>3. \A a, b \in Nat : a <= b => a \div P <= b \div P
  BY <1>1
<1>4. \A r, s \in Nat : r <= s => r * n <= s * n
  BY <1>1
<1>5. \A r \in Nat : r * n \in Nat
  BY <1>1
<1>6. (0 * n) \div P = 0
  BY <1>1
<1>7. (P * n) \div P = n
  BY <1>1
<1>8. ASSUME n > 0, NEW r \in 0 .. P - 1
      PROVE  (r * n) \div P < n
  <2>1. r * n < P * n
    BY <1>1, <1>8
  <2>2. CASE (r * n) \div P >= n
    <3>1. P * ((r * n) \div P) >= P * n
      BY <1>1, <1>2, <1>5, <2>2
    <3>2. QED
      BY <1>1, <1>2, <1>5, <2>1, <3>1
  <2>3. QED
    BY <1>1, <1>2, <1>5, <2>2
<1>9. \A r \in Nat : Start(r) = (r * n) \div P
  BY DEF Start, n
<1>10. \A r, s \in Nat : r <= s => Start(r) <= Start(s)
  BY <1>3, <1>4, <1>5, <1>9
<1>11. Start(0) = 0 /\ Start(P) = n
  BY <1>1, <1>6, <1>7, <1>9
<1>12. \A r \in Nat : Start(r) \in Nat
  BY <1>2, <1>5, <1>9
<1>13. \A r \in 0 .. P : Start(r) \in 0 .. n
  BY <1>1, <1>10, <1>11, <1>12
<1>14. n > 0 => \A r \in Rank : Start(r) < n
  BY <1>1, <1>8, <1>9 DEF Rank
<1>15. QED
  BY <1>1, <1>10, <1>11, <1>13, <1>14 DEF n

(* The first newline from a place in the file on.                          *)
LEMMA NextLineLeast ==
  ASSUME FileOK, NEW at \in 0 .. file.size - 1
  PROVE  /\ NextLine(at) \in Int /\ NextLine(at) - 1 \in file.newlines
         /\ at < NextLine(at) /\ NextLine(at) <= file.size
         /\ \A q \in file.newlines : at <= q => NextLine(at) <= q + 1
<1> DEFINE T == LaterNewlines(at)
<1>1. T \subseteq Nat /\ file.size - 1 \in T
  BY DEF LaterNewlines, FileOK
<1>2. \E p \in T : \A q \in T : p <= q
  BY <1>1, LeastNatural
<1> DEFINE first == CHOOSE p \in T : \A q \in T : p <= q
<1>3. first \in T /\ \A q \in T : first <= q
  BY <1>2
<1> HIDE DEF first
<1>4. NextLine(at) = first + 1
  BY DEF NextLine, first
<1>5. QED
  BY <1>1, <1>3, <1>4 DEF LaterNewlines, FileOK

(* Only one newline of the share is the first.                             *)
LEMMA FirstLineCut ==
  ASSUME FileOK, NEW r \in Rank, Newlines(Share(r)) # {}
  PROVE  /\ file.size > 0
         /\ FirstLine(r) = NextLine(Start(r)) - Start(r)
<1> DEFINE T == Newlines(Share(r))
           first == CHOOSE p \in T : \A q \in T : p <= q
<1>1. T \subseteq file.newlines /\ T \subseteq Nat
  BY DEF Newlines, FileOK
<1>2. first \in T /\ \A q \in T : first <= q
  BY <1>1, LeastNatural
<1> HIDE DEF first, T
<1>3. file.size > 0 /\ first \in Nat /\ first \in file.newlines
  BY <1>1, <1>2 DEF FileOK
<1>4. Start(r) \in 0 .. file.size - 1 /\ file.size \in Nat
  BY <1>3, Starts, PAssumption DEF Rank, FileOK
<1> DEFINE start == Start(r)
           next == NextLine(start)
<1> HIDE DEF start, next
<1>5. /\ next \in Int /\ next - 1 \in file.newlines /\ next - 1 \in Nat
      /\ start < next /\ \A q \in file.newlines : start <= q => next <= q + 1
  BY <1>4, NextLineLeast DEF FileOK, start, next
<1>6. T = {p \in file.newlines : start <= p /\ p < End(r)}
  BY DEF T, start, Newlines, Share, Run
<1>7. next <= first + 1
  BY <1>2, <1>3, <1>5, <1>6
<1>8. End(r) \in Int
  BY <1>4, Starts, PAssumption DEF End, Rank, LastRank, FileOK
<1>9. next - 1 \in T
  BY <1>2, <1>3, <1>4, <1>5, <1>6, <1>7, <1>8 DEF start
<1>10. first = next - 1
  BY <1>2, <1>3, <1>5, <1>7, <1>9
<1>11. FirstLine(r) = first - start + 1
  BY DEF FirstLine, first, T, start
<1>12. QED
  BY <1>3, <1>4, <1>5, <1>10, <1>11 DEF start, next

(***************************************************************************)
(* The cuts are the ends of lines, in the order of the processes.          *)
(***************************************************************************)
LEMMA Cuts ==
  ASSUME FileOK, file.size > 0
  PROVE  /\ Cut(0) = 0 /\ Cut(P) = file.size
         /\ \A r \in 0 .. P : Cut(r) \in 0 .. file.size
         /\ \A r \in 1 .. P : Cut(r) - 1 \in file.newlines
         /\ \A r \in Rank \ {0} : Start(r) < Cut(r)
         /\ \A r, s \in 0 .. P : r <= s => Cut(r) <= Cut(s)
<1>1. P \in Nat \ {0} /\ file.size \in Nat
  BY PAssumption DEF FileOK
<1>2. Cut(0) = 0 /\ Cut(P) = file.size
  BY <1>1 DEF Cut
<1>3. ASSUME NEW r \in Rank \ {0}
      PROVE  /\ r \in Nat /\ Cut(r) = NextLine(Start(r))
             /\ Start(r) \in 0 .. file.size - 1
  BY <1>1, Starts DEF Cut, Rank
<1>4. ASSUME NEW r \in Rank \ {0}
      PROVE  /\ Cut(r) \in 0 .. file.size /\ Cut(r) - 1 \in file.newlines
             /\ Start(r) < Cut(r)
             /\ \A q \in file.newlines : Start(r) <= q => Cut(r) <= q + 1
  BY <1>1, <1>3, NextLineLeast DEF FileOK
<1>5. \A r \in 0 .. P : r = 0 \/ r = P \/ r \in Rank \ {0}
  BY <1>1 DEF Rank
<1>6. \A r \in 0 .. P : Cut(r) \in 0 .. file.size
  BY <1>1, <1>2, <1>4, <1>5
<1>7. \A r \in 1 .. P : Cut(r) - 1 \in file.newlines
  BY <1>1, <1>2, <1>4, <1>5 DEF FileOK
<1>8. ASSUME NEW r \in 0 .. P, NEW s \in 0 .. P, r <= s
      PROVE  Cut(r) <= Cut(s)
  <2>1. CASE r = 0 \/ s = P
    BY <1>1, <1>2, <1>6, <2>1
  <2>2. CASE r # 0 /\ s # P
    <3>1. r \in Rank \ {0} /\ s \in Rank \ {0}
      BY <1>1, <1>8, <2>2 DEF Rank
    <3>2. Start(r) <= Start(s) /\ Start(r) \in Int /\ Start(s) \in Int
      BY <1>8, <1>3, <3>1, Starts
    <3>3. Cut(s) - 1 \in file.newlines /\ Start(s) <= Cut(s) - 1
      BY <1>3, <1>4, <3>1, <3>2
    <3>4. QED
      BY <1>4, <1>6, <3>1, <3>2, <3>3
  <2>3. QED
    BY <2>1, <2>2
<1>9. QED
  BY <1>2, <1>4, <1>6, <1>7, <1>8

LEMMA Ends ==
  ASSUME FileOK, NEW r \in Rank
  PROVE  /\ Start(r) \in Nat /\ End(r) \in Nat
         /\ End(r) = Start(r + 1) /\ Start(r) <= End(r)
         /\ Newlines(Share(r)) = {p \in file.newlines : Start(r) <= p /\ p < End(r)}
<1>1. P \in Nat \ {0} /\ r \in 0 .. P /\ r + 1 \in 0 .. P
  BY PAssumption DEF Rank
<1>2. End(r) = Start(r + 1)
  BY <1>1, Starts DEF End, LastRank, FileOK
<1>3. QED
  BY <1>1, <1>2, Starts DEF Newlines, Share, Run, FileOK

(* What a process tells its predecessor, by what it finds in its share.    *)
LEMMA Tells ==
  ASSUME FileOK, NEW r \in Rank \ {0}
  PROVE  /\ Bytes(r) \in Int
         /\ Bytes(r) > 0 <=> file.size > 0
         /\ Newlines(Share(r)) # {} => FirstLine(r) = Bytes(r)
         /\ Newlines(Share(r)) = {} /\ r = LastRank =>
              file.size = 0
         /\ Newlines(Share(r)) = {} /\ r # LastRank =>
              /\ r + 1 \in Rank \ {0}
              /\ file.size > 0 => Cut(r + 1) = Cut(r)
              /\ End(r) - Start(r) + Bytes(r + 1) = Bytes(r)
<1>1. /\ P \in Nat \ {0} /\ file.size \in Nat
      /\ r \in 0 .. P /\ r # 0 /\ r # P
  BY PAssumption DEF FileOK, Rank
<1>2. CASE file.size = 0
  <2>1. Newlines(Share(r)) = {} /\ Bytes(r) = -1 /\ Bytes(r + 1) = -1
    BY <1>2 DEF Newlines, FileOK, Bytes
  <2>2. End(r) = 0 /\ Start(r) = 0
    BY <1>1, <1>2, Starts, Ends DEF Rank
  <2>3. r # LastRank => r + 1 \in Rank \ {0}
    BY <1>1 DEF Rank, LastRank
  <2>4. QED
    BY <1>2, <2>1, <2>2, <2>3
<1>3. CASE file.size > 0
  <2>1. /\ Bytes(r) = Cut(r) - Start(r) /\ Cut(r) \in Int /\ Start(r) \in Int
        /\ Start(r) < Cut(r) /\ Start(r) < file.size
    BY <1>1, <1>3, Cuts, Starts DEF Bytes
  <2>2. Newlines(Share(r)) # {} => FirstLine(r) = Bytes(r)
    BY <1>1, <2>1, FirstLineCut DEF Cut
  <2>3. ASSUME Newlines(Share(r)) = {}
        PROVE  r # LastRank
    <3>1. SUFFICES ASSUME r = LastRank PROVE FALSE
      OBVIOUS
    <3>2. End(r) = file.size
      BY <3>1 DEF End, FileOK
    <3>3. file.size - 1 \in Newlines(Share(r))
      BY <1>1, <1>3, <2>1, <3>2, Ends DEF FileOK
    <3>4. QED
      BY <2>3, <3>3
  <2>4. ASSUME Newlines(Share(r)) = {}, r # LastRank
        PROVE  /\ r + 1 \in Rank \ {0}
               /\ Cut(r + 1) = Cut(r)
               /\ End(r) - Start(r) + Bytes(r + 1) = Bytes(r)
    <3>1. r + 1 \in Rank \ {0} /\ r + 1 # P
      BY <1>1, <2>4 DEF Rank, LastRank
    <3>2. Start(r + 1) \in Nat /\ Start(r) <= Start(r + 1) /\ End(r) = Start(r + 1)
      BY <3>1, Ends
    <3>3. LaterNewlines(Start(r)) = LaterNewlines(Start(r + 1))
      BY <2>1, <2>4, <3>2, Ends DEF LaterNewlines, FileOK
    <3>4. Cut(r + 1) = Cut(r)
      BY <1>1, <3>1, <3>3 DEF Cut, NextLine
    <3>5. QED
      BY <1>3, <2>1, <3>1, <3>2, <3>4 DEF Bytes
  <2>5. QED
    BY <1>3, <2>1, <2>2, <2>3, <2>4
<1>4. QED
  BY <1>1, <1>2, <1>3

-----------------------------------------------------------------------------
(***************************************************************************)
(* The inductive invariant.  A process that has looked for its first       *)
(* newline, and found one or been told of one, has told its predecessor,   *)
(* once; a process that has waited for its successor has been told.        *)
(***************************************************************************)
ReadTypes == /\ pc = [r \in Rank |-> pc[r]]
             /\ inbox \in [Rank -> Seq(Int)]
             /\ skip \in [Rank -> Int]
             /\ extra \in [Rank -> Nat]

Told == /\ inbox[LastRank] = << >>
        /\ \A r \in Rank \ {0} :
             IF pc[r] \in {"scan", "relay", "refused"} THEN inbox[r - 1] = << >>
             ELSE inbox[r - 1] = <<Bytes(r)>> /\ skip[r] = Bytes(r)

Relaying == \A r \in Rank : pc[r] = "relay" =>
              r \notin {0, LastRank} /\ Newlines(Share(r)) = {}

Waiting == \A r \in Rank : pc[r] = "wait" => r # LastRank

(* The bytes that complete the last line of a process.                     *)
Rest(r) == IF r = LastRank \/ file.size = 0 THEN 0 ELSE Bytes(r + 1)

Extended == \A r \in Rank :
              IF pc[r] \in {"scan", "wait", "relay"} \cup Unread THEN extra[r] = 0
              ELSE r = 0 \/ Newlines(Share(r)) # {} => extra[r] = Rest(r)

ReadInv == /\ FileOK
           /\ ReadTypes
           /\ skip[0] = 0
           /\ Told
           /\ Relaying
           /\ Waiting
           /\ Extended

LEMMA ReadInit ==
  ASSUME Exact, Init
  PROVE  ReadInv
<1>1. PICK size \in Sizes : \E newlines \in SUBSET (0 .. size - 1) :
        /\ FinalNewline => size = 0 \/ size - 1 \in newlines
        /\ file = [size |-> size, newlines |-> newlines,
                   end |-> IF P > 1 /\ <<P, size>> \in Short THEN size - 1
                           ELSE size]
  BY DEF Init
<1>2. FileOK
  BY <1>1, SizesAssumption DEF FileOK, Exact
<1>3. 0 \in Rank
  BY PAssumption DEF Rank
<1>4. \A r \in Rank \ {0} : r - 1 \in Rank
  BY PAssumption DEF Rank
<1>5. ReadTypes /\ skip[0] = 0
  BY <1>3 DEF Init, ReadTypes
<1>6. Told
  BY <1>4, PAssumption DEF Init, Told, Rank, LastRank
<1>7. Relaying /\ Waiting /\ Extended
  BY DEF Init, Relaying, Waiting, Extended
<1>8. QED
  BY <1>2, <1>5, <1>6, <1>7 DEF ReadInv

(* Nothing but what happens to a process changes what is said of it.       *)
LEMMA FileKept ==
  ASSUME UNCHANGED file
  PROVE  /\ FileOK => FileOK'
         /\ \A r : /\ Bytes(r)' = Bytes(r)
                   /\ Rest(r)' = Rest(r)
                   /\ Newlines(Share(r))' = Newlines(Share(r))
                   /\ Part(r)' = Part(r)
<1>1. \A r : Start(r)' = Start(r)
  BY DEF Start
<1>2. \A r : Cut(r)' = Cut(r)
  <2> TAKE r
  <2>1. LaterNewlines(Start(r))' = LaterNewlines(Start(r))
    BY <1>1 DEF LaterNewlines
  <2>2. NextLine(Start(r))' = NextLine(Start(r))
    BY <2>1 DEF NextLine
  <2>3. QED
    BY <2>2 DEF Cut
<1>3. \A r : Bytes(r)' = Bytes(r)
  BY <1>1, <1>2 DEF Bytes
<1>4. \A r : Share(r)' = Share(r)
  BY <1>1 DEF Share, End
<1>5. Lines' = Lines
  BY DEF Lines, Pieces, Newlines
<1>6. \A r : Part(r)' = Part(r)
  BY <1>2, <1>5 DEF Part
<1>7. QED
  BY <1>3, <1>4, <1>6 DEF FileOK, Rest, Newlines

(* A process tells its predecessor what there is to tell, and goes on.     *)
LEMMA TellKeeps ==
  ASSUME ReadInv, NEW r \in Rank \ {0}, NEW label,
         pc[r] \in {"scan", "relay"}, label \notin {"scan", "relay", "refused"},
         label = "wait" => r # LastRank,
         label # "wait" /\ Newlines(Share(r)) # {} => Rest(r) = 0,
         Tell(r, Bytes(r)), Goto(r, label), UNCHANGED <<file, extra>>
  PROVE  ReadInv'
<1>1. P \in Nat /\ r \in Nat /\ r - 1 \in Rank
  BY PAssumption DEF Rank
<1>2. Bytes(r) \in Int
  BY Tells DEF ReadInv
<1>3. /\ pc' = [pc EXCEPT ![r] = label]
      /\ skip' = [skip EXCEPT ![r] = Bytes(r)]
      /\ inbox' = [inbox EXCEPT ![r - 1] = Append(@, Bytes(r))]
  BY DEF Goto, Tell
<1>4. inbox[r - 1] = << >>
  BY DEF ReadInv, Told
<1>5. inbox' = [inbox EXCEPT ![r - 1] = <<Bytes(r)>>]
  BY <1>2, <1>3, <1>4
<1>6. ReadTypes'
  <2>1. <<Bytes(r)>> \in Seq(Int)
    BY <1>2
  <2>2. QED
    BY <1>2, <1>3, <1>5, <2>1 DEF ReadInv, ReadTypes
<1>7. skip'[0] = 0
  BY <1>3 DEF ReadInv, ReadTypes
<1>8. Told'
  <2>1. SUFFICES ASSUME NEW s \in Rank \ {0}
                 PROVE  IF pc'[s] \in {"scan", "relay", "refused"}
                        THEN inbox'[s - 1] = << >>
                        ELSE inbox'[s - 1] = <<Bytes(s)>> /\ skip'[s] = Bytes(s)
    <3>1. inbox'[LastRank] = << >>
      <4>1. inbox[LastRank] = << >> /\ inbox \in [Rank -> Seq(Int)]
        BY DEF ReadInv, ReadTypes, Told
      <4>2. LastRank \in Rank /\ r - 1 # LastRank
        BY <1>1 DEF Rank, LastRank
      <4>3. QED
        BY <1>5, <4>1, <4>2
    <3>2. QED
      BY <3>1, FileKept DEF Told
  <2>2. CASE s = r
    BY <1>1, <1>3, <1>5, <2>2 DEF ReadInv, ReadTypes
  <2>3. CASE s # r
    <3>1. s - 1 \in Rank /\ s - 1 # r - 1
      BY <1>1, <2>3 DEF Rank
    <3>2. QED
      BY <1>3, <1>5, <2>3, <3>1 DEF ReadInv, ReadTypes, Told
  <2>4. QED
    BY <2>2, <2>3
<1>9. Relaying' /\ Waiting'
  BY <1>3, FileKept DEF ReadInv, ReadTypes, Relaying, Waiting
<1>10. Extended'
  BY <1>3, FileKept DEF ReadInv, ReadTypes, Extended
<1>11. QED
  BY <1>6, <1>7, <1>8, <1>9, <1>10, FileKept DEF ReadInv

(* The bytes that complete its last line: nothing else is changed.         *)
Takes(r, bytes) == extra' = [extra EXCEPT ![r] = bytes]

(* A process goes on that has told its predecessor already.                *)
LEMMA GoingKeeps ==
  ASSUME ReadInv, NEW r \in Rank, NEW label,
         \/ pc[r] \notin {"scan", "relay"}
         \/ r = 0
         \/ pc[r] = "scan" /\ label = "relay" /\ r # LastRank /\ Newlines(Share(r)) = {}
         \/ pc[r] = "scan" /\ label = "refused",
         pc[r] # "refused",
         label = "relay" => pc[r] = "scan" /\ r # 0,
         label = "refused" => pc[r] = "scan",
         label # "scan",
         label = "wait" => r # LastRank,
         Goto(r, label), file' = file, inbox' = inbox, skip' = skip,
         NEW bytes \in Nat, Takes(r, bytes),
         IF label \in {"wait", "relay"} \cup Unread THEN bytes = 0
         ELSE r = 0 \/ Newlines(Share(r)) # {} => bytes = Rest(r)
  PROVE  ReadInv'
<1>1. pc' = [pc EXCEPT ![r] = label]
  BY DEF Goto
<1>2. ReadTypes' /\ skip'[0] = 0
  BY <1>1 DEF Takes, ReadInv, ReadTypes
<1>3. Told'
  BY <1>1, FileKept DEF ReadInv, ReadTypes, Told
<1>4. Relaying' /\ Waiting'
  BY <1>1, FileKept DEF ReadInv, ReadTypes, Relaying, Waiting
<1>5. Extended'
  BY <1>1, FileKept DEF Takes, ReadInv, ReadTypes, Extended, Unread
<1>6. QED
  BY <1>2, <1>3, <1>4, <1>5, FileKept DEF ReadInv

LEMMA RestOf ==
  ASSUME FileOK, NEW r \in Rank
  PROVE  /\ Rest(r) \in Nat
         /\ r # LastRank =>
              Rest(r) = IF Bytes(r + 1) > 0 THEN Bytes(r + 1) ELSE 0
<1>1. r # LastRank => r + 1 \in Rank \ {0}
  BY PAssumption DEF Rank, LastRank
<1>2. file.size \in Nat
  BY DEF FileOK
<1>3. QED
  BY <1>1, <1>2, Tells DEF Rest

LEMMA ReadStep ==
  ASSUME ReadInv, ReadNext
  PROVE  ReadInv'
<1>1. PICK r \in Rank : \/ Scan(r) \/ Relay(r) \/ Extend(r) \/ Flush(r)
                       \/ Refuse(r) \/ ReadFails(r) \/ ExtendFails(r)
  BY DEF ReadNext
<1>2. P \in Nat \ {0} /\ r \in Nat /\ FileOK
  BY PAssumption DEF Rank, ReadInv
<1>3. CASE Scan(r)
  <2>1. pc[r] = "scan" /\ UNCHANGED <<file, extra>> /\ extra[r] = 0
    BY <1>3 DEF Scan, ReadInv, Extended
  <2> USE DEF Unread
  <2>2. CASE r = 0
    <3>1. /\ Goto(r, IF P = 1 THEN "flush" ELSE "wait")
          /\ UNCHANGED <<inbox, skip>>
      BY <1>3, <2>2 DEF Scan
    <3>2. P = 1 <=> r = LastRank
      BY <1>2, <2>2 DEF LastRank
    <3>3. P = 1 => Rest(r) = 0
      BY <3>2 DEF Rest
    <3>4. Takes(r, 0)
      BY <2>1 DEF Takes, ReadInv, ReadTypes
    <3>5. CASE P = 1
      BY <2>1, <2>2, <3>1, <3>2, <3>3, <3>4, <3>5, GoingKeeps
    <3>6. CASE P # 1
      BY <2>1, <2>2, <3>1, <3>2, <3>4, <3>6, GoingKeeps
    <3>7. QED
      BY <3>5, <3>6
  <2>3. CASE r # 0 /\ Newlines(Share(r)) # {}
    <3>1. /\ Tell(r, FirstLine(r))
          /\ Goto(r, IF r = LastRank THEN "flush" ELSE "wait")
      BY <1>3, <2>3 DEF Scan
    <3>2. FirstLine(r) = Bytes(r)
      BY <1>2, <2>3, Tells
    <3>3. r = LastRank => Rest(r) = 0
      BY DEF Rest
    <3>4. CASE r = LastRank
      BY <2>1, <2>3, <3>1, <3>2, <3>3, <3>4, TellKeeps
    <3>5. CASE r # LastRank
      BY <2>1, <2>3, <3>1, <3>2, <3>5, TellKeeps
    <3>6. QED
      BY <3>4, <3>5
  <2>4. CASE r # 0 /\ Newlines(Share(r)) = {} /\ r = LastRank
    <3>1. Tell(r, -1) /\ Goto(r, "flush")
      BY <1>3, <2>4 DEF Scan
    <3>2. Bytes(r) = -1
      BY <1>2, <2>4, Tells DEF Bytes
    <3>3. QED
      BY <2>1, <2>4, <3>1, <3>2, TellKeeps
  <2>5. CASE r # 0 /\ Newlines(Share(r)) = {} /\ r # LastRank
    <3>1. Goto(r, "relay") /\ UNCHANGED <<inbox, skip>>
      BY <1>3, <2>5 DEF Scan
    <3>2. Takes(r, 0)
      BY <2>1 DEF Takes, ReadInv, ReadTypes
    <3>3. QED
      BY <2>1, <2>5, <3>1, <3>2, GoingKeeps
  <2>6. QED
    BY <2>2, <2>3, <2>4, <2>5
<1>4. CASE Relay(r)
  <2> USE DEF Unread
  <2>1. /\ pc[r] = "relay" /\ r \in Rank \ {0} /\ r # LastRank
        /\ Newlines(Share(r)) = {} /\ UNCHANGED <<file, extra>>
        /\ inbox[r] # << >> /\ Goto(r, "flush")
        /\ Tell(r, End(r) - Start(r) + Head(inbox[r]))
    BY <1>4 DEF Relay, ReadInv, Relaying
  <2>2. r + 1 \in Rank \ {0} /\ End(r) - Start(r) + Bytes(r + 1) = Bytes(r)
    BY <1>2, <2>1, Tells
  <2>3. inbox[r] = <<Bytes(r + 1)>>
    <3>1. inbox[(r + 1) - 1] = inbox[r]
      BY <1>2
    <3>2. QED
      BY <2>1, <2>2, <3>1 DEF ReadInv, Told
  <2>4. Tell(r, Bytes(r))
    BY <2>1, <2>2, <2>3
  <2>5. QED
    BY <2>1, <2>4, TellKeeps
<1>5. CASE Extend(r)
  <2> USE DEF Unread
  <2>1. /\ pc[r] = "wait" /\ r # LastRank /\ inbox[r] # << >>
        /\ extra' = [extra EXCEPT ![r] = IF Head(inbox[r]) > 0 THEN Head(inbox[r]) ELSE 0]
        /\ Goto(r, "flush") /\ UNCHANGED <<file, inbox, skip>>
    BY <1>5 DEF Extend, ReadInv, Waiting
  <2>2. r + 1 \in Rank \ {0}
    BY <1>2, <2>1 DEF Rank, LastRank
  <2>3. inbox[r] = <<Bytes(r + 1)>>
    <3>1. inbox[(r + 1) - 1] = inbox[r]
      BY <1>2
    <3>2. QED
      BY <2>1, <2>2, <3>1 DEF ReadInv, Told
  <2>4. Rest(r) \in Nat /\ Rest(r) = IF Head(inbox[r]) > 0 THEN Head(inbox[r]) ELSE 0
    BY <1>2, <2>1, <2>3, RestOf
  <2>5. Takes(r, Rest(r))
    BY <2>1, <2>4 DEF Takes
  <2>6. QED
    BY <2>1, <2>4, <2>5, GoingKeeps
<1>6. CASE Flush(r)
  <2> USE DEF Unread
  <2>1. /\ pc[r] = "flush" /\ Goto(r, "parse")
        /\ UNCHANGED <<file, inbox, skip, extra>>
    BY <1>6 DEF Flush
  <2>2. r = 0 \/ Newlines(Share(r)) # {} => extra[r] = Rest(r)
    BY <2>1 DEF ReadInv, Extended
  <2>3. Takes(r, extra[r]) /\ extra[r] \in Nat
    BY <2>1 DEF Takes, ReadInv, ReadTypes
  <2>4. QED
    BY <2>1, <2>2, <2>3, GoingKeeps
<1>7. CASE Refuse(r) \/ ReadFails(r) \/ ExtendFails(r)
  <2>1. /\ UNCHANGED <<file, inbox, skip, extra>>
        /\ \/ pc[r] = "scan" /\ Goto(r, "refused")
           \/ pc[r] = "wait" /\ Goto(r, "unread")
    BY <1>7 DEF Refuse, ReadFails, ExtendFails
  <2>2. extra[r] = 0
    BY <2>1 DEF ReadInv, Extended
  <2>3. Takes(r, 0)
    BY <2>1, <2>2 DEF Takes, ReadInv, ReadTypes
  <2>4. QED
    BY <2>1, <2>3, GoingKeeps DEF Unread
<1>8. QED
  BY <1>1, <1>3, <1>4, <1>5, <1>6, <1>7

(* A process that has read goes about its business.                        *)
LEMMA ReadOnward ==
  ASSUME ReadInv, NEW r \in Rank, NEW label,
         HasRead(r), label \notin Reading, Goto(r, label),
         UNCHANGED <<file, inbox, skip, extra>>
  PROVE  ReadInv'
<1>1. r = 0 \/ Newlines(Share(r)) # {} => extra[r] = Rest(r)
  BY DEF ReadInv, Extended, HasRead, Reading, Unread
<1>2. Takes(r, extra[r]) /\ extra[r] \in Nat
  BY DEF Takes, ReadInv, ReadTypes
<1>3. /\ pc[r] \notin {"scan", "relay", "refused"}
      /\ label \notin {"scan", "wait", "relay"} \cup Unread
  BY DEF HasRead, Reading, Unread
<1>4. QED
  BY <1>1, <1>2, <1>3, GoingKeeps DEF Unread

-----------------------------------------------------------------------------
(***************************************************************************)
(* The pieces of a run that begins and ends where lines do are the lines   *)
(* within it.                                                              *)
(***************************************************************************)
LineEnd(at) == at = 0 \/ at - 1 \in file.newlines

StartsIn(a, b) == {a} \cup {p + 1 : p \in Newlines(Run(a, b))}

LEMMA PieceOf ==
  ASSUME NEW a, NEW b, NEW x
  PROVE  x \in Pieces(Run(a, b)) <=>
           \E s \in StartsIn(a, b), e \in StartsIn(a, b) \cup {b} :
             /\ x = Run(s, e) /\ s < e
             /\ Newlines(Run(s, e - 1)) = {}
             /\ e = b \/ e - 1 \in file.newlines
<1>1. \A s, e : Run(s, e).first = s /\ Run(s, e).end = e
  BY DEF Run
<1>2. Pieces(Run(a, b)) =
        {piece \in {Run(s, e) : s \in StartsIn(a, b), e \in StartsIn(a, b) \cup {b}} :
           /\ piece.first < piece.end
           /\ Newlines(Run(piece.first, piece.end - 1)) = {}
           /\ piece.end = b \/ piece.end - 1 \in file.newlines}
  BY <1>1, SMT DEF Pieces, StartsIn
<1>3. QED
  BY <1>1, <1>2

LEMMA PiecesOf ==
  ASSUME FileOK, NEW a \in 0 .. file.size, NEW b \in 0 .. file.size,
         LineEnd(a), LineEnd(b)
  PROVE  Pieces(Run(a, b)) =
           {line \in Lines : a <= line.first /\ line.end <= b}
<1> DEFINE inner == {p \in file.newlines : a <= p /\ p < b}
           starts == {a} \cup {p + 1 : p \in inner}
           outer == {p \in file.newlines : 0 <= p /\ p < file.size}
           froms == {0} \cup {p + 1 : p \in outer}
<1>1. file.size \in Nat /\ file.newlines \subseteq 0 .. file.size - 1
      /\ LineEnd(file.size) /\ outer = file.newlines
  BY DEF FileOK, LineEnd
<1>2. \A x : x \in Pieces(Run(a, b)) <=>
        \E s \in starts, e \in starts \cup {b} :
          /\ x = Run(s, e) /\ s < e
          /\ \A p \in file.newlines : ~ (s <= p /\ p < e - 1)
          /\ e = b \/ e - 1 \in file.newlines
  <2>1. Newlines(Run(a, b)) = inner
    BY DEF Newlines, Run
  <2>2. \A s, e : Newlines(Run(s, e - 1)) = {} <=>
                    \A p \in file.newlines : ~ (s <= p /\ p < e - 1)
    BY DEF Newlines, Run
  <2>3. SUFFICES ASSUME NEW x
                 PROVE  x \in Pieces(Run(a, b)) <=>
                          \E s \in starts, e \in starts \cup {b} :
                            /\ x = Run(s, e) /\ s < e
                            /\ \A p \in file.newlines : ~ (s <= p /\ p < e - 1)
                            /\ e = b \/ e - 1 \in file.newlines
    OBVIOUS
  <2>4. x \in Pieces(Run(a, b)) <=>
          \E s \in starts, e \in starts \cup {b} :
            /\ x = Run(s, e) /\ s < e
            /\ Newlines(Run(s, e - 1)) = {}
            /\ e = b \/ e - 1 \in file.newlines
    <3>1. starts = StartsIn(a, b)
      BY <2>1 DEF StartsIn
    <3> HIDE DEF starts, inner
    <3>2. QED
      BY <3>1, PieceOf
  <2> HIDE DEF starts, inner
  <2>5. QED
    BY <2>2, <2>4, Zenon
<1>3. \A x : x \in Lines <=>
        \E s \in froms, e \in froms \cup {file.size} :
          /\ x = Run(s, e) /\ s < e
          /\ \A p \in file.newlines : ~ (s <= p /\ p < e - 1)
          /\ e = file.size \/ e - 1 \in file.newlines
  <2>1. Newlines(Run(0, file.size)) = outer
    BY DEF Newlines, Run
  <2>2. \A s, e : Newlines(Run(s, e - 1)) = {} <=>
                    \A p \in file.newlines : ~ (s <= p /\ p < e - 1)
    BY DEF Newlines, Run
  <2>3. SUFFICES ASSUME NEW x
                 PROVE  x \in Lines <=>
                          \E s \in froms, e \in froms \cup {file.size} :
                            /\ x = Run(s, e) /\ s < e
                            /\ \A p \in file.newlines : ~ (s <= p /\ p < e - 1)
                            /\ e = file.size \/ e - 1 \in file.newlines
    OBVIOUS
  <2>4. x \in Lines <=>
          \E s \in froms, e \in froms \cup {file.size} :
            /\ x = Run(s, e) /\ s < e
            /\ Newlines(Run(s, e - 1)) = {}
            /\ e = file.size \/ e - 1 \in file.newlines
    <3>1. froms = StartsIn(0, file.size)
      BY <2>1 DEF StartsIn
    <3> HIDE DEF froms, outer
    <3>2. ASSUME NEW first, NEW end, first = 0, end = file.size
          PROVE  x \in Pieces(Run(first, end)) <=>
                   \E s \in froms, e \in froms \cup {end} :
                     /\ x = Run(s, e) /\ s < e
                     /\ Newlines(Run(s, e - 1)) = {}
                     /\ e = end \/ e - 1 \in file.newlines
      <4>1. froms = StartsIn(first, end)
        BY <3>1, <3>2
      <4>2. QED
        BY <4>1, PieceOf
    <3>3. Lines = Pieces(Run(0, file.size))
      BY DEF Lines
    <3>4. QED
      BY <3>2, <3>3
  <2> HIDE DEF froms, outer
  <2>5. QED
    BY <2>2, <2>4, Zenon
<1>4. ASSUME NEW x \in Pieces(Run(a, b))
      PROVE  x \in Lines /\ a <= x.first /\ x.end <= b
  <2>1. PICK s \in starts, e \in starts \cup {b} :
          /\ x = Run(s, e) /\ s < e
          /\ \A p \in file.newlines : ~ (s <= p /\ p < e - 1)
          /\ e = b \/ e - 1 \in file.newlines
    BY <1>2
  <2>2. a <= s /\ s \in 0 .. file.size /\ e \in 0 .. file.size /\ e <= b /\ s \in froms
    BY <1>1, <2>1 DEF LineEnd
  <2>3. e - 1 \in file.newlines
    BY <1>1, <2>1, <2>2 DEF LineEnd
  <2>4. e \in froms
    BY <1>1, <2>2, <2>3
  <2>5. x.first = s /\ x.end = e
    BY <2>1 DEF Run
  <2>6. QED
    BY <1>3, <2>1, <2>2, <2>3, <2>4, <2>5
<1>5. ASSUME NEW x \in Lines, a <= x.first, x.end <= b
      PROVE  x \in Pieces(Run(a, b))
  <2>1. PICK s \in froms, e \in froms \cup {file.size} :
          /\ x = Run(s, e) /\ s < e
          /\ \A p \in file.newlines : ~ (s <= p /\ p < e - 1)
          /\ e = file.size \/ e - 1 \in file.newlines
    BY <1>3
  <2>2. a <= s /\ e <= b /\ s \in 0 .. file.size /\ e \in 0 .. file.size
    BY <1>1, <1>5, <2>1 DEF Run
  <2>3. e - 1 \in file.newlines
    BY <1>1, <2>1, <2>2 DEF LineEnd
  <2>4. s \in starts
    <3>1. CASE s = 0
      BY <2>2, <3>1
    <3>2. CASE s # 0
      <4>1. s - 1 \in file.newlines
        BY <1>1, <2>1, <2>2, <3>2
      <4>2. s = a \/ s - 1 \in inner
        BY <1>1, <2>1, <2>2, <4>1
      <4>3. QED
        BY <2>2, <4>2
    <3>3. QED
      BY <3>1, <3>2
  <2>5. e \in starts
    <3>1. e - 1 \in inner
      BY <1>1, <2>1, <2>2, <2>3
    <3>2. QED
      BY <2>2, <3>1
  <2>6. QED
    BY <1>2, <2>1, <2>3, <2>4, <2>5
<1>6. QED
  BY <1>4, <1>5

LEMMA LinesOf ==
  ASSUME FileOK, NEW line \in Lines
  PROVE  /\ line = Run(line.first, line.end)
         /\ line.first \in Nat /\ line.end \in Nat /\ line.first < line.end
         /\ line.end <= file.size
         /\ \A p \in file.newlines : ~ (line.first <= p /\ p < line.end - 1)
         /\ line.end - 1 \in file.newlines
         /\ file.size > 0
<1> DEFINE outer == {p \in file.newlines : 0 <= p /\ p < file.size}
           froms == {0} \cup {p + 1 : p \in outer}
<1>1. PICK s \in froms, e \in froms \cup {file.size} :
          /\ line = Run(s, e) /\ s < e
          /\ \A p \in file.newlines : ~ (s <= p /\ p < e - 1)
          /\ e = file.size \/ e - 1 \in file.newlines
  BY DEF Lines, Pieces, Newlines, Run
<1>2. s \in 0 .. file.size /\ e \in 0 .. file.size /\ file.size \in Nat
  BY <1>1 DEF FileOK
<1>3. line.first = s /\ line.end = e
  BY <1>1 DEF Run
<1>4. e - 1 \in file.newlines
  BY <1>1, <1>2 DEF FileOK
<1>5. QED
  BY <1>1, <1>2, <1>3, <1>4

(* What a process that has read is left with.                              *)
LEMMA TextOf ==
  ASSUME ReadInv, NEW r \in Rank, HasRead(r)
  PROVE  Pieces(Text(r)) = Part(r)
<1>1. /\ FileOK /\ P \in Nat \ {0} /\ file.size \in Nat
      /\ r \in 0 .. P /\ r + 1 \in 0 .. P /\ r # P /\ (r = LastRank <=> r + 1 = P)
  BY PAssumption DEF ReadInv, FileOK, Rank, LastRank
<1>2. pc[r] \notin {"scan", "wait", "relay"} \cup Unread
  BY DEF HasRead, Reading, Unread
<1>3. r = 0 \/ Newlines(Share(r)) # {} => extra[r] = Rest(r)
  BY <1>2 DEF ReadInv, Extended
<1>4. skip[r] = IF r = 0 THEN 0 ELSE Bytes(r)
  BY <1>2 DEF ReadInv, Told, Unread
<1>5. Pieces(Run(0, 0)) = {}
  <2>1. Newlines(Run(0, 0)) = {} /\ Run(0, 0).first = 0 /\ Run(0, 0).end = 0
    BY <1>1 DEF Newlines, Run, FileOK
  <2>2. \A s \in {0}, e \in {0} : ~ (Run(s, e).first < Run(s, e).end)
    BY DEF Run
  <2>3. QED
    BY <2>1, <2>2 DEF Pieces
<1>6. CASE file.size = 0
  <2>1. Newlines(Share(r)) = {}
    BY <1>1, <1>6 DEF FileOK, Newlines
  <2>2. Part(r) = {}
    BY <1>5, <1>6 DEF Part, Lines
  <2>3. CASE r # 0
    BY <1>5, <2>1, <2>2, <2>3 DEF Text
  <2>4. CASE r = 0
    <3>1. Start(r) = 0 /\ End(r) = 0
      BY <1>1, <1>6, <2>4, Starts, Ends DEF Rank
    <3>2. extra[r] = 0 /\ skip[r] = 0
      BY <1>3, <1>4, <1>6, <2>4 DEF Rest
    <3>3. Text(r) = Run(0, 0)
      BY <2>4, <3>1, <3>2 DEF Text
    <3>4. QED
      BY <1>5, <2>2, <3>3
  <2>5. QED
    BY <2>3, <2>4
<1>7. CASE file.size # 0
  <2>1. file.size > 0
    BY <1>1, <1>7
  <2>2. /\ Cut(r) \in 0 .. file.size /\ Cut(r + 1) \in 0 .. file.size
        /\ LineEnd(Cut(r)) /\ LineEnd(Cut(r + 1))
    BY <1>1, <2>1, Cuts DEF LineEnd
  <2>3. /\ Start(r) \in Int /\ End(r) \in Int /\ End(r) = Start(r + 1)
        /\ Start(0) = 0 /\ Start(P) = file.size /\ Cut(0) = 0 /\ Cut(P) = file.size
    BY <1>1, <2>1, Starts, Ends, Cuts
  <2>4. Start(r) + skip[r] = Cut(r)
    BY <1>4, <1>7, <2>2, <2>3 DEF Bytes
  <2>5. End(r) + Rest(r) = Cut(r + 1)
    BY <1>1, <1>7, <2>2, <2>3 DEF Rest, Bytes
  <2>6. CASE r = 0 \/ Newlines(Share(r)) # {}
    <3>1. Text(r) = Run(Cut(r), Cut(r + 1))
      BY <1>3, <2>4, <2>5, <2>6 DEF Text
    <3>2. QED
      BY <1>1, <2>2, <3>1, PiecesOf DEF Part
  <2>7. CASE r # 0 /\ Newlines(Share(r)) = {}
    <3>1. Cut(r + 1) = Cut(r)
      BY <1>1, <1>7, <2>1, <2>7, Tells
    <3>2. Pieces(Text(r)) = {}
      BY <1>5, <2>7 DEF Text
    <3>3. QED
      BY <1>1, <2>2, <3>1, <3>2, LinesOf DEF Part
  <2>8. QED
    BY <2>6, <2>7
<1>8. QED
  BY <1>6, <1>7

(* Every line is left to some process, and two processes are left with     *)
(* different lines, in the order of the file.                              *)
LEMMA PartsCover ==
  ASSUME FileOK, NEW line \in Lines
  PROVE  \E r \in Rank : line \in Part(r)
<1>1. file.size > 0 /\ P \in Nat \ {0} /\ file.size \in Nat
  BY LinesOf, PAssumption DEF FileOK
<1> DEFINE Later == {s \in 0 .. P : line.first < Cut(s)}
<1>2. P \in Later /\ Later \subseteq Nat
  BY <1>1, LinesOf, Cuts
<1>3. PICK s \in Later : \A t \in Later : s <= t
  BY <1>2, LeastNatural
<1>4. s # 0
  BY <1>1, LinesOf, Cuts
<1>5. s - 1 \in Rank /\ s - 1 \in 0 .. P /\ s \in 1 .. P /\ (s - 1) + 1 = s
  BY <1>1, <1>4 DEF Rank
<1>6. s - 1 \notin Later
  BY <1>3, <1>5
<1>7. Cut(s - 1) <= line.first
  BY <1>1, <1>5, <1>6, LinesOf, Cuts
<1>8. line.end <= Cut(s)
  <2>1. Cut(s) - 1 \in file.newlines /\ Cut(s) \in Int /\ line.first < Cut(s)
    BY <1>1, <1>5, Cuts
  <2>2. QED
    BY <2>1, LinesOf
<1>9. QED
  BY <1>5, <1>7, <1>8 DEF Part

LEMMA PartsApart ==
  ASSUME FileOK, NEW r \in Rank, NEW s \in Rank, r < s,
         NEW a \in Part(r), NEW b \in Part(s)
  PROVE  a.end <= b.first /\ a # b
<1>1. /\ a \in Lines /\ a.end <= Cut(r + 1)
      /\ b \in Lines /\ Cut(s) <= b.first
  BY DEF Part
<1>2. file.size > 0 /\ Cut(r + 1) \in Int /\ Cut(s) \in Int /\ Cut(r + 1) <= Cut(s)
  <2>1. r + 1 \in 0 .. P /\ s \in 0 .. P /\ r + 1 <= s
    BY PAssumption DEF Rank
  <2>2. QED
    BY <1>1, <2>1, LinesOf, Cuts
<1>3. /\ a.first \in Int /\ a.end \in Int /\ a.first < a.end
      /\ b.first \in Int /\ b.end \in Int /\ b.first < b.end
  BY <1>1, LinesOf
<1>4. QED
  BY <1>1, <1>2, <1>3

LEMMA PartsDisjoint ==
  ASSUME FileOK, NEW r \in Rank, NEW s \in Rank, r # s
  PROVE  Part(r) \cap Part(s) = {}
<1>1. r < s \/ s < r
  BY PAssumption DEF Rank
<1>2. QED
  BY <1>1, PartsApart

LEMMA ReadFullLines == ReadInv => FullLines
<1> SUFFICES ASSUME ReadInv, NEW r \in Rank, HasRead(r)
             PROVE  /\ Pieces(Text(r)) \subseteq Lines
                    /\ \A s \in Rank \ {r} :
                         HasRead(s) => Pieces(Text(r)) \cap Pieces(Text(s)) = {}
  BY DEF FullLines
<1>1. Pieces(Text(r)) \subseteq Lines
  BY TextOf DEF Part
<1>2. QED
  BY <1>1, TextOf, PartsDisjoint DEF ReadInv

LEMMA ReadAllRead == ReadInv => AllRead
<1> SUFFICES ASSUME ReadInv, \A r \in Rank : HasRead(r)
             PROVE  /\ Lines = UNION {Pieces(Text(r)) : r \in Rank}
                    /\ \A r, s \in Rank : r < s =>
                         \A a \in Pieces(Text(r)), b \in Pieces(Text(s)) :
                           a.end <= b.first
  BY DEF AllRead
<1>1. FileOK /\ \A r \in Rank : Pieces(Text(r)) = Part(r)
  BY TextOf DEF ReadInv
<1>2. \A line \in Lines : \E r \in Rank : line \in Pieces(Text(r))
  BY <1>1, PartsCover
<1>3. \A r \in Rank : Pieces(Text(r)) \subseteq Lines
  BY <1>1 DEF Part
<1>4. QED
  BY <1>1, <1>2, <1>3, PartsApart

-----------------------------------------------------------------------------
(***************************************************************************)
(* The theorems.                                                           *)
(***************************************************************************)
LEMMA Invariance ==
  ASSUME Exact
  PROVE  Spec => []ReadInv
<1>1. Init => ReadInv
  BY ReadInit
<1>2. ReadInv /\ [ReadNext]_readVars => ReadInv'
  <2> SUFFICES ASSUME ReadInv, [ReadNext]_readVars PROVE ReadInv'
    OBVIOUS
  <2>1. CASE UNCHANGED readVars
    BY <2>1, FileKept DEF readVars, ReadInv, ReadTypes, Told, Relaying, Waiting, Extended
  <2>2. QED
    BY <2>1, ReadStep
<1>3. QED
  BY <1>1, <1>2, PTL DEF Spec

(* Every process is left with whole lines, and with lines of its own, for  *)
(* any number of processes and any file that ends with a newline.          *)
THEOREM LinesWhole ==
  ASSUME Exact
  PROVE  Spec => []FullLines
BY Invariance, ReadFullLines, PTL

(* Together they have every line of the file, in its order.                *)
THEOREM NoLineLost ==
  ASSUME Exact
  PROVE  Spec => []AllRead
BY Invariance, ReadAllRead, PTL

-----------------------------------------------------------------------------
(***************************************************************************)
(* Largest of a finite set.                                                *)
(***************************************************************************)
LEMMA FiniteBounded ==
  ASSUME NEW S, S \subseteq Nat, IsFiniteSet(S)
  PROVE  \E n \in Nat : \A x \in S : x <= n
<1> DEFINE Bounded(Q) == \E n \in Nat : \A x \in Q : x <= n
           Bad == {Q \in SUBSET S : ~ Bounded(Q)}
<1>1. SUFFICES ASSUME ~ Bounded(S) PROVE FALSE
  OBVIOUS
<1>2. Bad # {} /\ \A Q \in Bad : IsFiniteSet(Q)
  BY <1>1, FS_Subset
<1>3. PICK Q \in Bad : \A x \in Q : Q \ {x} \notin Bad
  BY <1>2, LeastSet
<1>4. PICK x \in Q : TRUE
  <2>1. Q # {}
    BY <1>3
  <2>2. QED
    BY <2>1
<1>5. Bounded(Q \ {x})
  BY <1>3
<1>6. PICK n \in Nat : \A y \in Q \ {x} : y <= n
  BY <1>5
<1>7. x \in Nat
  BY <1>4
<1>8. CASE x <= n
  <2>1. \A y \in Q : y <= n
    BY <1>6, <1>8
  <2>2. QED
    BY <1>3, <2>1
<1>9. CASE n < x
  <2>1. \A y \in Q : y \in Nat /\ y <= x
    BY <1>6, <1>7, <1>9
  <2>2. QED
    BY <1>3, <1>7, <2>1
<1>10. QED
  BY <1>7, <1>8, <1>9

LEMMA LargestOf ==
  ASSUME NEW S, S \subseteq Nat, S # {}, IsFiniteSet(S)
  PROVE  Largest(S) \in S /\ \A y \in S : y <= Largest(S)
<1> DEFINE Above == {n \in Nat : \A x \in S : x <= n}
<1>1. Above # {} /\ Above \subseteq Nat
  BY FiniteBounded
<1>2. PICK n \in Above : \A m \in Above : n <= m
  BY <1>1, LeastNatural
<1>3. n \in S
  <2>1. SUFFICES ASSUME n \notin S PROVE FALSE
    OBVIOUS
  <2>2. \A x \in S : x \in Nat /\ x <= n - 1
    BY <1>2, <2>1
  <2>3. PICK x \in S : TRUE
    OBVIOUS
  <2>4. n - 1 \in Nat
    BY <1>2, <2>2, <2>3
  <2>5. n - 1 \in Above
    BY <2>2, <2>4
  <2>6. QED
    BY <1>2, <2>5
<1>4. QED
  BY <1>2, <1>3 DEF Largest

(* The largest value of a function over a finite set, or 0.                *)
LEMMA LargestImage ==
  ASSUME NEW D, IsFiniteSet(D), NEW f \in [D -> Nat], NEW low \in {{}, {0}},
         low # {} \/ D # {}
  PROVE  LET most == Largest(low \cup {f[x] : x \in D})
         IN  most \in Nat /\ \A x \in D : f[x] <= most
<1> DEFINE R == {f[x] : x \in D}
           S == low \cup R
<1>1. f \in Surjection(D, R)
  BY DEF Surjection
<1>2. IsFiniteSet(R)
  BY <1>1, FS_Surjection
<1>3. IsFiniteSet(S)
  <2>1. S = R \/ S = R \cup {0}
    OBVIOUS
  <2>2. QED
    BY <1>2, <2>1, FS_AddElement
<1>4. S \subseteq Nat /\ S # {}
  OBVIOUS
<1>5. Largest(S) \in S /\ \A y \in S : y <= Largest(S)
  BY <1>3, <1>4, LargestOf
<1>6. QED
  BY <1>4, <1>5

-----------------------------------------------------------------------------
(***************************************************************************)
(* The entries of the lines left to process r, and those of all of them.   *)
(***************************************************************************)
EntriesFrom(r) == UNION {EntriesOf(r, line) : line \in ArcsIn(Part(r))}
AllEntries == UNION {EntriesFrom(s) : s \in Rank}

(***************************************************************************)
(* The inductive invariant.  Where a process is tells what it has parsed,  *)
(* agreed to, sent, received and inserted; the collective operations keep  *)
(* the others from being too far behind.                                   *)
(***************************************************************************)
Before == Reading \cup {"parse", "thrown"}
Past == {"send", "receive", "insert", "finalize", "returned"}
Closing == {"insert", "finalize", "returned"}

Sent(r) == P > 1 /\ pc[r] \in {"receive"} \cup Closing

(* A single process neither sends nor receives.                            *)
Places == IF P = 1 THEN Labels \ {"send", "receive"} ELSE Labels

Says == /\ says \in [Lines -> Arcs \cup {Comment, Invalid}]
        /\ \A r \in Rank : pc[r] \in Places

Fenced == \A r, s \in Rank : pc[r] \in Past => pc[s] \notin Before

Lists == outbox = [r \in Rank |-> [d \in Rank |->
                     IF pc[r] \in Before THEN {}
                     ELSE {e \in EntriesFrom(r) : Owner(e.row) = d}]]

Covers(extents, entries) ==
  \A e \in entries : /\ e.row \in Nat /\ e.row <= extents.row
                     /\ e.col \in Nat /\ e.col <= extents.col

Extents == /\ extent \in [Rank -> [row : Nat, col : Nat]]
           /\ \A r \in Rank : pc[r] \notin Before =>
                Covers(extent[r], EntriesFrom(r))

Shaped == /\ shape \in [Rank -> [height : Nat, width : Nat]]
          /\ \A r, s \in Rank : pc[r] \in Past =>
               extent[s].row < shape[r].height /\ extent[s].col < shape[r].width

Mail == flying = [r \in Rank |-> IF Sent(r) THEN {d \in Rank : outbox[r][d] # {} /\ r \notin taken[d]}
                                 ELSE {}]

Receipts == /\ taken \in [Rank -> SUBSET Rank]
            /\ \A r \in Rank :
                 /\ \A s \in taken[r] : Sent(s)
                 /\ P > 1 /\ pc[r] \in Closing => Awaited(r) \subseteq taken[r]

Landing == \A r \in Rank :
             /\ pc[r] \in {"insert", "finalize"} => flying[r] \subseteq {LastRank}
             /\ pc[r] = "returned" => flying[r] = {}

Filled == matrix = [r \in Rank |-> IF pc[r] \in {"finalize", "returned"}
                                   THEN Accumulated({e \in AllEntries : Owner(e.row) = r})
                                   ELSE << >>]

ArcInv == /\ ReadInv
          /\ Says
          /\ Fenced
          /\ Lists
          /\ Extents
          /\ Shaped
          /\ Mail
          /\ Receipts
          /\ Landing
          /\ Filled

-----------------------------------------------------------------------------
LEMMA EntriesKept ==
  ASSUME UNCHANGED <<file, says>>
  PROVE  /\ \A r : EntriesFrom(r)' = EntriesFrom(r)
         /\ AllEntries' = AllEntries
         /\ Lines' = Lines
<1>1. \A r : Part(r)' = Part(r)
  BY FileKept
<1>2. \A r : EntriesFrom(r)' = EntriesFrom(r)
  BY <1>1 DEF EntriesFrom, EntriesOf, ArcsIn
<1>3. QED
  BY <1>2 DEF AllEntries, Lines, Pieces, Newlines

LEMMA ArcInitInv ==
  ASSUME Exact, ArcInit
  PROVE  ArcInv
<1>1. Init /\ ReadInv
  BY ReadInit DEF ArcInit
<1>2. Says
  <2>1. PICK holds \in [{line \in Lines : line.end - line.first > 1} ->
                          Arcs \cup {Comment, Invalid}] :
          says = [line \in Lines |->
                    IF line \in DOMAIN holds THEN holds[line] ELSE Invalid]
    BY DEF ArcInit
  <2>2. \A line \in DOMAIN holds : holds[line] \in Arcs \cup {Comment, Invalid}
    BY <2>1
  <2>3. says \in [Lines -> Arcs \cup {Comment, Invalid}]
    BY <2>1, <2>2
  <2>4. \A r \in Rank : pc[r] \in Places
    BY <1>1 DEF Init, Places, Labels, Reading, Unread
  <2>5. QED
    BY <2>3, <2>4 DEF Says
<1>3. \A r \in Rank : pc[r] = "scan"
  BY <1>1 DEF Init
<1>4. Fenced /\ Lists /\ Landing
  BY <1>3 DEF ArcInit, Fenced, Lists, Landing, Before, Past, Reading, Unread
<1>5. Extents /\ Shaped
  BY <1>3 DEF ArcInit, Extents, Shaped, Before, Past, Reading, Unread
<1>6. Mail /\ Receipts /\ Filled
  BY <1>3 DEF ArcInit, Mail, Receipts, Filled, Sent, Closing
<1>7. QED
  BY <1>1, <1>2, <1>4, <1>5, <1>6 DEF ArcInv

(***************************************************************************)
(* What a step changes of where process r is.                              *)
(***************************************************************************)
LEMMA AtKeeps ==
  ASSUME ArcInv, NEW r \in Rank, NEW here, NEW there,
         At(r, here, there), says' = says,
         here \in Labels \ Reading, there \in Places \ Reading
  PROVE  /\ ReadInv' /\ Says'
         /\ pc[r] = here /\ pc' = [s \in Rank |-> IF s = r THEN there ELSE pc[s]]
         /\ \A s : EntriesFrom(s)' = EntriesFrom(s)
         /\ AllEntries' = AllEntries
<1>1. /\ pc[r] = here /\ Goto(r, there) /\ file' = file
      /\ UNCHANGED <<file, inbox, skip, extra>>
  BY DEF At
<1>2. ReadInv'
  BY <1>1, ReadOnward DEF ArcInv, HasRead, Places
<1>3. pc' = [s \in Rank |-> IF s = r THEN there ELSE pc[s]]
  BY <1>1 DEF Goto, ArcInv, ReadInv, ReadTypes
<1>4. (\A s : EntriesFrom(s)' = EntriesFrom(s)) /\ AllEntries' = AllEntries /\ Lines' = Lines
  BY <1>1, EntriesKept
<1>5. Says'
  BY <1>3, <1>4 DEF ArcInv, Says
<1>6. QED
  BY <1>1, <1>2, <1>3, <1>4, <1>5

-----------------------------------------------------------------------------
(***************************************************************************)
(* One lemma per action.                                                   *)
(***************************************************************************)
LEMMA ReadMoves ==
  ASSUME ReadInv, ReadNext
  PROVE  /\ UNCHANGED file
         /\ \E r \in Rank, label \in Reading \cup {"parse"} :
              /\ pc[r] \in Reading
              /\ pc' = [s \in Rank |-> IF s = r THEN label ELSE pc[s]]
<1>1. PICK r \in Rank : \/ Scan(r) \/ Relay(r) \/ Extend(r) \/ Flush(r)
                       \/ Refuse(r) \/ ReadFails(r) \/ ExtendFails(r)
  BY DEF ReadNext
<1>2. pc[r] \in Reading /\ UNCHANGED file
  BY <1>1 DEF Scan, Relay, Extend, Flush, Refuse, ReadFails, ExtendFails, Reading, Unread
<1>3. \E label \in Reading \cup {"parse"} : Goto(r, label)
  BY <1>1 DEF Scan, Relay, Extend, Flush, Refuse, ReadFails, ExtendFails, Reading, Unread
<1>4. PICK label \in Reading \cup {"parse"} : pc' = [pc EXCEPT ![r] = label]
  BY <1>3 DEF Goto
<1>5. pc = [s \in Rank |-> pc[s]]
  BY DEF ReadInv, ReadTypes
<1>6. pc' = [s \in Rank |-> IF s = r THEN label ELSE pc[s]]
  BY <1>4, <1>5
<1>7. QED
  BY <1>2, <1>6

LEMMA ReadKeeps ==
  ASSUME ArcInv, Read
  PROVE  ArcInv'
<1>1. ReadInv' /\ UNCHANGED exchangeVars /\ UNCHANGED file
  BY ReadStep, ReadMoves DEF ArcInv, Read
<1>2. PICK r \in Rank, label \in Reading \cup {"parse"} :
        /\ pc[r] \in Reading
        /\ pc' = [s \in Rank |-> IF s = r THEN label ELSE pc[s]]
  BY ReadMoves DEF ArcInv, Read
<1>3. /\ UNCHANGED <<says, outbox, extent, shape, flying, taken, matrix>>
      /\ \A s : EntriesFrom(s)' = EntriesFrom(s)
      /\ AllEntries' = AllEntries /\ Lines' = Lines
  BY <1>1, EntriesKept DEF exchangeVars
<1>4. \A s \in Rank : /\ pc'[s] \in Before <=> pc[s] \in Before
                      /\ pc'[s] \in Past <=> pc[s] \in Past
                      /\ pc'[s] \in Closing <=> pc[s] \in Closing
                      /\ pc'[s] = "receive" <=> pc[s] = "receive"
                      /\ pc'[s] \in Past => pc'[s] = pc[s]
  BY <1>2 DEF Before, Past, Closing, Reading, Unread
<1>5. \A s \in Rank : Sent(s)' <=> Sent(s)
  BY <1>4 DEF Sent
<1>6. Says' /\ Fenced'
  BY <1>2, <1>3, <1>4 DEF ArcInv, Says, Fenced, Places, Labels, Reading, Unread
<1>7. Lists' /\ Extents' /\ Shaped'
  BY <1>3, <1>4 DEF ArcInv, Lists, Extents, Shaped
<1>8. Mail' /\ Receipts'
  BY <1>3, <1>4, <1>5 DEF ArcInv, Mail, Receipts, Awaited
<1>9. Landing' /\ Filled'
  BY <1>3, <1>4 DEF ArcInv, Landing, Filled, Past
<1>10. QED
  BY <1>1, <1>6, <1>7, <1>8, <1>9 DEF ArcInv

(* The extent covers every entry of the lines.                             *)
LEMMA LinesFinite ==
  ASSUME FileOK
  PROVE  IsFiniteSet(Lines)
<1> DEFINE f == [line \in Lines |-> line.first]
<1>1. file.size \in Nat
  BY DEF FileOK
<1>2. ASSUME NEW a \in Lines, NEW b \in Lines, a.first = b.first
      PROVE  a = b
  <2>1. a.end = b.end
    BY <1>2, LinesOf
  <2>2. QED
    BY <1>2, <2>1, LinesOf
<1>3. \A line \in Lines : line.first \in 0 .. file.size
  BY <1>1, LinesOf
<1>4. f \in Injection(Lines, 0 .. file.size)
  BY <1>2, <1>3 DEF Injection, IsInjective
<1>5. QED
  BY <1>1, <1>4, FS_Injection, FS_Interval

LEMMA ArcOf ==
  ASSUME ArcInv, NEW r \in Rank, NEW line \in ArcsIn(Part(r))
  PROVE  line \in Lines /\ says[line] \in Nat \X Nat
BY ArcsAssumption DEF ArcInv, Says, ArcsIn, Part

LEMMA ExtentOf ==
  ASSUME ArcInv, NEW r \in Rank, HasRead(r),
         NEW both,
         both = LET arcs == ArcsIn(Pieces(Text(r)))
                    row == Largest({0} \cup {says[a][1] : a \in arcs})
                    col == Largest({0} \cup {says[a][2] : a \in arcs})
                IN  IF Symmetrize
                    THEN [row |-> Largest({row, col}), col |-> Largest({row, col})]
                    ELSE [row |-> row, col |-> col]
  PROVE  both \in [row : Nat, col : Nat] /\ Covers(both, EntriesFrom(r))
<1> DEFINE arcs == ArcsIn(Part(r))
           rows == {0} \cup {says[a][1] : a \in arcs}
           cols == {0} \cup {says[a][2] : a \in arcs}
           row == Largest(rows)
           col == Largest(cols)
<1>1. Pieces(Text(r)) = Part(r)
  BY TextOf DEF ArcInv
<1>2. IsFiniteSet(arcs)
  BY LinesFinite, FS_Subset DEF ArcInv, ReadInv, ArcsIn, Part
<1>3. \A a \in arcs : says[a] \in Nat \X Nat
  BY ArcOf
<1>4. row \in Nat /\ \A a \in arcs : says[a][1] <= row
  <2> DEFINE f == [a \in arcs |-> says[a][1]]
  <2>1. f \in [arcs -> Nat]
    BY <1>3
  <2>2. rows = {0} \cup {f[x] : x \in arcs}
    OBVIOUS
  <2>3. \A a \in arcs : f[a] = says[a][1]
    OBVIOUS
  <2> HIDE DEF f, arcs, rows
  <2>4. Largest({0} \cup {f[x] : x \in arcs}) \in Nat
        /\ \A a \in arcs : f[a] <= Largest({0} \cup {f[x] : x \in arcs})
    BY <1>2, <2>1, LargestImage
  <2>5. QED
    BY <2>2, <2>3, <2>4
<1>5. col \in Nat /\ \A a \in arcs : says[a][2] <= col
  <2> DEFINE f == [a \in arcs |-> says[a][2]]
  <2>1. f \in [arcs -> Nat]
    BY <1>3
  <2>2. cols = {0} \cup {f[x] : x \in arcs}
    OBVIOUS
  <2>3. \A a \in arcs : f[a] = says[a][2]
    OBVIOUS
  <2> HIDE DEF f, arcs, cols
  <2>4. Largest({0} \cup {f[x] : x \in arcs}) \in Nat
        /\ \A a \in arcs : f[a] <= Largest({0} \cup {f[x] : x \in arcs})
    BY <1>2, <2>1, LargestImage
  <2>5. QED
    BY <2>2, <2>3, <2>4
<1> HIDE DEF row, col
<1>6. Largest({row, col}) \in Nat /\ row <= Largest({row, col}) /\ col <= Largest({row, col})
  <2>1. IsFiniteSet({row, col})
    <3>1. {row, col} = {row} \cup {col}
      OBVIOUS
    <3>2. IsFiniteSet({row})
      BY FS_Singleton
    <3>3. IsFiniteSet({row} \cup {col})
      BY <3>2, FS_AddElement
    <3>4. QED
      BY <3>1, <3>3
  <2>2. {row, col} \subseteq Nat /\ {row, col} # {}
    BY <1>4, <1>5
  <2>3. QED
    BY <2>1, <2>2, LargestOf
<1>7. both = IF Symmetrize
             THEN [row |-> Largest({row, col}), col |-> Largest({row, col})]
             ELSE [row |-> row, col |-> col]
  BY <1>1 DEF row, col
<1>8. ASSUME NEW e \in EntriesFrom(r)
      PROVE  /\ e.row \in Nat /\ e.row <= both.row
             /\ e.col \in Nat /\ e.col <= both.col
  <2>1. PICK a \in arcs : e \in EntriesOf(r, a)
    BY <1>8 DEF EntriesFrom
  <2>2. /\ says[a][1] \in Nat /\ says[a][1] <= row
        /\ says[a][2] \in Nat /\ says[a][2] <= col
    BY <1>3, <1>4, <1>5
  <2>3. \/ e.row = says[a][1] /\ e.col = says[a][2]
        \/ Symmetrize /\ e.row = says[a][2] /\ e.col = says[a][1]
    BY <2>1 DEF EntriesOf, Entry
  <2>4. QED
    BY <1>4, <1>5, <1>6, <1>7, <2>2, <2>3
<1>9. both \in [row : Nat, col : Nat]
  BY <1>4, <1>5, <1>6, <1>7
<1>10. QED
  BY <1>8, <1>9 DEF Covers

LEMMA ParseKeeps ==
  ASSUME ArcInv, NEW r \in Rank, Parse(r)
  PROVE  ArcInv'
<1>1. /\ ReadInv' /\ Says' /\ pc[r] = "parse"
      /\ pc' = [s \in Rank |-> IF s = r THEN "agree" ELSE pc[s]]
      /\ \A s : EntriesFrom(s)' = EntriesFrom(s)
      /\ AllEntries' = AllEntries
  BY AtKeeps DEF Parse, Places, Labels, Reading, Unread
<1>2. HasRead(r) /\ Pieces(Text(r)) = Part(r)
  BY <1>1, TextOf DEF HasRead, Reading, Unread, ArcInv
<1>3. \A s \in Rank : /\ pc'[s] \in Past <=> pc[s] \in Past
                      /\ pc'[s] \in Closing <=> pc[s] \in Closing
                      /\ pc'[s] = "receive" <=> pc[s] = "receive"
                      /\ pc'[s] \in Past => pc'[s] = pc[s]
                      /\ pc'[s] \in Before => pc[s] \in Before
                      /\ pc[s] \in Past => s # r
  BY <1>1 DEF Before, Past, Closing, Reading, Unread
<1>4. pc[r] \in Before /\ pc'[r] \notin Before /\ \A s \in Rank : pc[s] \notin Past
  BY <1>1 DEF Before, Reading, Unread, ArcInv, Fenced
<1>5. Parsed(r) = EntriesFrom(r)
  BY <1>2 DEF Parsed, EntriesFrom
<1>6. /\ outbox' = [outbox EXCEPT ![r] =
            [d \in Rank |-> {e \in EntriesFrom(r) : Owner(e.row) = d}]]
      /\ UNCHANGED <<shape, flying, taken, matrix>>
  BY <1>5 DEF Parse
<1>7. Fenced'
  BY <1>3, <1>4 DEF Fenced
<1>8. Lists'
  <2>1. \A s \in Rank : s # r => (pc'[s] \in Before <=> pc[s] \in Before)
    BY <1>1
  <2>2. QED
    BY <1>1, <1>4, <1>6, <2>1 DEF ArcInv, Lists
<1>9. PICK both : /\ extent' = [extent EXCEPT ![r] = both]
                  /\ both \in [row : Nat, col : Nat] /\ Covers(both, EntriesFrom(r))
  <2> DEFINE arcs == ArcsIn(Pieces(Text(r)))
             row == Largest({0} \cup {says[a][1] : a \in arcs})
             col == Largest({0} \cup {says[a][2] : a \in arcs})
             both == IF Symmetrize
                     THEN [row |-> Largest({row, col}), col |-> Largest({row, col})]
                     ELSE [row |-> row, col |-> col]
  <2>1. extent' = [extent EXCEPT ![r] = both]
    BY DEF Parse
  <2>2. both \in [row : Nat, col : Nat] /\ Covers(both, EntriesFrom(r))
    BY <1>2, ExtentOf
  <2>3. QED
    BY <2>1, <2>2
<1>10. Extents'
  <2>1. extent' \in [Rank -> [row : Nat, col : Nat]]
    BY <1>9 DEF ArcInv, Extents
  <2>2. ASSUME NEW s \in Rank, pc'[s] \notin Before
        PROVE  Covers(extent'[s], EntriesFrom(s))
    <3>1. CASE s = r
      BY <1>9, <3>1 DEF ArcInv, Extents
    <3>2. CASE s # r
      BY <1>1, <1>9, <2>2, <3>2 DEF ArcInv, Extents
    <3>3. QED
      BY <3>1, <3>2
  <2>3. \A s \in Rank : Covers(extent[s], EntriesFrom(s))' <=> Covers(extent'[s], EntriesFrom(s))
    BY <1>1 DEF Covers
  <2>4. QED
    BY <2>1, <2>2, <2>3 DEF Extents
<1>11. Shaped' /\ Landing' /\ Filled'
  BY <1>1, <1>3, <1>4, <1>6 DEF ArcInv, Shaped, Landing, Filled, Past
<1>12. \A s \in Rank : ~ Sent(s) /\ ~ Sent(s)'
  BY <1>3, <1>4 DEF Sent, Past, Closing
<1>13. Mail' /\ Receipts'
  BY <1>3, <1>4, <1>6, <1>12 DEF ArcInv, Mail, Receipts, Closing, Past
<1>14. QED
  BY <1>1, <1>7, <1>8, <1>10, <1>11, <1>13 DEF ArcInv

LEMMA ParseThrowsKeeps ==
  ASSUME ArcInv, NEW r \in Rank, ParseThrows(r)
  PROVE  ArcInv'
<1>1. /\ UNCHANGED exchangeVars
      /\ UNCHANGED <<says, outbox, extent, shape, flying, taken, matrix>>
  BY DEF ParseThrows, exchangeVars
<1>2. /\ ReadInv' /\ Says' /\ pc[r] = "parse"
      /\ pc' = [s \in Rank |-> IF s = r THEN "thrown" ELSE pc[s]]
      /\ \A s : EntriesFrom(s)' = EntriesFrom(s)
      /\ AllEntries' = AllEntries
  BY <1>1, AtKeeps DEF ParseThrows, Places, Labels, Reading, Unread
<1>3. \A s \in Rank : /\ pc'[s] \in Before <=> pc[s] \in Before
                      /\ pc'[s] \in Past <=> pc[s] \in Past
                      /\ pc'[s] \in Closing <=> pc[s] \in Closing
                      /\ pc'[s] = "receive" <=> pc[s] = "receive"
                      /\ pc'[s] \in Past => pc'[s] = pc[s]
  BY <1>2 DEF Before, Past, Closing, Reading, Unread
<1>4. \A s \in Rank : Sent(s)' <=> Sent(s)
  BY <1>3 DEF Sent
<1>5. Fenced' /\ Lists'
  BY <1>1, <1>2, <1>3 DEF ArcInv, Fenced, Lists
<1>6. Extents' /\ Shaped'
  BY <1>1, <1>2, <1>3 DEF ArcInv, Extents, Shaped, Covers
<1>7. Mail' /\ Receipts'
  BY <1>1, <1>3, <1>4 DEF ArcInv, Mail, Receipts, Awaited
<1>8. Landing' /\ Filled'
  BY <1>1, <1>2, <1>3 DEF ArcInv, Landing, Filled, Past
<1>9. QED
  BY <1>2, <1>5, <1>6, <1>7, <1>8 DEF ArcInv

LEMMA AgreeKeeps ==
  ASSUME ArcInv, NEW r \in Rank, Agree(r)
  PROVE  ArcInv'
<1> DEFINE there == IF P = 1 THEN "insert" ELSE "send"
           both == [height |-> Largest({extent[s].row : s \in Rank}) + 1,
                    width |-> Largest({extent[s].col : s \in Rank}) + 1]
<1>1. /\ UNCHANGED <<says, outbox, extent, flying, taken, matrix>>
      /\ shape' = [shape EXCEPT ![r] = both]
      /\ \A s \in Rank : pc[s] \notin Before
  BY DEF Agree, Before
<1>2. there \in {"insert", "send"} /\ there \in Places \ Reading
  BY DEF Places, Labels, Reading, Unread
<1>3. /\ ReadInv' /\ Says' /\ pc[r] = "agree"
      /\ pc' = [s \in Rank |-> IF s = r THEN there ELSE pc[s]]
      /\ \A s : EntriesFrom(s)' = EntriesFrom(s)
      /\ AllEntries' = AllEntries
  BY <1>1, <1>2, AtKeeps DEF Agree, Places, Labels, Reading, Unread
<1>4. \A s \in Rank : pc'[s] \notin Before
  BY <1>1, <1>2, <1>3 DEF Before, Reading, Unread
<1>5. \A s \in Rank : Sent(s)' <=> Sent(s)
  BY <1>3 DEF Sent, Closing
<1>6. Fenced' /\ Lists' /\ Extents'
  BY <1>1, <1>3, <1>4 DEF ArcInv, Fenced, Lists, Extents
<1>7. /\ both \in [height : Nat, width : Nat]
      /\ \A s \in Rank : extent[s].row < both.height /\ extent[s].col < both.width
  <2> DEFINE f == [s \in Rank |-> extent[s].row]
             g == [s \in Rank |-> extent[s].col]
             F == Largest({} \cup {f[s] : s \in Rank})
             G == Largest({} \cup {g[s] : s \in Rank})
  <2>1. f \in [Rank -> Nat] /\ g \in [Rank -> Nat]
    BY DEF ArcInv, Extents
  <2>2. IsFiniteSet(Rank) /\ Rank # {}
    <3>1. P - 1 \in Int /\ 0 \in Rank
      BY PAssumption DEF Rank
    <3>2. QED
      BY <3>1, FS_Interval DEF Rank
  <2>3. both = [height |-> F + 1, width |-> G + 1]
    OBVIOUS
  <2>4. \A s \in Rank : f[s] = extent[s].row /\ g[s] = extent[s].col
    OBVIOUS
  <2> HIDE DEF f, g, both
  <2>5. F \in Nat /\ \A s \in Rank : f[s] <= F
    BY <2>1, <2>2, LargestImage
  <2>6. G \in Nat /\ \A s \in Rank : g[s] <= G
    BY <2>1, <2>2, LargestImage
  <2>7. \A s \in Rank : f[s] \in Nat /\ g[s] \in Nat
    BY <2>1
  <2> HIDE DEF F, G
  <2>8. QED
    BY <2>3, <2>4, <2>5, <2>6, <2>7
<1> HIDE DEF both
<1>8. Shaped'
  BY <1>1, <1>3, <1>7 DEF ArcInv, Shaped, Past
<1>9. Mail'
  BY <1>1, <1>5 DEF ArcInv, Mail
<1>10. Receipts'
  BY <1>1, <1>2, <1>3, <1>5 DEF ArcInv, Receipts, Awaited, Closing
<1>11. flying[r] = {}
  BY <1>3 DEF ArcInv, Mail, Sent, Closing
<1>12. Landing' /\ Filled'
  BY <1>1, <1>2, <1>3, <1>11 DEF ArcInv, Landing, Filled
<1>13. QED
  BY <1>3, <1>6, <1>8, <1>9, <1>10, <1>12 DEF ArcInv

LEMMA SendKeeps ==
  ASSUME ArcInv, NEW r \in Rank, Send(r)
  PROVE  ArcInv'
<1>1. /\ UNCHANGED <<says, outbox, extent, shape, taken, matrix>>
      /\ flying' = [flying EXCEPT ![r] = {d \in Rank : outbox[r][d] # {}}]
  BY DEF Send
<1>2. pc[r] = "send" /\ P > 1
  BY PAssumption DEF Send, At, ArcInv, Says, Places
<1>3. /\ ReadInv' /\ Says' /\ pc[r] = "send"
      /\ pc' = [s \in Rank |-> IF s = r THEN "receive" ELSE pc[s]]
      /\ \A s : EntriesFrom(s)' = EntriesFrom(s)
      /\ AllEntries' = AllEntries
  BY <1>1, <1>2, AtKeeps DEF Send, Places, Labels, Reading, Unread
<1>4. \A s \in Rank : /\ pc'[s] \in Before <=> pc[s] \in Before
                      /\ pc'[s] \in Past <=> pc[s] \in Past
                      /\ pc'[s] \in Closing <=> pc[s] \in Closing
  BY <1>3 DEF Before, Past, Closing, Reading, Unread
<1>5. Sent(r)' /\ ~ Sent(r) /\ \A s \in Rank : s # r => (Sent(s)' <=> Sent(s))
  BY <1>3, <1>2 DEF Sent, Closing
<1>6. Fenced' /\ Lists'
  BY <1>1, <1>3, <1>4 DEF ArcInv, Fenced, Lists
<1>7. Extents' /\ Shaped'
  BY <1>1, <1>3, <1>4 DEF ArcInv, Extents, Shaped, Covers
<1>8. \A d \in Rank : r \notin taken[d]
  BY <1>5 DEF ArcInv, Receipts
<1>9. Mail'
  BY <1>1, <1>5, <1>8 DEF ArcInv, Mail
<1>10. Receipts'
  BY <1>1, <1>4, <1>5 DEF ArcInv, Receipts, Awaited
<1>11. Landing'
  BY <1>1, <1>3 DEF ArcInv, Landing, Mail
<1>12. Filled'
  BY <1>1, <1>3 DEF ArcInv, Filled
<1>13. QED
  BY <1>3, <1>6, <1>7, <1>9, <1>10, <1>11, <1>12 DEF ArcInv

LEMMA SendThrowsKeeps ==
  ASSUME ArcInv, NEW r \in Rank, SendThrows(r)
  PROVE  ArcInv'
<1>1. /\ UNCHANGED exchangeVars
      /\ UNCHANGED <<says, outbox, extent, shape, flying, taken, matrix>>
  BY DEF SendThrows, exchangeVars
<1>2. /\ ReadInv' /\ Says' /\ pc[r] = "send"
      /\ pc' = [s \in Rank |-> IF s = r THEN "exhausted" ELSE pc[s]]
      /\ \A s : EntriesFrom(s)' = EntriesFrom(s)
      /\ AllEntries' = AllEntries
  BY <1>1, AtKeeps DEF SendThrows, Places, Labels, Reading, Unread
<1>3. \A s \in Rank : /\ pc'[s] \in Before <=> pc[s] \in Before
                      /\ pc'[s] \in Closing <=> pc[s] \in Closing
                      /\ pc'[s] = "receive" <=> pc[s] = "receive"
                      /\ pc'[s] \in Past => pc'[s] = pc[s]
  BY <1>2 DEF Before, Past, Closing, Reading, Unread
<1>4. \A s \in Rank : Sent(s)' <=> Sent(s)
  BY <1>3 DEF Sent
<1>5. Fenced' /\ Lists'
  BY <1>1, <1>2, <1>3 DEF ArcInv, Fenced, Lists
<1>6. Extents' /\ Shaped'
  BY <1>1, <1>2, <1>3 DEF ArcInv, Extents, Shaped, Covers
<1>7. Mail' /\ Receipts'
  BY <1>1, <1>3, <1>4 DEF ArcInv, Mail, Receipts, Awaited
<1>8. Landing' /\ Filled'
  BY <1>1, <1>2, <1>3 DEF ArcInv, Landing, Filled, Past
<1>9. QED
  BY <1>2, <1>5, <1>6, <1>7, <1>8 DEF ArcInv

LEMMA ReceiveKeeps ==
  ASSUME ArcInv, NEW r \in Rank, Receive(r)
  PROVE  ArcInv'
<1>1. PICK s \in Awaited(r) \ taken[r] :
        /\ r \in flying[s]
        /\ flying' = [flying EXCEPT ![s] = @ \ {r}]
        /\ taken' = [taken EXCEPT ![r] = @ \cup {s}]
  BY DEF Receive
<1>2. UNCHANGED <<says, outbox, extent, shape, matrix>>
  BY DEF Receive
<1>3. pc[r] = "receive" /\ P > 1 /\ s \in Rank
  BY PAssumption DEF Receive, At, ArcInv, Says, Places, Awaited
<1>4. /\ ReadInv' /\ Says'
      /\ pc' = [q \in Rank |-> IF q = r THEN "receive" ELSE pc[q]]
      /\ \A q : EntriesFrom(q)' = EntriesFrom(q)
      /\ AllEntries' = AllEntries
  BY <1>2, <1>3, AtKeeps DEF Receive, Places, Labels, Reading, Unread
<1>5. \A q \in Rank : pc'[q] = pc[q]
  BY <1>3, <1>4
<1>6. (\A q \in Rank : Sent(q)' <=> Sent(q)) /\ Sent(s)
  BY <1>1, <1>3, <1>5 DEF Sent, ArcInv, Mail
<1>7. Fenced' /\ Lists'
  BY <1>2, <1>4, <1>5 DEF ArcInv, Fenced, Lists
<1>8. Extents' /\ Shaped'
  BY <1>2, <1>4, <1>5 DEF ArcInv, Extents, Shaped, Covers
<1>9. Mail'
  <2>1. ASSUME NEW q \in Rank
        PROVE  flying'[q] = IF Sent(q) THEN {d \in Rank : outbox[q][d] # {} /\ q \notin taken'[d]}
                            ELSE {}
    <3>1. \A d \in Rank : q \in taken'[d] <=> q \in taken[d] \/ (d = r /\ q = s)
      BY <1>1 DEF ArcInv, Receipts
    <3>2. flying'[q] = IF q = s THEN flying[q] \ {r} ELSE flying[q]
      BY <1>1, <1>3 DEF ArcInv, Mail
    <3>3. flying[q] = IF Sent(q) THEN {d \in Rank : outbox[q][d] # {} /\ q \notin taken[d]}
                      ELSE {}
      BY DEF ArcInv, Mail
    <3>4. QED
      BY <1>6, <3>1, <3>2, <3>3
  <2>2. flying' = [q \in Rank |-> flying'[q]]
    BY <1>1 DEF ArcInv, Mail
  <2>3. QED
    BY <1>2, <1>6, <2>1, <2>2 DEF Mail
<1>10. Receipts'
  BY <1>1, <1>2, <1>3, <1>5, <1>6 DEF ArcInv, Receipts, Awaited, Closing
<1>11. Landing'
  BY <1>1, <1>3, <1>5 DEF ArcInv, Landing, Mail
<1>12. Filled'
  BY <1>2, <1>4, <1>5 DEF ArcInv, Filled
<1>13. QED
  BY <1>4, <1>7, <1>8, <1>9, <1>10, <1>11, <1>12 DEF ArcInv

LEMMA WaitAllKeeps ==
  ASSUME ArcInv, NEW r \in Rank, WaitAll(r)
  PROVE  ArcInv'
<1>1. /\ UNCHANGED <<says, outbox, extent, shape, flying, taken, matrix>>
      /\ Awaited(r) \subseteq taken[r] /\ flying[r] \subseteq {LastRank}
  BY DEF WaitAll, exchangeVars
<1>2. /\ ReadInv' /\ Says' /\ pc[r] = "receive"
      /\ pc' = [s \in Rank |-> IF s = r THEN "insert" ELSE pc[s]]
      /\ \A s : EntriesFrom(s)' = EntriesFrom(s)
      /\ AllEntries' = AllEntries
  BY <1>1, AtKeeps DEF WaitAll, Places, Labels, Reading, Unread
<1>3. \A s \in Rank : /\ pc'[s] \in Before <=> pc[s] \in Before
                      /\ pc'[s] \in Past <=> pc[s] \in Past
                      /\ s # r => (pc'[s] \in Closing <=> pc[s] \in Closing)
  BY <1>2 DEF Before, Past, Reading, Unread
<1>4. \A s \in Rank : Sent(s)' <=> Sent(s)
  BY <1>2 DEF Sent, Closing
<1>5. Fenced' /\ Lists'
  BY <1>1, <1>2, <1>3 DEF ArcInv, Fenced, Lists
<1>6. Extents' /\ Shaped'
  BY <1>1, <1>2, <1>3 DEF ArcInv, Extents, Shaped, Covers
<1>7. Mail' /\ Receipts'
  BY <1>1, <1>3, <1>4 DEF ArcInv, Mail, Receipts, Awaited
<1>8. Landing'
  BY <1>1, <1>2 DEF ArcInv, Landing
<1>9. Filled'
  BY <1>1, <1>2 DEF ArcInv, Filled
<1>10. QED
  BY <1>2, <1>5, <1>6, <1>7, <1>8, <1>9 DEF ArcInv

(* Once the collective operations are over, what is there for a process    *)
(* is what all of them parsed.                                             *)
LEMMA ReceivedAll ==
  ASSUME ArcInv, NEW r \in Rank, pc[r] = "insert"
  PROVE  {e \in Received(r) : Owner(e.row) = r} = {e \in AllEntries : Owner(e.row) = r}
<1>1. \A s \in Rank : outbox[s][r] = {e \in EntriesFrom(s) : Owner(e.row) = r}
  BY DEF ArcInv, Fenced, Lists, Past
<1>2. CASE P = 1
  <2>1. Rank = {r}
    BY <1>2 DEF Rank
  <2>2. Received(r) = {e \in EntriesFrom(r) : Owner(e.row) = r}
    BY <1>1, <1>2 DEF Received
  <2>3. AllEntries = EntriesFrom(r)
    BY <2>1 DEF AllEntries
  <2>4. QED
    BY <2>2, <2>3
<1>3. CASE P # 1
  <2>1. Received(r) = UNION {outbox[s][r] : s \in taken[r]}
    BY <1>3 DEF Received
  <2>2. taken[r] \subseteq Rank /\ \A s \in Rank : outbox[s][r] # {} => s \in taken[r]
    BY <1>3, PAssumption DEF ArcInv, Receipts, Closing, Awaited
  <2>3. QED
    BY <1>1, <2>1, <2>2 DEF AllEntries
<1>4. QED
  BY <1>2, <1>3

LEMMA InsertKeeps ==
  ASSUME ArcInv, NEW r \in Rank, Insert(r)
  PROVE  ArcInv'
<1>1. /\ UNCHANGED <<says, outbox, extent, shape, flying, taken>>
      /\ matrix' = [matrix EXCEPT ![r] =
            Accumulated({e \in Received(r) : Owner(e.row) = r})]
  BY DEF Insert
<1>2. /\ ReadInv' /\ Says' /\ pc[r] = "insert"
      /\ pc' = [s \in Rank |-> IF s = r THEN "finalize" ELSE pc[s]]
      /\ \A s : EntriesFrom(s)' = EntriesFrom(s)
      /\ AllEntries' = AllEntries
  BY <1>1, AtKeeps DEF Insert, Places, Labels, Reading, Unread
<1>3. \A s \in Rank : /\ pc'[s] \in Before <=> pc[s] \in Before
                      /\ pc'[s] \in Past <=> pc[s] \in Past
                      /\ pc'[s] \in Closing <=> pc[s] \in Closing
  BY <1>2 DEF Before, Past, Reading, Unread, Closing
<1>4. \A s \in Rank : Sent(s)' <=> Sent(s)
  BY <1>2 DEF Sent, Closing
<1>5. Fenced' /\ Lists'
  BY <1>1, <1>2, <1>3 DEF ArcInv, Fenced, Lists
<1>6. Extents' /\ Shaped'
  BY <1>1, <1>2, <1>3 DEF ArcInv, Extents, Shaped, Covers
<1>7. Mail' /\ Receipts'
  BY <1>1, <1>3, <1>4 DEF ArcInv, Mail, Receipts, Awaited
<1>8. Landing'
  BY <1>1, <1>2 DEF ArcInv, Landing
<1>9. Filled'
  <2>1. matrix' = [matrix EXCEPT ![r] = Accumulated({e \in AllEntries : Owner(e.row) = r})]
    BY <1>1, <1>2, ReceivedAll
  <2> DEFINE All(s) == Accumulated({e \in AllEntries : Owner(e.row) = s})
  <2>2. \A s \in Rank : All(s)' = All(s)
    BY <1>2 DEF Accumulated
  <2>3. matrix = [s \in Rank |-> IF pc[s] \in {"finalize", "returned"} THEN All(s) ELSE << >>]
    BY DEF ArcInv, Filled
  <2>4. Filled' <=> matrix' = [s \in Rank |-> IF pc'[s] \in {"finalize", "returned"} THEN All(s)' ELSE << >>]
    BY DEF Filled
  <2> HIDE DEF All
  <2>5. matrix' = [matrix EXCEPT ![r] = All(r)]
    BY <2>1 DEF All
  <2>6. QED
    BY <1>2, <2>2, <2>3, <2>4, <2>5
<1>10. QED
  BY <1>2, <1>5, <1>6, <1>7, <1>8, <1>9 DEF ArcInv

LEMMA ReturnKeeps ==
  ASSUME ArcInv, NEW r \in Rank, Return(r)
  PROVE  ArcInv'
<1>1. /\ UNCHANGED <<says, outbox, extent, shape, flying, taken, matrix>>
      /\ \A s \in Rank : pc[s] \in {"finalize", "returned"}
  BY DEF Return, exchangeVars
<1>2. /\ ReadInv' /\ Says' /\ pc[r] = "finalize"
      /\ pc' = [s \in Rank |-> IF s = r THEN "returned" ELSE pc[s]]
      /\ \A s : EntriesFrom(s)' = EntriesFrom(s)
      /\ AllEntries' = AllEntries
  BY <1>1, AtKeeps DEF Return, Places, Labels, Reading, Unread
<1>3. \A s \in Rank : /\ pc'[s] \in Before <=> pc[s] \in Before
                      /\ pc'[s] \in Past <=> pc[s] \in Past
                      /\ pc'[s] \in Closing <=> pc[s] \in Closing
  BY <1>2 DEF Before, Past, Reading, Unread, Closing
<1>4. \A s \in Rank : Sent(s)' <=> Sent(s)
  BY <1>2 DEF Sent, Closing
<1>5. Fenced' /\ Lists'
  <2>1. Fenced'
    BY <1>3 DEF ArcInv, Fenced
  <2>2. Lists'
    BY <1>1, <1>2, <1>3 DEF ArcInv, Lists
  <2>3. QED
    BY <2>1, <2>2
<1>6. Extents' /\ Shaped'
  BY <1>1, <1>2, <1>3 DEF ArcInv, Extents, Shaped, Covers
<1>7. Mail' /\ Receipts'
  BY <1>1, <1>3, <1>4 DEF ArcInv, Mail, Receipts, Awaited
<1>8. flying[r] = {}
  <2>1. flying[r] \subseteq {LastRank} /\ LastRank \in Rank
    BY <1>2, PAssumption DEF ArcInv, Landing, Rank, LastRank
  <2>2. LastRank \notin flying[r]
    <3>1. CASE P > 1
      <4>1. Awaited(LastRank) \subseteq taken[LastRank]
        BY <1>1, <2>1, <3>1 DEF ArcInv, Receipts, Closing
      <4>2. QED
        BY <2>1, <4>1 DEF ArcInv, Mail, Awaited
    <3>2. CASE ~ (P > 1)
      BY <3>2 DEF ArcInv, Mail, Sent
    <3>3. QED
      BY <3>1, <3>2
  <2>3. QED
    BY <2>1, <2>2
<1>9. Landing'
  BY <1>1, <1>2, <1>8 DEF ArcInv, Landing
<1>10. Filled'
  BY <1>1, <1>2 DEF ArcInv, Filled
<1>11. QED
  BY <1>2, <1>5, <1>6, <1>7, <1>9, <1>10 DEF ArcInv

LEMMA ArcStep == ArcInv /\ [ArcNext]_vars => ArcInv'
<1> SUFFICES ASSUME ArcInv, [ArcNext]_vars PROVE ArcInv'
  OBVIOUS
<1>1. CASE UNCHANGED vars
  <2>1. /\ UNCHANGED readVars /\ UNCHANGED <<file, says>>
        /\ UNCHANGED <<pc, says, outbox, extent, shape, flying, taken, matrix>>
    BY <1>1 DEF vars, readVars, exchangeVars
  <2>2. /\ \A r : EntriesFrom(r)' = EntriesFrom(r)
        /\ AllEntries' = AllEntries /\ Lines' = Lines
    BY <2>1, EntriesKept
  <2>3. ReadInv'
    BY <2>1, FileKept
       DEF readVars, ArcInv, ReadInv, ReadTypes, Told, Relaying, Waiting, Extended
  <2>4. \A s \in Rank : Sent(s)' <=> Sent(s)
    BY <2>1 DEF Sent
  <2>5. Says' /\ Fenced' /\ Lists'
    BY <2>1, <2>2 DEF ArcInv, Says, Fenced, Lists
  <2>6. Extents' /\ Shaped'
    BY <2>1, <2>2 DEF ArcInv, Extents, Shaped, Covers
  <2>7. Mail' /\ Receipts'
    BY <2>1, <2>4 DEF ArcInv, Mail, Receipts, Awaited
  <2>8. Landing' /\ Filled'
    BY <2>1, <2>2 DEF ArcInv, Landing, Filled
  <2>9. QED
    BY <2>3, <2>5, <2>6, <2>7, <2>8 DEF ArcInv
<1>2. CASE Read
  BY <1>2, ReadKeeps
<1>3. ASSUME NEW r \in Rank,
             \/ Parse(r) \/ ParseThrows(r) \/ Agree(r) \/ Send(r)
             \/ SendThrows(r) \/ Receive(r) \/ WaitAll(r) \/ Insert(r) \/ Return(r)
      PROVE  ArcInv'
  BY <1>3, ParseKeeps, ParseThrowsKeeps, AgreeKeeps, SendKeeps, SendThrowsKeeps,
     ReceiveKeeps, WaitAllKeeps, InsertKeeps, ReturnKeeps
<1>4. QED
  BY <1>1, <1>2, <1>3 DEF ArcNext

LEMMA ArcInvariance ==
  ASSUME Exact
  PROVE  ArcSpec => []ArcInv
BY ArcInitInv, ArcStep, PTL DEF ArcSpec

-----------------------------------------------------------------------------
(***************************************************************************)
(* What the invariant says of the matrix.                                  *)
(***************************************************************************)
LEMMA ArcTypeOK == ArcInv => TypeOK
<1> SUFFICES ASSUME ArcInv PROVE TypeOK
  OBVIOUS
<1>1. pc \in [Rank -> Labels]
  BY DEF ArcInv, ReadInv, ReadTypes, Says, Places
<1>2. ASSUME NEW r \in Rank
      PROVE  /\ inbox[r] \in Seq(Int) /\ Len(inbox[r]) <= 1
             /\ skip[r] \in Int /\ extra[r] \in Nat
  <2>1. CASE r = LastRank
    BY <2>1 DEF ArcInv, ReadInv, ReadTypes, Told
  <2>2. CASE r # LastRank
    <3>1. r + 1 \in Rank \ {0} /\ (r + 1) - 1 = r
      BY <2>2, PAssumption DEF Rank, LastRank
    <3>2. inbox[(r + 1) - 1] = << >> \/ inbox[(r + 1) - 1] = <<Bytes(r + 1)>>
      BY <3>1 DEF ArcInv, ReadInv, Told
    <3>3. inbox[r] = << >> \/ inbox[r] = <<Bytes(r + 1)>>
      BY <3>1, <3>2
    <3>4. Len(inbox[r]) <= 1
      <4>1. CASE inbox[r] = << >>
        BY <4>1
      <4>2. CASE inbox[r] = <<Bytes(r + 1)>>
        BY <4>2
      <4>3. QED
        BY <3>3, <4>1, <4>2
    <3>5. QED
      BY <3>4 DEF ArcInv, ReadInv, ReadTypes
  <2>3. QED
    BY <2>1, <2>2
<1>3. ASSUME NEW r \in Rank, NEW at \in DOMAIN matrix[r]
      PROVE  at[1] < shape[r].height /\ at[2] < shape[r].width
  <2>1. pc[r] \in {"finalize", "returned"}
    BY <1>3 DEF ArcInv, Filled
  <2>2. matrix[r] = Accumulated({e \in AllEntries : Owner(e.row) = r})
    BY <2>1 DEF ArcInv, Filled
  <2>3. PICK e \in AllEntries : at = Position(e)
    BY <1>3, <2>2 DEF Accumulated
  <2>4. PICK s \in Rank : e \in EntriesFrom(s)
    BY DEF AllEntries
  <2>5. pc[r] \in Past /\ pc[s] \notin Before
    BY <2>1 DEF Past, ArcInv, Fenced
  <2>6. /\ e.row \in Nat /\ e.row <= extent[s].row
        /\ e.col \in Nat /\ e.col <= extent[s].col
    BY <2>4, <2>5 DEF ArcInv, Extents, Covers
  <2>7. extent[s].row < shape[r].height /\ extent[s].col < shape[r].width
    BY <2>5 DEF ArcInv, Shaped
  <2>8. /\ extent[s].row \in Nat /\ extent[s].col \in Nat
        /\ shape[r].height \in Nat /\ shape[r].width \in Nat
    BY DEF ArcInv, Extents, Shaped
  <2>9. at[1] = e.row /\ at[2] = e.col
    BY <2>3 DEF Position
  <2>10. QED
    BY <2>6, <2>7, <2>8, <2>9
<1>4. \A r \in Rank : flying[r] \subseteq Rank /\ taken[r] \subseteq Rank
  BY DEF ArcInv, Mail, Receipts
<1>5. QED
  BY <1>1, <1>2, <1>3, <1>4 DEF TypeOK

(***************************************************************************)
(* How many entries there are at a position.                               *)
(***************************************************************************)
Holding(arc) == {line \in Lines : says[line] = arc}
Added(at, mirrored) == {e \in AllEntries : Position(e) = at /\ e.mirrored = mirrored}
Mirror(arc, mirrored) == IF mirrored THEN <<arc[2], arc[1]>> ELSE arc

LEMMA ArcsAre ==
  ASSUME ArcInv, NEW line \in Lines, NEW arc \in Nat \X Nat, says[line] = arc
  PROVE  \E r \in Rank : line \in ArcsIn(Part(r))
<1>1. PICK r \in Rank : line \in Part(r)
  BY PartsCover DEF ArcInv, ReadInv
<1>2. says[line] \notin {Comment, Invalid}
  BY LabelsAssumption
<1>3. QED
  BY <1>1, <1>2 DEF ArcsIn

LEMMA AddedBy ==
  ASSUME ArcInv, NEW e \in AllEntries
  PROVE  /\ e.line \in Lines /\ says[e.line] \in Nat \X Nat
         /\ e.by \in Rank /\ e.line \in ArcsIn(Part(e.by))
         /\ e.mirrored \in BOOLEAN /\ (e.mirrored => Symmetrize)
         /\ Position(e) = Mirror(says[e.line], e.mirrored)
         /\ e = Entry(e.by, e.line, e.mirrored, Position(e)[1], Position(e)[2])
<1>1. PICK r \in Rank : e \in EntriesFrom(r)
  BY DEF AllEntries
<1>2. PICK line \in ArcsIn(Part(r)) : e \in EntriesOf(r, line)
  BY <1>1 DEF EntriesFrom
<1>3. line \in Lines /\ says[line] \in Nat \X Nat
  BY <1>2, ArcOf
<1>4. PICK m \in BOOLEAN :
        /\ m => Symmetrize
        /\ e = Entry(r, line, m, Mirror(says[line], m)[1], Mirror(says[line], m)[2])
  BY <1>2 DEF EntriesOf, Mirror
<1>5. Mirror(says[line], m) \in Nat \X Nat
  BY <1>3 DEF Mirror
<1>6. e.by = r /\ e.line = line /\ e.mirrored = m /\ Position(e) = Mirror(says[line], m)
  BY <1>4, <1>5 DEF Entry, Position
<1>7. QED
  BY <1>2, <1>3, <1>4, <1>6

LEMMA CountAdded ==
  ASSUME ArcInv, NEW i \in Nat, NEW j \in Nat, NEW mirrored \in BOOLEAN,
         mirrored => Symmetrize
  PROVE  /\ IsFiniteSet(Added(<<i, j>>, mirrored))
         /\ Cardinality(Added(<<i, j>>, mirrored))
              = Cardinality(Holding(Mirror(<<i, j>>, mirrored)))
<1> DEFINE at == <<i, j>>
           arc == Mirror(at, mirrored)
           f == [e \in Added(at, mirrored) |-> e.line]
<1>1. arc \in Nat \X Nat /\ Mirror(arc, mirrored) = at
  BY DEF Mirror
<1>2. ASSUME NEW e \in Added(at, mirrored)
      PROVE  e.line \in Holding(arc)
  <2>1. e \in AllEntries /\ Position(e) = at /\ e.mirrored = mirrored
    BY DEF Added
  <2>2. e.line \in Lines /\ says[e.line] \in Nat \X Nat /\ at = Mirror(says[e.line], mirrored)
    BY <2>1, AddedBy
  <2>3. says[e.line] = arc
    BY <2>2 DEF Mirror
  <2>4. QED
    BY <2>2, <2>3 DEF Holding
<1>3. ASSUME NEW a \in Added(at, mirrored), NEW b \in Added(at, mirrored),
             a.line = b.line
      PROVE  a = b
  <2>1. /\ a \in AllEntries /\ Position(a) = at /\ a.mirrored = mirrored
        /\ b \in AllEntries /\ Position(b) = at /\ b.mirrored = mirrored
    BY DEF Added
  <2>2. a.by = b.by
    <3>1. /\ a.by \in Rank /\ a.line \in Part(a.by)
          /\ b.by \in Rank /\ b.line \in Part(b.by)
      BY <2>1, AddedBy DEF ArcsIn
    <3>2. QED
      BY <1>3, <3>1, PartsDisjoint DEF ArcInv, ReadInv
  <2>3. QED
    BY <1>3, <2>1, <2>2, AddedBy
<1>4. ASSUME NEW line \in Holding(arc)
      PROVE  \E e \in Added(at, mirrored) : e.line = line
  <2>1. PICK r \in Rank : line \in ArcsIn(Part(r))
    BY <1>1, ArcsAre DEF Holding
  <2> DEFINE e == Entry(r, line, mirrored, at[1], at[2])
  <2>2. says[line] = arc
    BY DEF Holding
  <2>3. e \in EntriesOf(r, line)
    <3>1. CASE mirrored
      <4>1. says[line] = <<j, i>>
        BY <2>2, <3>1 DEF Mirror
      <4>2. e = Entry(r, line, TRUE, says[line][2], says[line][1])
        BY <3>1, <4>1
      <4>3. QED
        BY <3>1, <4>2 DEF EntriesOf
    <3>2. CASE ~ mirrored
      <4>1. says[line] = <<i, j>>
        BY <2>2, <3>2 DEF Mirror
      <4>2. e = Entry(r, line, FALSE, says[line][1], says[line][2])
        BY <3>2, <4>1
      <4>3. QED
        BY <4>2 DEF EntriesOf
    <3>3. QED
      BY <3>1, <3>2
  <2>4. e \in AllEntries
    BY <2>1, <2>3 DEF AllEntries, EntriesFrom
  <2>5. Position(e) = at /\ e.mirrored = mirrored /\ e.line = line
    BY DEF Position, Entry
  <2>6. QED
    BY <2>4, <2>5 DEF Added
<1>5. f \in Bijection(Added(at, mirrored), Holding(arc))
  <2>1. f \in [Added(at, mirrored) -> Holding(arc)]
    BY <1>2
  <2>2. f \in Injection(Added(at, mirrored), Holding(arc))
    BY <1>3, <2>1 DEF Injection, IsInjective
  <2>3. f \in Surjection(Added(at, mirrored), Holding(arc))
    BY <1>4, <2>1 DEF Surjection
  <2>4. QED
    BY <2>2, <2>3 DEF Bijection
<1>6. IsFiniteSet(Holding(arc))
  BY LinesFinite, FS_Subset DEF ArcInv, ReadInv, Holding
<1>7. IsFiniteSet(Added(at, mirrored))
  BY <1>5, <1>6, FS_Injection DEF Bijection
<1>8. ExistsBijection(Added(at, mirrored), Holding(arc))
  BY <1>5 DEF ExistsBijection
<1>9. QED
  BY <1>7, <1>8, FS_Bijection

LEMMA AddedApart ==
  ASSUME ArcInv, NEW i \in Nat, NEW j \in Nat
  PROVE  /\ {e \in AllEntries : Position(e) = <<i, j>>}
              = Added(<<i, j>>, FALSE) \cup Added(<<i, j>>, TRUE)
         /\ Added(<<i, j>>, FALSE) \cap Added(<<i, j>>, TRUE) = {}
         /\ ~ Symmetrize => Added(<<i, j>>, TRUE) = {}
<1>1. \A e \in AllEntries : e.mirrored \in BOOLEAN /\ (e.mirrored => Symmetrize)
  BY AddedBy
<1>2. QED
  BY <1>1 DEF Added

LEMMA Weight ==
  ASSUME ArcInv, NEW i \in Nat, NEW j \in Nat
  PROVE  (IF Symmetrize THEN 1 ELSE 2)
           * Cardinality({e \in AllEntries : Position(e) = <<i, j>>}) = Halves(i, j)
<1> DEFINE at == <<i, j>>
           A == Added(at, FALSE)
           B == Added(at, TRUE)
           E == {e \in AllEntries : Position(e) = at}
<1>1. E = A \cup B /\ A \cap B = {} /\ (~ Symmetrize => B = {})
  BY AddedApart
<1>2. /\ IsFiniteSet(A) /\ Cardinality(A) = Cardinality(Holding(<<i, j>>))
      /\ Cardinality(A) \in Nat
  BY CountAdded, FS_CardinalityType DEF Mirror
<1>3. CASE Symmetrize
  <2>1. /\ IsFiniteSet(B) /\ Cardinality(B) = Cardinality(Holding(<<j, i>>))
        /\ Cardinality(B) \in Nat
    BY <1>3, CountAdded, FS_CardinalityType DEF Mirror
  <2>2. Cardinality(E) = Cardinality(A) + Cardinality(B)
    <3> HIDE DEF A, B, E
    <3>1. Cardinality(A \cup B)
            = Cardinality(A) + Cardinality(B) - Cardinality(A \cap B)
      BY <1>2, <2>1, FS_Union
    <3>2. Cardinality(A \cap B) = 0
      BY <1>1, FS_EmptySet
    <3>3. QED
      BY <1>1, <1>2, <2>1, <3>1, <3>2
  <2>3. Halves(i, j) = Cardinality(Holding(<<i, j>>)) + Cardinality(Holding(<<j, i>>))
    BY <1>3 DEF Halves, Holding
  <2>4. Cardinality(E) \in Nat /\ Cardinality(E) = Halves(i, j)
    <3> HIDE DEF A, B, E
    <3>1. QED
      BY <1>2, <2>1, <2>2, <2>3
  <2>5. QED
    BY <1>3, <2>4
<1>4. CASE ~ Symmetrize
  <2>1. E = A
    BY <1>1, <1>4
  <2>2. Halves(i, j) = 2 * Cardinality(Holding(<<i, j>>))
    BY <1>4 DEF Halves, Holding
  <2>3. QED
    BY <1>2, <1>4, <2>1, <2>2
<1>5. QED
  BY <1>3, <1>4

LEMMA ArcAssembled == ArcInv => Assembled
<1> SUFFICES ASSUME ArcInv, \A r \in Rank : pc[r] = "returned"
             PROVE  /\ \A r \in Rank : \A at \in DOMAIN matrix[r] :
                         Owner(at[1]) = r /\ matrix[r][at] = Halves(at[1], at[2])
                    /\ \A arc \in Range(says) \ {Comment, Invalid} :
                         /\ arc \in DOMAIN matrix[Owner(arc[1])]
                         /\ Symmetrize => <<arc[2], arc[1]>> \in DOMAIN matrix[Owner(arc[2])]
  BY DEF Assembled
<1> DEFINE Own(r) == {e \in AllEntries : Owner(e.row) = r}
<1>1. ASSUME NEW r \in Rank
      PROVE  matrix[r] = Accumulated(Own(r))
  BY DEF ArcInv, Filled
<1>2. ASSUME NEW r \in Rank, NEW at \in DOMAIN matrix[r]
      PROVE  Owner(at[1]) = r /\ matrix[r][at] = Halves(at[1], at[2])
  <2>1. at \in {Position(e) : e \in Own(r)}
        /\ matrix[r][at] = (IF Symmetrize THEN 1 ELSE 2)
                             * Cardinality({e \in Own(r) : Position(e) = at})
    BY <1>1, <1>2 DEF Accumulated
  <2>2. PICK e \in AllEntries : Owner(e.row) = r /\ at = Position(e)
    BY <2>1
  <2>3. at[1] = e.row /\ at[2] = e.col /\ at = <<at[1], at[2]>>
    BY <2>2 DEF Position
  <2>4. at[1] \in Nat /\ at[2] \in Nat
    <3>1. at = Mirror(says[e.line], e.mirrored) /\ says[e.line] \in Nat \X Nat
      BY <2>2, AddedBy
    <3>2. QED
      BY <3>1 DEF Mirror
  <2>5. {x \in Own(r) : Position(x) = at} = {x \in AllEntries : Position(x) = at}
    <3>1. \A x \in AllEntries : Position(x) = at => Owner(x.row) = r
      BY <2>2, <2>3 DEF Position
    <3>2. QED
      BY <3>1
  <2>6. QED
    BY <2>1, <2>2, <2>3, <2>4, <2>5, Weight
<1>3. ASSUME NEW arc \in Range(says) \ {Comment, Invalid}, NEW m \in BOOLEAN,
             m => Symmetrize
      PROVE  Mirror(arc, m) \in DOMAIN matrix[Owner(Mirror(arc, m)[1])]
  <2>1. PICK line \in Lines : says[line] = arc
    BY DEF ArcInv, Says, Range
  <2>2. arc \in Nat \X Nat
    BY <2>1, ArcsAssumption DEF ArcInv, Says
  <2>3. Mirror(arc, m) \in Nat \X Nat /\ Mirror(Mirror(arc, m), m) = arc
    BY <2>2 DEF Mirror
  <2> DEFINE i == Mirror(arc, m)[1]
             j == Mirror(arc, m)[2]
  <2>4. PICK e \in AllEntries : Position(e) = Mirror(arc, m)
    <3>1. PICK r \in Rank : line \in ArcsIn(Part(r))
      BY <2>1, <2>2, ArcsAre
    <3>2. PICK e \in EntriesOf(r, line) : e = Entry(r, line, m, i, j)
      <4>1. CASE m
        BY <1>3, <2>1, <4>1 DEF EntriesOf, Mirror
      <4>2. CASE ~ m
        BY <2>1, <4>2 DEF EntriesOf, Mirror
      <4>3. QED
        BY <4>1, <4>2
    <3>3. e \in AllEntries
      BY <3>1 DEF AllEntries, EntriesFrom
    <3>4. Position(e) = Mirror(arc, m)
      BY <2>3, <3>2 DEF Position, Entry
    <3>5. QED
      BY <3>3, <3>4
  <2>5. e.row = i /\ i \in Nat
    BY <2>3, <2>4 DEF Position
  <2>6. Owner(i) \in Rank
    BY <2>5, PAssumption DEF Owner, Rank
  <2>7. e \in Own(Owner(i))
    BY <2>5
  <2>8. Position(e) \in DOMAIN Accumulated(Own(Owner(i)))
    BY <2>7 DEF Accumulated
  <2>9. QED
    BY <1>1, <2>4, <2>6, <2>8
<1>4. ASSUME NEW arc \in Range(says) \ {Comment, Invalid}
      PROVE  /\ arc \in DOMAIN matrix[Owner(arc[1])]
             /\ Symmetrize => <<arc[2], arc[1]>> \in DOMAIN matrix[Owner(arc[2])]
  <2>1. arc \in DOMAIN matrix[Owner(arc[1])]
    BY <1>3 DEF Mirror
  <2>2. ASSUME Symmetrize
        PROVE  <<arc[2], arc[1]>> \in DOMAIN matrix[Owner(arc[2])]
    <3>1. Mirror(arc, TRUE) = <<arc[2], arc[1]>> /\ Mirror(arc, TRUE)[1] = arc[2]
      BY DEF Mirror
    <3>2. QED
      BY <1>3, <2>2, <3>1
  <2>3. QED
    BY <2>1, <2>2
<1>5. QED
  BY <1>2, <1>4

-----------------------------------------------------------------------------
(***************************************************************************)
(* The theorems: for any number of processes, and any file that ends with  *)
(* a newline.                                                              *)
(***************************************************************************)

(* Types, and what a process inserts lies within the matrix as it resized  *)
(* it: the assertions of queue_update hold.                                *)
THEOREM InsertedWithin ==
  ASSUME Exact
  PROVE  ArcSpec => []TypeOK
BY ArcInvariance, ArcTypeOK, PTL

(* Once all have returned the parts are the matrix of the file: each arc   *)
(* counted as often as the file has it, at the owner of its row.           *)
THEOREM MatrixOfFile ==
  ASSUME Exact
  PROVE  ArcSpec => []Assembled
BY ArcInvariance, ArcAssembled, PTL

(* No process returns, and frees its buffers, with a message of its own    *)
(* still on its way, although wait_all leaves out the last request.        *)
THEOREM NoneInFlight ==
  ASSUME Exact
  PROVE  ArcSpec => []SendsLanded
<1>1. ArcInv => SendsLanded
  BY DEF ArcInv, Landing, SendsLanded
<1>2. QED
  BY <1>1, ArcInvariance, PTL

(* Reading goes on to be right while the processes that have read parse,   *)
(* exchange and insert.                                                    *)
THEOREM LinesStayWhole ==
  ASSUME Exact
  PROVE  ArcSpec => [](FullLines /\ AllRead)
<1>1. ArcInv => FullLines /\ AllRead
  BY ReadFullLines, ReadAllRead DEF ArcInv
<1>2. QED
  BY <1>1, ArcInvariance, PTL
-----------------------------------------------------------------------------
(***************************************************************************)
(* Who owns a sketch of the C API, for any number of handles and objects:  *)
(* as long as handles are tagged as their object is, only sketches are     *)
(* pickled that come back as they went, addresses fit in a C int, and      *)
(* nothing is thrown that C does not catch, every sketch has one Python    *)
(* object and every object its own sketch, and no call ends the process.   *)
(***************************************************************************)
Known == DOMAIN Applies

(* The classes whose sketches come back as they went: they can be read,    *)
(* keep their name and are not instantiated over something else.           *)
Regular == Loadable \ (Quasi \cup {"ExpSemigroupRLT"})

Assumptions ==
  /\ "LaplacianQRFT" \notin Classes
  /\ Classes \cap Pickled \subseteq Regular
  /\ Exceptions \subseteq {"skylark_exception"}
  /\ ~Wide /\ Wild \notin Handles

(* A sketch of this class as it should be in C. *)
Tagged(c) == [type : {c}, class : {c}, name : {c},
              over : IF c \in Quasi THEN {"Halton"} ELSE {"Halton", "Container"}]

ClassOK == cls \in Classes /\ cls # "LaplacianQRFT"
ObjectsOK == /\ objects \in [Objects -> {None} \cup [type : {cls}, obj : Handles]]
             /\ \A o \in Objects : objects[o] # None => cls \in Known
SketchesOK == sketches \in [Handles -> {None} \cup Tagged(cls)]

(* An object has a sketch, a sketch has an object, and no two objects have *)
(* the same.                                                               *)
Held == \A o \in Objects : objects[o] # None => sketches[objects[o].obj] # None
Kept == \A h \in Handles : sketches[h] # None =>
          \E o \in Objects : objects[o] # None /\ objects[o].obj = h
Alone == \A o, p \in Objects : objects[o] # None /\ objects[p] # None
           /\ objects[o].obj = objects[p].obj => o = p

OwnedInv ==
  ClassOK /\ up = TRUE /\ leaked = FALSE /\ ObjectsOK /\ SketchesOK /\ Held /\ Kept /\ Alone

-----------------------------------------------------------------------------
LEMMA ClassesKnown ==
  /\ Known = {"JLT", "CT", "FJLT", "CWT", "MMT", "WZT", "PPT", "GaussianRFT", "LaplacianRFT",
               "MaternRFT", "GaussianQRFT", "LaplacianQRFT", "FastGaussianRFT",
               "FastMaternRFT", "ExpSemigroupRLT", "ExpSemigroupQRLT"}
  /\ Loadable \subseteq Known
  /\ "none" \notin Known /\ NoTag \notin Known
BY DEF Known, Applies, Loadable, NoTag

(* A record for a class is not None. *)
LEMMA NoneOrKnown ==
  ASSUME NEW c \in Known \cup {NoTag}, NEW h, NEW d, NEW n, NEW y
  PROVE  /\ [type |-> c, obj |-> h] # None
         /\ [type |-> c, class |-> d, name |-> n, over |-> y] # None
BY ClassesKnown DEF None, NoTag

LEMMA InitOwned ==
  ASSUME Assumptions, ApiInit
  PROVE  OwnedInv
BY DEF Assumptions, ApiInit, OwnedInv, ClassOK, ObjectsOK, SketchesOK, Held, Kept, Alone

(* Adding an object with a sketch of its own. *)
LEMMA ObjectAdded ==
  ASSUME OwnedInv, NEW o \in Objects, NEW h \in Handles, NEW S \in Tagged(cls),
         objects[o] = None, sketches[h] = None, cls \in Known,
         sketches' = [sketches EXCEPT ![h] = S],
         objects' = [objects EXCEPT ![o] = [type |-> cls, obj |-> h]],
         cls' = cls, up' = up, leaked' = leaked
  PROVE  OwnedInv'
<1> DEFINE Q == [type |-> cls, obj |-> h]
<1>1. S # None /\ Q # None /\ Q.obj = h
  <2>1. S = [type |-> cls, class |-> cls, name |-> cls, over |-> S.over]
    BY DEF Tagged
  <2> QED BY <2>1, NoneOrKnown
<1>2. ObjectsOK' /\ SketchesOK' /\ ClassOK' /\ up' = TRUE /\ leaked' = FALSE
  BY DEF OwnedInv, ClassOK, ObjectsOK, SketchesOK
<1>3. /\ objects'[o] = Q /\ \A p \in Objects \ {o} : objects'[p] = objects[p]
      /\ sketches'[h] = S /\ \A g \in Handles \ {h} : sketches'[g] = sketches[g]
  BY DEF OwnedInv, ObjectsOK, SketchesOK
<1>4. \A p \in Objects \ {o} : objects[p] # None => objects[p].obj \in Handles \ {h}
  BY DEF OwnedInv, ObjectsOK, Held
<1> HIDE DEF Q
<1>5. Held'
  BY <1>1, <1>3, <1>4 DEF OwnedInv, Held
<1>6. Kept'
  BY <1>1, <1>3 DEF OwnedInv, Kept
<1>7. Alone'
  BY <1>1, <1>3, <1>4 DEF OwnedInv, Alone
<1> QED BY <1>2, <1>5, <1>6, <1>7 DEF OwnedInv

(* Removing an object together with its sketch. *)
LEMMA Removed ==
  ASSUME OwnedInv, NEW o \in Objects, objects[o] # None,
         sketches' = [sketches EXCEPT ![objects[o].obj] = None],
         objects' = [objects EXCEPT ![o] = None],
         cls' = cls, up' = up, leaked' = leaked
  PROVE  OwnedInv'
<1>1. objects[o].obj \in Handles
  BY DEF OwnedInv, ObjectsOK
<1>2. ObjectsOK' /\ SketchesOK' /\ ClassOK' /\ up' = TRUE /\ leaked' = FALSE
  BY <1>1 DEF OwnedInv, ClassOK, ObjectsOK, SketchesOK
<1>3. /\ objects'[o] = None /\ \A p \in Objects \ {o} : objects'[p] = objects[p]
      /\ sketches'[objects[o].obj] = None
      /\ \A g \in Handles \ {objects[o].obj} : sketches'[g] = sketches[g]
  BY <1>1 DEF OwnedInv, ObjectsOK, SketchesOK
<1>4. \A p \in Objects \ {o} :
        objects[p] # None => objects[p].obj \in Handles \ {objects[o].obj}
  BY DEF OwnedInv, ObjectsOK, Alone
<1>5. Held'
  BY <1>3, <1>4 DEF OwnedInv, Held
<1>6. Kept'
  BY <1>3 DEF OwnedInv, Kept
<1>7. Alone'
  BY <1>3 DEF OwnedInv, Alone
<1> QED BY <1>2, <1>5, <1>6, <1>7 DEF OwnedInv

(* What sl_create_sketch_transform makes is tagged as it is, and so is     *)
(* what is read back of a class that comes back as it went.                *)
LEMMA CreatedTagged ==
  ASSUME NEW c \in Known, c # "LaplacianQRFT"
  PROVE  Created(c) \in Tagged(c)
BY DEF Created, Tagged, str2transform_type, Known

LEMMA LoadedTagged ==
  ASSUME NEW c \in Regular
  PROVE  c \in Known /\ cfun(c) = c /\ Loaded(c) \in Tagged(c)
<1>1. c \in Known /\ c \notin Quasi /\ c # "ExpSemigroupRLT"
  BY ClassesKnown DEF Regular
<1>2. Respelt(c) = c /\ cfun(c) = c
  BY <1>1 DEF Respelt, cfun, Quasi
<1>3. str2transform_type(c) = c
  BY <1>1 DEF str2transform_type, Known
<1> QED BY <1>1, <1>2, <1>3 DEF Loaded, Tagged

(* Such a handle is cast to the class its object has.                      *)
LEMMA TaggedCast ==
  ASSUME NEW c \in Known, NEW S \in Tagged(c)
  PROVE  SketchOf(S) = c /\ S.type = c /\ c # NoTag /\ c # "undefined"
<1>1. c # NoTag /\ c # "undefined"
  BY ClassesKnown
<1> QED BY <1>1 DEF SketchOf, Cast, Tagged

LEMMA StepOwned ==
  ASSUME Assumptions, OwnedInv, [ApiNext]_apiVars
  PROVE  OwnedInv'
<1> DEFINE Same == UNCHANGED <<cls, up, leaked, sketches, objects>>
<1>1. ASSUME Same PROVE OwnedInv'
  BY <1>1 DEF OwnedInv, ClassOK, ObjectsOK, SketchesOK, Held, Kept, Alone
<1>2. ASSUME NEW o \in Objects, NEW h \in Handles, Create(o, h) PROVE OwnedInv'
  <2>1. cls \in Known /\ cls # "LaplacianQRFT"
    BY <1>2 DEF OwnedInv, ClassOK, Create, InC, Known
  <2>2. Created(cls) \in Tagged(cls)
    BY <2>1, CreatedTagged
  <2> QED BY <1>2, <2>1, <2>2, ObjectAdded DEF Create, Fresh
<1>3. ASSUME NEW o \in Objects, NEW p \in Objects, NEW h \in Handles,
             Deserialize(o, p, h) \/ Unpickle(o, p, h)
      PROVE  OwnedInv'
  <2>1. sketches[objects[o].obj] # None /\ objects[o].obj \in Handles /\ objects[o].type = cls
    BY <1>3 DEF Deserialize, Unpickle, Usable, OwnedInv, ObjectsOK, Held
  <2>2. Name(o) = cls
    BY <2>1 DEF Name, OwnedInv, SketchesOK, Tagged
  <2>3. cls \in Regular
    BY <1>3 DEF OwnedInv, ClassOK, Assumptions, Deserialize, Unpickle
  <2>4. cls \in Loadable
    BY <2>3 DEF Regular
  <2>5. cls \in Known /\ cfun(cls) = cls /\ Loaded(cls) \in Tagged(cls)
    BY <2>3, LoadedTagged
  <2>6. /\ objects[p] = None /\ sketches[h] = None
        /\ cls' = cls /\ up' = up /\ leaked' = leaked
        /\ sketches' = [sketches EXCEPT ![h] = Loaded(cls)]
        /\ objects' = [objects EXCEPT ![p] = [type |-> cls, obj |-> h]]
    BY <1>3, <2>1, <2>2, <2>4, <2>5 DEF Deserialize, Unpickle, Fresh, Assumptions
  <2> QED BY <2>5, <2>6, ObjectAdded
<1>4. ASSUME NEW o \in Objects, Delete(o) PROVE OwnedInv'
  <2> DEFINE h == objects[o].obj
  <2>1. objects[o] # None /\ h # Wild /\ h \in Handles /\ sketches[h] # None /\ cls \in Known
    BY <1>4 DEF Delete, Assumptions, OwnedInv, ObjectsOK, Held
  <2>2. sketches[h] \in Tagged(cls)
    BY <2>1 DEF OwnedInv, SketchesOK
  <2>3. sketches[h].type # NoTag /\ SketchOf(sketches[h]) # "undefined"
    BY <2>1, <2>2, TaggedCast
  <2>4. up' = TRUE /\ leaked' = FALSE /\ up = TRUE /\ leaked = FALSE
    <3>1. up = TRUE /\ leaked = FALSE
      BY DEF OwnedInv
    <3>2. /\ up' = (sketches[h].type = NoTag \/ SketchOf(sketches[h]) # "undefined")
          /\ leaked' = (leaked \/ sketches[h].type = NoTag)
      BY <1>4, <2>1 DEF Delete
    <3> QED BY <2>3, <3>1, <3>2
  <2> QED BY <1>4, <2>1, <2>4, Removed DEF Delete
<1>5. ASSUME NEW o \in Objects, CreateFails(o) \/ PythonApply(o) PROVE Same
  <2>1. objects[o] # None => objects[o].obj # Wild
    BY DEF Assumptions, OwnedInv, ObjectsOK
  <2>2. \A e \in Exceptions : Caught(e) = up
    BY DEF Assumptions, Caught, OwnedInv
  <2> QED BY <1>5, <2>1, <2>2
          DEF CreateFails, PythonApply, ApplyRefused, Apply, ApplyFails, MayCall
<1>6. ASSUME NEW in, NEW out, NEW dim, AnyApply(in, out, dim) PROVE Same
  BY <1>6 DEF AnyApply
<1>7. CASE initialize \/ finalize \/ UNCHANGED apiVars
  BY <1>1, <1>7 DEF initialize, finalize, apiVars
<1> QED BY <1>1, <1>2, <1>3, <1>4, <1>5, <1>6, <1>7 DEF ApiNext

LEMMA InvOwned ==
  ASSUME Assumptions, OwnedInv
  PROVE  Owned
<1>1. ASSUME NEW h \in Handles, sketches[h] # None
      PROVE  \E o \in Objects :
               /\ objects[o] # None /\ objects[o].obj = h /\ objects[o].type = sketches[h].type
               /\ \A p \in Objects \ {o} : objects[p] # None => objects[p].obj # h
  <2>1. PICK o \in Objects : objects[o] # None /\ objects[o].obj = h
    BY <1>1 DEF OwnedInv, Kept
  <2>2. objects[o].type = cls /\ sketches[h].type = cls
    BY <1>1, <2>1 DEF OwnedInv, ObjectsOK, SketchesOK, Tagged
  <2>3. \A p \in Objects \ {o} : objects[p] # None => objects[p].obj # h
    BY <2>1 DEF OwnedInv, Alone
  <2> QED BY <2>1, <2>2, <2>3
<1>2. \A o \in Objects : objects[o] # None => Usable(o) /\ sketches[objects[o].obj] # None
  BY DEF Assumptions, OwnedInv, ObjectsOK, Held, Usable
<1>3. ~leaked
  BY DEF OwnedInv
<1> QED BY <1>1, <1>2, <1>3 DEF Owned

(* Every sketch the C API has made is freed by exactly one Python object,  *)
(* whole, and no object refers to a freed or foreign one, as long as the   *)
(* program keeps away from the known mismatches of Assumptions.            *)
THEOREM SketchesOwned ==
  ASSUME Assumptions
  PROVE  ApiSpec => []Owned
<1>1. ApiInit => OwnedInv
  BY InitOwned
<1>2. OwnedInv /\ [ApiNext]_apiVars => OwnedInv'
  BY StepOwned
<1>3. OwnedInv => Owned
  BY InvOwned
<1> QED BY <1>1, <1>2, <1>3, PTL DEF ApiSpec

(* Nor does any sequence of calls of the Python interface then end the     *)
(* process: deserialize_sketch only meets what it can read, __del__ and    *)
(* apply only addresses of live sketches, tagged as they are.              *)
THEOREM NothingEndsTheProcess ==
  ASSUME Assumptions
  PROVE  ApiSpec => []Survives
<1>1. ApiInit => OwnedInv
  BY InitOwned
<1>2. OwnedInv /\ [ApiNext]_apiVars => OwnedInv'
  BY StepOwned
<1>3. OwnedInv => Survives
  BY DEF OwnedInv, Survives
<1> QED BY <1>1, <1>2, <1>3, PTL DEF ApiSpec

-----------------------------------------------------------------------------
(***************************************************************************)
(* Types, for every class, pickled or not, whether addresses fit in an int *)
(* or not, whatever is thrown: a sketch is read back only through an       *)
(* object that still has one, as no two objects with a usable address      *)
(* share it.  One that was read back may have no tag, and may have a name  *)
(* that is no class's.                                                     *)
(***************************************************************************)
Sketches ==
  {S \in [type : Known \cup {NoTag}, class : Known, name : {Respelt(c) : c \in Known} \cup Known,
          over : {"Halton", "Container"}] : S.type = NoTag => S.over = "Container"}

Types ==
  /\ cls \in Classes
  /\ up \in BOOLEAN /\ ctxt \in BOOLEAN /\ leaked \in BOOLEAN
  /\ wraps \in 0 .. MaxWraps
  /\ sketches \in [Handles -> {None} \cup Sketches]
  /\ objects \in [Objects -> {None} \cup [type : Known, obj : Handles \cup {Wild}]]
  /\ last.ret \in {"none", "done", "raised", "refused"}

HeldIfUsable == \A o \in Objects : Usable(o) => sketches[objects[o].obj] # None
AloneIfUsable == \A o, p \in Objects :
  Usable(o) /\ Usable(p) /\ objects[o].obj = objects[p].obj => o = p

TInv == Types /\ HeldIfUsable /\ AloneIfUsable

LEMMA SketchIsNotNone ==
  ASSUME NEW S \in Sketches
  PROVE  S # None
<1>1. S = [type |-> S.type, class |-> S.class, name |-> S.name, over |-> S.over]
  BY DEF Sketches
<1>2. S.type \in Known \cup {NoTag}
  BY DEF Sketches
<1> QED BY <1>1, <1>2, NoneOrKnown

(* Only reading back gives a handle without a tag. *)
LEMMA SketchesMade ==
  /\ \A c \in Known : Created(c) \in Sketches
  /\ \A n \in Loadable : Loaded(n) \in Sketches
<1>1. ASSUME NEW c \in Known PROVE Created(c) \in Sketches
  <2>1. str2transform_type(c) = c /\ "GaussianQRFT" \in Known
    BY ClassesKnown DEF str2transform_type, Known
  <2> QED BY <2>1, ClassesKnown DEF Created, Sketches
<1>2. ASSUME NEW n \in Loadable PROVE Loaded(n) \in Sketches
  <2>1. n \in Known
    BY ClassesKnown
  <2>2. str2transform_type(Respelt(n)) \in Known \cup {NoTag}
    BY DEF str2transform_type, Known
  <2> QED BY <2>1, <2>2 DEF Loaded, Sketches
<1> QED BY <1>1, <1>2

(* A sketch for an object, of whatever class; the object's address may be  *)
(* wild.                                                                   *)
LEMMA TypedAdded ==
  ASSUME TInv, NEW o \in Objects, NEW h \in Handles, NEW t \in Known,
         NEW obj \in {h, Wild},
         NEW S \in Sketches,
         sketches[h] = None,
         sketches' = [sketches EXCEPT ![h] = S],
         objects' = [objects EXCEPT ![o] = [type |-> t, obj |-> obj]],
         cls' = cls, up' = up, ctxt' = ctxt, leaked' = leaked, wraps' = wraps,
         last' = NoCall
  PROVE  TInv'
<1> DEFINE ob == [type |-> t, obj |-> obj]
<1>1. S # None /\ ob.obj = obj /\ ob \in [type : Known, obj : Handles \cup {Wild}]
  BY NoneOrKnown, SketchIsNotNone
<1>2. Types'
  BY <1>1 DEF TInv, Types, NoCall
<1>3. /\ objects'[o] = ob /\ \A p \in Objects \ {o} : objects'[p] = objects[p]
      /\ sketches'[h] = S /\ \A g \in Handles \ {h} : sketches'[g] = sketches[g]
  BY DEF TInv, Types
<1>4. \A p \in Objects : Usable(p) => objects[p].obj \in Handles \ {h}
  BY DEF TInv, Types, HeldIfUsable, Usable
<1> HIDE DEF ob
<1>5. \A p \in Objects \ {o} : Usable(p)' <=> Usable(p)
  BY <1>3 DEF Usable
<1>6. Usable(o)' => objects'[o].obj = h
  BY <1>1, <1>3 DEF Usable
<1>7. HeldIfUsable'
  BY <1>1, <1>3, <1>4, <1>5, <1>6 DEF TInv, HeldIfUsable
<1>8. AloneIfUsable'
  BY <1>3, <1>4, <1>5, <1>6 DEF TInv, AloneIfUsable
<1> QED BY <1>2, <1>7, <1>8 DEF TInv

LEMMA TypedUnchanged ==
  ASSUME TInv, UNCHANGED <<cls, leaked, sketches, objects>>, up' \in BOOLEAN, ctxt' \in BOOLEAN,
         wraps' \in 0 .. MaxWraps, last'.ret \in {"none", "done", "raised", "refused"}
  PROVE  TInv'
BY DEF TInv, Types, HeldIfUsable, AloneIfUsable, Usable

LEMMA WrappedType ==
  ASSUME NEW A, NEW B
  PROVE  Wrapped(A, B) \in 0 .. 2
<1> DEFINE a == IF A.adapter \in Raw THEN 1 ELSE 0
           b == IF B.adapter \in Raw THEN 1 ELSE 0
<1>1. a \in 0 .. 1 /\ b \in 0 .. 1
  OBVIOUS
<1>2. Wrapped(A, B) = a + b
  BY DEF Wrapped
<1> HIDE DEF a, b
<1> QED BY <1>1, <1>2

LEMMA StepTInv ==
  ASSUME TInv, [ApiNext]_apiVars
  PROVE  TInv'
<1>1. /\ up \in BOOLEAN /\ ctxt \in BOOLEAN /\ leaked \in BOOLEAN /\ wraps \in 0 .. MaxWraps
      /\ last.ret \in {"none", "done", "raised", "refused"}
  BY DEF TInv, Types
<1>2. ASSUME NEW o \in Objects, NEW h \in Handles, Create(o, h) PROVE TInv'
  <2>1. cls \in Known /\ cls' = cls
    BY <1>2 DEF Create, InC, Known
  <2>2. Created(cls) \in Sketches
    BY <2>1, SketchesMade
  <2>3. /\ sketches[h] = None
        /\ sketches' = [sketches EXCEPT ![h] = Created(cls)]
        /\ objects' = [objects EXCEPT ![o] = [type |-> cls, obj |-> h]]
        /\ up' = up /\ ctxt' = ctxt /\ leaked' = leaked /\ wraps' = wraps /\ last' = NoCall
    BY <1>2 DEF Create, Fresh
  <2> QED BY <2>1, <2>2, <2>3, TypedAdded
<1>3. ASSUME NEW o \in Objects, NEW p \in Objects, NEW h \in Handles,
             Deserialize(o, p, h) \/ Unpickle(o, p, h)
      PROVE  TInv'
  <2>1. /\ UNCHANGED <<cls, ctxt, leaked, wraps>> /\ last' = NoCall /\ Usable(o)
        /\ sketches[h] = None
    BY <1>3 DEF Deserialize, Unpickle, Fresh
  <2>2. CASE UNCHANGED <<sketches, objects>> /\ up' = FALSE
    BY <1>1, <2>1, <2>2, TypedUnchanged DEF NoCall
  <2>3. CASE Name(o) \in Loadable
    <3>1. Name(o) \in Known /\ cfun(Name(o)) \in Known /\ objects[o].type \in Known
      BY <2>1, <2>3, ClassesKnown DEF cfun, Usable, TInv, Types
    <3>2. Loaded(Name(o)) \in Sketches
      BY <2>3, SketchesMade
    <3>3. \E t \in Known, obj \in {h, Wild} :
            /\ sketches' = [sketches EXCEPT ![h] = Loaded(Name(o))]
            /\ objects' = [objects EXCEPT ![p] = [type |-> t, obj |-> obj]]
            /\ up' = up
      <4>1. CASE Deserialize(o, p, h)
        BY <2>3, <3>1, <4>1 DEF Deserialize
      <4>2. CASE Unpickle(o, p, h)
        BY <2>3, <3>1, <4>2 DEF Unpickle
      <4> QED BY <1>3, <4>1, <4>2, Zenon
    <3>4. PICK t \in Known, obj \in {h, Wild} :
            /\ sketches' = [sketches EXCEPT ![h] = Loaded(Name(o))]
            /\ objects' = [objects EXCEPT ![p] = [type |-> t, obj |-> obj]]
            /\ up' = up
      BY <3>3
    <3> QED BY <2>1, <3>2, <3>4, TypedAdded
  <2>4. Name(o) \in Loadable \/ (UNCHANGED <<sketches, objects>> /\ up' = FALSE)
    BY <1>3 DEF Deserialize, Unpickle
  <2> QED BY <2>2, <2>3, <2>4
<1>4. ASSUME NEW o \in Objects, Delete(o) PROVE TInv'
  <2>1. /\ objects[o] # None /\ objects[o].obj \in Handles \cup {Wild}
        /\ objects' = [objects EXCEPT ![o] = None]
        /\ UNCHANGED <<cls, ctxt, wraps>> /\ last' = NoCall
        /\ up' \in BOOLEAN /\ leaked' \in BOOLEAN
        /\ \/ UNCHANGED sketches
           \/ /\ objects[o].obj # Wild
              /\ sketches' = [sketches EXCEPT ![objects[o].obj] = None]
    BY <1>4 DEF Delete, TInv, Types
  <2>2. Types'
    BY <2>1 DEF TInv, Types, NoCall
  <2>3. /\ objects'[o] = None /\ \A q \in Objects \ {o} : objects'[q] = objects[q]
    BY <2>1 DEF TInv, Types
  <2>4. ~ Usable(o)' /\ \A q \in Objects \ {o} : Usable(q)' <=> Usable(q)
    BY <2>3 DEF Usable
  <2>5. AloneIfUsable'
    BY <2>3, <2>4 DEF TInv, AloneIfUsable
  <2>6. ASSUME NEW q \in Objects \ {o}, Usable(q)
        PROVE  sketches'[objects[q].obj] # None
    <3>1. sketches[objects[q].obj] # None /\ objects[q].obj \in Handles
      BY <2>6 DEF TInv, Types, HeldIfUsable, Usable
    <3>2. objects[o].obj # Wild => objects[q].obj # objects[o].obj
      BY <2>1, <2>6 DEF TInv, AloneIfUsable, Usable
    <3> QED BY <2>1, <3>1, <3>2 DEF TInv, Types
  <2>7. HeldIfUsable'
    BY <2>3, <2>4, <2>6 DEF HeldIfUsable
  <2> QED BY <2>2, <2>5, <2>7 DEF TInv
<1>5. ASSUME NEW o \in Objects, CreateFails(o) \/ ApplyRefused(o) PROVE TInv'
  <2>1. /\ UNCHANGED <<cls, ctxt, leaked, sketches, objects, wraps>>
        /\ last'.ret \in {"raised", "refused"}
    BY <1>5 DEF CreateFails, ApplyRefused
  <2>2. up' \in BOOLEAN
    BY <1>1, <1>5 DEF CreateFails, ApplyRefused, Caught
  <2> QED BY <1>1, <2>1, <2>2, TypedUnchanged
<1>6. ASSUME NEW o \in Objects, NEW A, NEW B, NEW dim, Apply(o, A, B, dim) PROVE TInv'
  <2>1. UNCHANGED <<cls, ctxt, leaked, sketches, objects, wraps>>
    BY <1>6 DEF Apply
  <2>2. CASE objects[o].obj = Wild
    <3>1. up' \in BOOLEAN /\ last' = NoCall
      BY <1>6, <2>2 DEF Apply
    <3>2. last'.ret = "none"
      BY <3>1 DEF NoCall
    <3> QED BY <1>1, <2>1, <3>1, <3>2, TypedUnchanged
  <2>3. CASE objects[o].obj # Wild
    <3>1. up' = up
      BY <1>6, <2>3 DEF Apply
    <3>2. last'.ret = "done"
      BY <1>6, <2>3 DEF Apply
    <3> QED BY <1>1, <2>1, <3>1, <3>2, TypedUnchanged
  <2> QED BY <2>2, <2>3
<1>7. ASSUME NEW o \in Objects, NEW A, NEW B, ApplyFails(o, A, B) PROVE TInv'
  <2>1. /\ UNCHANGED <<cls, ctxt, leaked, sketches, objects>> /\ up' \in BOOLEAN
        /\ last'.ret = "raised"
        /\ wraps' = wraps + Wrapped(A, B) /\ wraps + Wrapped(A, B) <= MaxWraps
    BY <1>7 DEF ApplyFails, MayCall, Caught
  <2>2. wraps' \in 0 .. MaxWraps
    BY <1>1, <2>1, WrappedType, WrapsAssumption
  <2> QED BY <1>1, <2>1, <2>2, TypedUnchanged
<1>8. ASSUME NEW in, NEW out, NEW dim, AnyApply(in, out, dim) PROVE TInv'
  <2>1. UNCHANGED <<cls, up, ctxt, leaked, sketches, objects, wraps>> /\ last'.ret \in {"done", "raised"}
    BY <1>8 DEF AnyApply
  <2> QED BY <1>1, <2>1, TypedUnchanged
<1>9. CASE initialize \/ finalize
  <2>1. /\ UNCHANGED <<cls, up, leaked, sketches, objects, wraps>>
        /\ last' = NoCall /\ ctxt' \in BOOLEAN
    BY <1>9 DEF initialize, finalize
  <2>2. last'.ret = "none"
    BY <2>1 DEF NoCall
  <2>3. up' \in BOOLEAN
    BY <1>1, <2>1
  <2>4. wraps' \in 0 .. MaxWraps
    BY <1>1, <2>1
  <2> QED BY <2>1, <2>2, <2>3, <2>4, TypedUnchanged
<1>10. CASE UNCHANGED apiVars
  <2>1. /\ UNCHANGED <<cls, leaked, sketches, objects>>
        /\ up' = up /\ ctxt' = ctxt /\ wraps' = wraps /\ last' = last
    BY <1>10 DEF apiVars
  <2>2. last'.ret \in {"none", "done", "raised", "refused"}
    BY <1>1, <2>1
  <2>3. up' \in BOOLEAN /\ ctxt' \in BOOLEAN /\ wraps' \in 0 .. MaxWraps
    BY <1>1, <2>1
  <2> QED BY <2>1, <2>2, <2>3, TypedUnchanged
<1> QED BY <1>2, <1>3, <1>4, <1>5, <1>6, <1>7, <1>8, <1>9, <1>10 DEF ApiNext, PythonApply

(* A handle has a type tag the dispatches know unless it was read back,    *)
(* and at most MaxWraps wrappers are alive, for every class, pickled or    *)
(* not, any width of addresses and whatever is thrown.                     *)
THEOREM HandlesWellTyped == ApiSpec => []ApiTypeOK
<1>1. ApiInit => TInv
  <2> SUFFICES ASSUME ApiInit PROVE TInv
    OBVIOUS
  <2>1. Types
    <3>1. cls \in Classes /\ up = TRUE /\ ctxt = TRUE /\ leaked = FALSE
      BY DEF ApiInit
    <3>2. wraps \in 0 .. MaxWraps
      BY WrapsAssumption DEF ApiInit
    <3>3. /\ sketches \in [Handles -> {None} \cup Sketches]
          /\ objects \in [Objects -> {None} \cup [type : Known, obj : Handles \cup {Wild}]]
      BY DEF ApiInit
    <3>4. last.ret = "none"
      BY DEF ApiInit, NoCall
    <3> QED BY <3>1, <3>2, <3>3, <3>4 DEF Types
  <2>2. \A o \in Objects : ~ Usable(o)
    BY DEF ApiInit, Usable
  <2> QED BY <2>1, <2>2 DEF TInv, HeldIfUsable, AloneIfUsable
<1>2. TInv /\ [ApiNext]_apiVars => TInv'
  BY StepTInv
<1>3. TInv => ApiTypeOK
  BY DEF TInv, Types, Sketches, ApiTypeOK, Known
<1> QED BY <1>1, <1>2, <1>3, PTL DEF ApiSpec
-----------------------------------------------------------------------------
(***************************************************************************)
(* A call that reports success.  The matrices are those that keep their    *)
(* name on the way to C and whose order numpy reports as one of the two;   *)
(* the requests left out are the ones listed for hash sketches but not     *)
(* dispatched, distributed matrices sketched into a csr_matrix, and the    *)
(* type-erased FJLT, which is empty along rows.                            *)
(***************************************************************************)
Plain(A) ==
  \/ A.adapter = "Numpy" /\ A.type = "Matrix" /\ A.order \in {"F", "C"}
  \/ A.adapter = "Scipy" /\ A.type = "SparseMatrix" /\ A.order \in {"F", "C"}
  \/ A.adapter = "El" /\ A.type = "Matrix"
  \/ A.adapter = "KDT" /\ A.type = "DistSparseMatrix"
  \/ A.adapter = "Dist" /\ A.type \in Vectors \cup {"DistMatrix"}

Mismatched(c, A, B) ==
  \/ c \in {"CWT", "MMT", "WZT"} /\ A.adapter = "Dist" /\ A.type = B.type
  \/ A.adapter = "KDT" /\ B.adapter = "Scipy" /\ B.order = "C"
  \/ c = "FJLT" /\ A.adapter = "any"

KnownMismatchesAvoided ==
  /\ \A A \in Matrices : Plain(A)
  /\ \A c, A, B : Mismatched(c, A, B) => Excluded(c, A, B)

(* The type such a matrix has is the type C is told.                       *)
LEMMA PlainTold ==
  ASSUME NEW A, Plain(A)
  PROVE  ctype(A) = A.type /\ str2matrix_type(A.type) = A.type
BY DEF Plain, ctype, str2matrix_type, Vectors

Dense == {"JLT", "CT", "GaussianRFT", "LaplacianRFT", "MaternRFT", "GaussianQRFT",
          "ExpSemigroupRLT", "ExpSemigroupQRLT"}

(* What is listed for a class is dispatched for it.                        *)
LEMMA ListedIsDispatched ==
  ASSUME NEW c \in Known \ {"LaplacianQRFT"}, NEW A, NEW B, Plain(A), Plain(B),
         ~ Mismatched(c, A, B),
         <<A.type, B.type>> \in sl_supported_sketch_transforms[c]
  PROVE  <<A.type, B.type>> \in Applies[c]
<1>1. c \in Known
  OBVIOUS
<1>2. CASE c \in {"CWT", "MMT", "WZT"}
  <2>1. <<A.type, B.type>> \notin Each(Dists)
    <3> SUFFICES ASSUME A.type = B.type, A.type \in Dists PROVE FALSE
      BY DEF Each
    <3>1. A.adapter # "Dist"
      BY <1>2 DEF Mismatched
    <3> QED BY <3>1 DEF Plain, Dists, Vectors, Vectors_
  <2>2. CASE c \in {"CWT", "MMT"}
    <3>1. sl_supported_sketch_transforms[c] = ListedHash \cup ListedDistSparse
      BY <1>1, <2>2 DEF sl_supported_sketch_transforms, Known
    <3>2. Applies[c] = HashPairs \cup FromDistSparse
      BY <2>2 DEF Applies, C_CWT, C_MMT
    <3> QED BY <2>1, <3>1, <3>2 DEF ListedHash, ListedDistSparse
  <2>3. CASE c = "WZT"
    <3>1. sl_supported_sketch_transforms[c] = ListedHash
      BY <1>1, <2>3 DEF sl_supported_sketch_transforms, Known
    <3>2. Applies[c] = HashPairs
      BY <2>3 DEF Applies, C_WZT
    <3> QED BY <2>1, <3>1, <3>2 DEF ListedHash
  <2> QED BY <1>2, <2>2, <2>3
<1>3. CASE c = "FJLT"
  <2>1. sl_supported_sketch_transforms[c] = ListedFJLT /\ Applies[c] = C_FJLT
    BY <1>1, <1>3 DEF sl_supported_sketch_transforms, Known, Applies
  <2> QED BY <2>1 DEF ListedFJLT, C_FJLT
<1>4. CASE c = "FastGaussianRFT"
  <2>1. sl_supported_sketch_transforms[c] = ListedFast /\ Applies[c] = C_FastGaussianRFT
    BY <1>1, <1>4 DEF sl_supported_sketch_transforms, Known, Applies
  <2>2. ListedFast \subseteq C_FastGaussianRFT
    BY DEF ListedFast, C_FastGaussianRFT, Each, Gathered
  <2> QED BY <2>1, <2>2
<1>7. CASE c = "FastMaternRFT"
  <2>1. sl_supported_sketch_transforms[c] = ListedFast /\ Applies[c] = C_FastMaternRFT
    BY <1>1, <1>7 DEF sl_supported_sketch_transforms, Known, Applies
  <2>2. <<A.type, B.type>> \notin Each({"SharedMatrix"})
    BY DEF Each, Plain, Vectors
  <2> QED BY <2>1, <2>2 DEF ListedFast, C_FastMaternRFT
<1>5. CASE c = "PPT"
  <2>1. sl_supported_sketch_transforms[c] = ListedPPT /\ Applies[c] = C_PPT
    BY <1>1, <1>5 DEF sl_supported_sketch_transforms, Known, Applies
  <2>2. ListedPPT \subseteq C_PPT
    BY DEF ListedPPT, C_PPT, Each, Gathered
  <2> QED BY <2>1, <2>2
<1>6. CASE c \in Dense
  <2>1. sl_supported_sketch_transforms[c] = ListedDense
    BY <1>1, <1>6 DEF sl_supported_sketch_transforms, Known, Dense
  <2>2. Applies[c] = DensePairs
    BY <1>6 DEF Applies, C_JLT, C_CT, C_GaussianRFT, C_LaplacianRFT, C_MaternRFT,
                C_ExpSemigroupRLT, C_GaussianQRFT, C_ExpSemigroupQRLT, Dense
  <2> QED BY <2>1, <2>2 DEF ListedDense
<1> QED BY <1>2, <1>3, <1>4, <1>5, <1>6, <1>7, ClassesKnown DEF Dense

LEMMA FlippedTwice ==
  ASSUME NEW dim \in Dims
  PROVE  Flipped(Flipped(dim)) = dim
<1>1. PICK d \in Dims : Dims = {dim, d} /\ d # dim
  BY DEF Dims
<1>2. Flipped(dim) = d
  BY <1>1 DEF Flipped
<1>3. Flipped(d) = dim
  BY <1>1 DEF Flipped
<1> QED BY <1>2, <1>3

(* A sparse matrix is only made of a sparse one.                           *)
LEMMA SparseOfSparse ==
  ASSUME NEW c \in Known \ {"LaplacianQRFT"}, NEW a, <<a, "SparseMatrix">> \in Applies[c]
  PROVE  a \in {"SparseMatrix", "DistSparseMatrix"}
<1>1. \A S : <<a, "SparseMatrix">> \in Each(S) => a = "SparseMatrix"
  BY DEF Each
<1>2. <<a, "SparseMatrix">> \notin Local
  BY DEF Local
<1>3. \A S : <<a, "SparseMatrix">> \notin S \X Gathered
  BY DEF Gathered
<1>4. \A S : <<a, "SparseMatrix">> \notin S \X {"DistMatrix"}
  OBVIOUS
<1>5. <<a, "SparseMatrix">> \in SparseSame => a = "SparseMatrix"
  BY DEF SparseSame
<1>6. <<a, "SparseMatrix">> \in FromDistSparse => a = "DistSparseMatrix"
  BY DEF FromDistSparse
<1>7. <<a, "SparseMatrix">> \in DensePairs => a = "SparseMatrix"
  BY <1>1, <1>2, <1>3, <1>4 DEF DensePairs
<1>8. <<a, "SparseMatrix">> \in HashPairs => a = "SparseMatrix"
  BY <1>2, <1>3, <1>5 DEF HashPairs
<1>9. <<a, "SparseMatrix">> \in FastPairs => a = "SparseMatrix"
  BY <1>1, <1>2 DEF FastPairs
<1>10. CASE c \in Dense
  <2>1. Applies[c] = DensePairs
    BY <1>10 DEF Applies, C_JLT, C_CT, C_GaussianRFT, C_LaplacianRFT, C_MaternRFT,
                C_ExpSemigroupRLT, C_GaussianQRFT, C_ExpSemigroupQRLT, Dense
  <2> QED BY <1>7, <2>1
<1>11. CASE c \in {"CWT", "MMT", "WZT"}
  <2>1. Applies[c] \subseteq HashPairs \cup FromDistSparse
    BY <1>11 DEF Applies, C_CWT, C_MMT, C_WZT
  <2> QED BY <1>6, <1>8, <2>1
<1>12. CASE c \in {"FastGaussianRFT", "FastMaternRFT", "PPT"}
  <2>1. \E S : Applies[c] = FastPairs \cup Each(S)
    BY <1>12 DEF Applies, C_FastGaussianRFT, C_FastMaternRFT, C_PPT
  <2> QED BY <1>1, <1>9, <2>1
<1>13. CASE c = "FJLT"
  <2>1. Applies[c] = C_FJLT
    BY <1>13 DEF Applies
  <2> QED BY <1>1, <1>3, <2>1 DEF C_FJLT
<1> QED BY <1>10, <1>11, <1>12, <1>13, ClassesKnown DEF Dense

(* Two of these matrices that may go into one call are both transposed on  *)
(* the way, and the dimension with them, or neither is.                    *)
LEMMA SameDirection ==
  ASSUME NEW c \in Known \ {"LaplacianQRFT"}, NEW A, NEW B, Plain(A), Plain(B),
         iscompatible(A, B), ~ Mismatched(c, A, B), <<A.type, B.type>> \in Applies[c]
  PROVE  (Transposed(A) <=> Transposed(B)) /\ (cinvert(A) <=> Transposed(A))
<1>1. \A M : Plain(M) => (cinvert(M) <=> Transposed(M))
  BY DEF Plain, cinvert, Transposed, Raw, order
<1>2. CASE A.adapter \in Raw /\ B.adapter \in Raw
  BY <1>1, <1>2 DEF iscompatible, Transposed
<1>3. CASE A.adapter \in Raw /\ B.adapter \notin Raw
  BY <1>1, <1>3 DEF iscompatible, Transposed
<1>4. CASE A.adapter \notin Raw
  <2> SUFFICES ASSUME Transposed(B) PROVE FALSE
    BY <1>1, <1>4 DEF Transposed
  <2>1. B.adapter = "Scipy" /\ B.order = "C" /\ B.type = "SparseMatrix"
    BY <1>4 DEF iscompatible, Transposed, Raw, order, Plain
  <2>2. A.type \in {"SparseMatrix", "DistSparseMatrix"}
    BY <2>1, SparseOfSparse
  <2>3. A.adapter = "KDT"
    BY <1>4, <2>2 DEF Plain, Raw, Vectors
  <2> QED BY <2>1, <2>3 DEF Mismatched
<1> QED BY <1>1, <1>2, <1>3, <1>4

LEMMA DispatchedAsAsked ==
  ASSUME NEW c \in Known \ {"LaplacianQRFT"}, NEW A, NEW B, Plain(A), Plain(B),
         ~ Mismatched(c, A, B), Supported(c, A, B), iscompatible(A, B),
         NEW dim \in Dims, NEW S \in Tagged(c)
  PROVE  Done(S, A, B, dim) = Asked(c, A, B, dim)
<1>1. /\ str2matrix_type(ctype(A)) = A.type /\ str2matrix_type(ctype(B)) = B.type
      /\ ctype(A) = A.type /\ ctype(B) = B.type
  BY PlainTold
<1>2. <<A.type, B.type>> \in Applies[c]
  BY <1>1, ListedIsDispatched DEF Supported
<1>3. (Transposed(A) <=> Transposed(B)) /\ (cinvert(A) <=> Transposed(A))
  BY <1>2, SameDirection
<1>4. SketchOf(S) = c /\ S.type = c /\ c # NoTag
  BY TaggedCast
<1>5. Shown(B, B.type)
  BY DEF Shown, struct_updated, Plain
<1>6. Cast(A.type, A.type) = A.type /\ Cast(B.type, B.type) = B.type
  BY DEF Cast
<1> DEFINE d == IF Transposed(A) # Transposed(B) THEN "undefined"
                ELSE IF Transposed(A)
                     THEN Flipped(IF cinvert(A) THEN Flipped(dim) ELSE dim)
                     ELSE IF cinvert(A) THEN Flipped(dim) ELSE dim
<1>7. d = dim
  <2>1. Transposed(A) = Transposed(B)
    BY <1>3 DEF Transposed
  <2>2. CASE Transposed(A)
    BY <1>3, <2>1, <2>2, FlippedTwice
  <2>3. CASE ~ Transposed(A)
    BY <1>3, <2>1, <2>3
  <2> QED BY <2>2, <2>3
<1>8. Done(S, A, B, dim) = [sketch |-> SketchOf(S), in |-> Cast(A.type, A.type),
        out |-> IF Shown(B, B.type) THEN Cast(B.type, B.type) ELSE "undefined",
        dim |-> d]
  <2>1. ~ (S.type = NoTag \/ <<A.type, B.type>> \notin Applies[S.type])
    BY <1>2, <1>4
  <2> QED BY <1>1, <2>1 DEF Done
<1> HIDE DEF d
<1> QED BY <1>4, <1>5, <1>6, <1>7, <1>8 DEF Asked

(* A call that returns 0 has applied the sketch that was asked for to the  *)
(* matrices that were given, along the dimension that was meant, with the  *)
(* result where the caller looks for it.                                   *)
THEOREM CallsDoAsAsked ==
  ASSUME Assumptions, KnownMismatchesAvoided
  PROVE  ApiSpec => []DoneAsAsked
<1>1. ApiInit => OwnedInv /\ DoneAsAsked
  <2>1. ApiInit => DoneAsAsked
    BY DEF ApiInit, DoneAsAsked, NoCall
  <2> QED BY <2>1, InitOwned
<1>2. ASSUME OwnedInv, DoneAsAsked, [ApiNext]_apiVars PROVE DoneAsAsked'
  <2>1. ASSUME NEW o \in Objects, NEW A \in Matrices, NEW B \in Matrices,
               NEW dim \in Dims, Apply(o, A, B, dim)
        PROVE  DoneAsAsked'
    <3> DEFINE S == sketches[objects[o].obj]
    <3>1. objects[o] # None /\ objects[o].obj \in Handles /\ objects[o].type = cls
          /\ cls \in Known
      BY <1>2, <2>1 DEF Apply, MayCall, OwnedInv, ObjectsOK
    <3>2. objects[o].obj # Wild /\ S # None
      BY <2>1, <3>1 DEF Apply, MayCall, Assumptions
    <3>3. S \in Tagged(cls)
      BY <1>2, <3>1, <3>2 DEF OwnedInv, SketchesOK
    <3>4. cls \in Known \ {"LaplacianQRFT"}
      BY <1>2, <3>1 DEF OwnedInv, ClassOK
    <3>5. Supported(cls, A, B) /\ iscompatible(A, B) /\ ~ Excluded(cls, A, B)
      BY <2>1, <3>1 DEF Apply, MayCall
    <3>6. Plain(A) /\ Plain(B) /\ ~ Mismatched(cls, A, B)
      BY <3>5 DEF KnownMismatchesAvoided
    <3>7. last' = [ret |-> "done", asked |-> Asked(cls, A, B, dim),
                   did |-> Done(S, A, B, dim)]
      BY <2>1, <3>1, <3>2 DEF Apply
    <3>8. Done(S, A, B, dim) = Asked(cls, A, B, dim)
      BY <3>3, <3>4, <3>5, <3>6, DispatchedAsAsked
    <3> QED BY <3>7, <3>8 DEF DoneAsAsked
  <2>2. ASSUME NEW in, NEW out, NEW dim, AnyApply(in, out, dim) PROVE DoneAsAsked'
    <3>1. cls # "FJLT"
      <4>1. ~ Excluded(cls, [type |-> in, adapter |-> "any"], [type |-> out, adapter |-> "any"])
        BY <2>2 DEF AnyApply
      <4> QED BY <4>1 DEF KnownMismatchesAvoided, Mismatched
    <3> DEFINE asked == [sketch |-> cls, in |-> in, out |-> out, dim |-> dim]
    <3>2. last' \in {[ret |-> "done", asked |-> asked, did |-> asked], [ret |-> "raised"]}
      BY <2>2, <3>1 DEF AnyApply
    <3> HIDE DEF asked
    <3> QED BY <3>2 DEF DoneAsAsked
  <2>3. ASSUME NEW o \in Objects,
               \/ CreateFails(o) \/ Delete(o) \/ ApplyRefused(o)
               \/ \E A, B \in Matrices : ApplyFails(o, A, B)
        PROVE  DoneAsAsked'
    <3>1. last'.ret # "done"
      BY <2>3 DEF CreateFails, Delete, ApplyRefused, ApplyFails, NoCall
    <3> QED BY <3>1 DEF DoneAsAsked
  <2>4. ASSUME NEW o \in Objects, NEW p \in Objects, NEW h \in Handles,
               Create(o, h) \/ Deserialize(o, p, h) \/ Unpickle(o, p, h)
        PROVE  DoneAsAsked'
    <3>1. last' = NoCall
      BY <2>4 DEF Create, Deserialize, Unpickle
    <3> QED BY <3>1 DEF DoneAsAsked, NoCall
  <2>5. CASE initialize \/ finalize
    <3>1. last' = NoCall
      BY <2>5 DEF initialize, finalize
    <3> QED BY <3>1 DEF DoneAsAsked, NoCall
  <2>6. CASE UNCHANGED apiVars
    BY <1>2, <2>6 DEF apiVars, DoneAsAsked
  <2> QED BY <1>2, <2>1, <2>2, <2>3, <2>4, <2>5, <2>6 DEF ApiNext, PythonApply
<1>3. OwnedInv /\ [ApiNext]_apiVars => OwnedInv'
  BY StepOwned
<1> QED BY <1>1, <1>2, <1>3, PTL DEF ApiSpec
=============================================================================
