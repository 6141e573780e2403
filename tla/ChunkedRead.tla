---------------------------- MODULE ChunkedRead -----------------------------
(***************************************************************************)
(* utility/io/arc_list.hpp, detail::parallelChunkedRead: P processes read  *)
(* one text file together.  Each first reads an equal share of the bytes,  *)
(* wherever that starts and ends, and then every process but the first     *)
(* tells its predecessor how many of its bytes complete the predecessor's  *)
(* last line; a process whose share holds no line ending passes on its     *)
(* whole share and what it was told itself.                                *)
(***************************************************************************)
EXTENDS Integers, Sequences, FiniteSets

CONSTANTS P,            \* number of processes (and of partitions)
          Sizes,        \* sizes of the files read, in bytes
          MaxNewlines,  \* bound: newlines in a file
          FinalNewline, \* does every file end with a newline?
          Short,        \* the <<P, size>> for which P * (size / P) is less
                        \* than size in double precision
          MaxShare,     \* INT_MAX: how many bytes one process may read
          Failing       \* the processes whose reads may fail

ASSUME PAssumption == P \in Nat \ {0}
ASSUME SizesAssumption == Sizes \subseteq Nat
ASSUME MaxNewlinesAssumption == MaxNewlines \in Nat
ASSUME FinalNewlineAssumption == FinalNewline \in BOOLEAN
ASSUME MaxShareAssumption == MaxShare \in Nat
ASSUME FailingAssumption == Failing \subseteq 0 .. P - 1

VARIABLES file,   \* its size, the positions of its newlines, and the byte at
                  \* which the last process takes it to end
          pc,     \* where each process is
          inbox,  \* the number sent to each process by its successor
          skip,   \* prevNumExtraBytes
          extra   \* myNumExtraBytes

readVars == <<file, pc, inbox, skip, extra>>

Rank == 0 .. P - 1
LastRank == P - 1

(***************************************************************************)
(* Runs of bytes are records; the pieces of a run are what getline makes   *)
(* of it, without regard to the newline itself.                            *)
(***************************************************************************)
Run(first, end) == [first |-> first, end |-> end]

Newlines(run) == {p \in file.newlines : run.first <= p /\ p < run.end}

Pieces(run) ==
  LET starts == {run.first} \cup {p + 1 : p \in Newlines(run)}
  IN  {piece \in {Run(s, e) : s \in starts, e \in starts \cup {run.end}} :
         /\ piece.first < piece.end
         /\ Newlines(Run(piece.first, piece.end - 1)) = {}
         /\ piece.end = run.end \/ piece.end - 1 \in file.newlines}

Lines == Pieces(Run(0, file.size))

(***************************************************************************)
(* myStart, myEnd.  The test that should let the last process end at size  *)
(* compares its rank with num_partitions, which no rank reaches: it ends   *)
(* wherever the product in doubles is rounded to, which is one byte before *)
(* the end for some sizes (11 processes and 15 bytes, 7 processes and 61). *)
(***************************************************************************)
Start(r) == (r * file.size) \div P
End(r) == IF r = LastRank THEN file.end ELSE Start(r + 1)
Share(r) == Run(Start(r), End(r))

(* The bytes up to and including the first newline of the share.           *)
FirstLine(r) ==
  (CHOOSE p \in Newlines(Share(r)) : \A q \in Newlines(Share(r)) : p <= q)
    - Start(r) + 1

Init ==
  /\ \E size \in Sizes :
       \E newlines \in SUBSET (0 .. size - 1) :
         /\ Cardinality(newlines) <= MaxNewlines
         /\ FinalNewline => size = 0 \/ size - 1 \in newlines
         /\ file = [size |-> size, newlines |-> newlines,
                    end |-> IF P > 1 /\ <<P, size>> \in Short THEN size - 1
                            ELSE size]
  /\ pc = [r \in Rank |-> "scan"]
  /\ inbox = [r \in Rank |-> << >>]
  /\ skip = [r \in Rank |-> 0]
  /\ extra = [r \in Rank |-> 0]

Goto(r, label) == pc' = [pc EXCEPT ![r] = label]

Tell(r, bytes) == /\ skip' = [skip EXCEPT ![r] = bytes]
                  /\ inbox' = [inbox EXCEPT ![r - 1] = Append(@, bytes)]

(***************************************************************************)
(* io_exception: a process refuses a share that is too large, and throws   *)
(* when its read fails, before it has posted a receive.  It leaves the     *)
(* others, who know nothing.  One process alone reads the file as a stream.*)
(***************************************************************************)
TooLarge(r) == P > 1 /\ End(r) - Start(r) > MaxShare

Refuse(r) ==
  /\ pc[r] = "scan"
  /\ TooLarge(r)
  /\ Goto(r, "refused")
  /\ UNCHANGED <<file, inbox, skip, extra>>

ReadFails(r) ==
  /\ P > 1 /\ r \in Failing
  /\ pc[r] = "scan" /\ ~ TooLarge(r)
  /\ Goto(r, "refused")
  /\ UNCHANGED <<file, inbox, skip, extra>>

(***************************************************************************)
(* Read the share, post the receive, and look for the first newline.  When *)
(* getline meets the end of the share instead, tellg() is -1: the last     *)
(* process sends that number, the others repair it in Relay.               *)
(***************************************************************************)
Scan(r) ==
  /\ pc[r] = "scan" /\ ~ TooLarge(r)
  /\ \/ /\ r = 0
        /\ Goto(r, IF P = 1 THEN "flush" ELSE "wait")
        /\ UNCHANGED <<inbox, skip>>
     \/ /\ r # 0
        /\ Newlines(Share(r)) # {}
        /\ Tell(r, FirstLine(r))
        /\ Goto(r, IF r = LastRank THEN "flush" ELSE "wait")
     \/ /\ r = LastRank /\ r # 0
        /\ Newlines(Share(r)) = {}
        /\ Tell(r, -1)
        /\ Goto(r, "flush")
     \/ /\ r \notin {0, LastRank}
        /\ Newlines(Share(r)) = {}
        /\ Goto(r, "relay")
        /\ UNCHANGED <<inbox, skip>>
  /\ UNCHANGED <<file, extra>>

\* mutant: only the own share is passed on
RelayShare(r) ==
  /\ pc[r] = "relay"
  /\ inbox[r] # << >>
  /\ Tell(r, End(r) - Start(r))
  /\ Goto(r, "flush")
  /\ UNCHANGED <<file, extra>>

(* MPI_Wait, then mySize plus what was received goes to the predecessor.   *)
Relay(r) ==
  /\ pc[r] = "relay"
  /\ inbox[r] # << >>
  /\ Tell(r, End(r) - Start(r) + Head(inbox[r]))
  /\ Goto(r, "flush")
  /\ UNCHANGED <<file, extra>>

(* MPI_Wait, then the bytes that complete the last line are read.          *)
Extend(r) ==
  /\ pc[r] = "wait"
  /\ inbox[r] # << >>
  /\ extra' = [extra EXCEPT ![r] = IF Head(inbox[r]) > 0 THEN Head(inbox[r])
                                   ELSE 0]
  /\ Goto(r, "flush")
  /\ UNCHANGED <<file, inbox, skip>>

(* The read of those bytes fails.                                          *)
ExtendFails(r) ==
  /\ r \in Failing
  /\ pc[r] = "wait"
  /\ inbox[r] # << >> /\ Head(inbox[r]) > 0
  /\ Goto(r, "unread")
  /\ UNCHANGED <<file, inbox, skip, extra>>

(***************************************************************************)
(* MPI_Wait on the send, which may not complete before the predecessor has *)
(* posted its receive; then both stream positions are set.                 *)
(***************************************************************************)
Flush(r) ==
  /\ pc[r] = "flush"
  /\ r # 0 => pc[r - 1] \notin {"scan", "refused"}
  /\ Goto(r, "parse")
  /\ UNCHANGED <<file, inbox, skip, extra>>

TextAnyRank(r) ==         \* mutant: the first process drops a share without end
  IF Newlines(Share(r)) = {} THEN Run(0, 0)
  ELSE Run(Start(r) + skip[r], End(r) + extra[r])

(***************************************************************************)
(* What is left in the stream.  After a getline that met the end of the    *)
(* share the stream has failed: it stays where it is and gives no line.    *)
(***************************************************************************)
Text(r) ==
  IF r # 0 /\ Newlines(Share(r)) = {} THEN Run(0, 0)
  ELSE Run(Start(r) + skip[r], End(r) + extra[r])

ReadNext ==
  \E r \in Rank : \/ Scan(r) \/ Relay(r) \/ Extend(r) \/ Flush(r)
                  \/ Refuse(r) \/ ReadFails(r) \/ ExtendFails(r)

Spec == Init /\ [][ReadNext]_readVars

-----------------------------------------------------------------------------

Unread == {"refused", "unread"}
Reading == {"scan", "wait", "relay", "flush"} \cup Unread
HasRead(r) == pc[r] \notin Reading

(***************************************************************************)
(* "... ensures that each partition/rank gets full lines" (arc_list.hpp):  *)
(* what a process is left with, once it has read, is made of whole lines   *)
(* of the file, and of none that another process has.                      *)
(***************************************************************************)
FullLines ==
  \A r \in Rank : HasRead(r) =>
    /\ Pieces(Text(r)) \subseteq Lines
    /\ \A s \in Rank \ {r} :
         HasRead(s) => Pieces(Text(r)) \cap Pieces(Text(s)) = {}

(***************************************************************************)
(* "... all the data is read correctly by exactly on[e] rank" (the test):  *)
(* no line of the file is lost, and the processes hold them in the order   *)
(* of the file.                                                            *)
(***************************************************************************)
AllRead ==
  (\A r \in Rank : HasRead(r)) =>
    /\ Lines = UNION {Pieces(Text(r)) : r \in Rank}
    /\ \A r, s \in Rank : r < s =>
         \A a \in Pieces(Text(r)), b \in Pieces(Text(s)) : a.end <= b.first
=============================================================================
