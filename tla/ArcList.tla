------------------------------ MODULE ArcList -------------------------------
(***************************************************************************)
(* utility/io/arc_list.hpp, ReadArcList, and base/sparse_dist_matrix.hpp:  *)
(* P processes read the adjacency matrix of a graph from one file.  Each   *)
(* parses the lines ChunkedRead leaves it, sorts the entries by the        *)
(* process that owns their row, agrees with the others on the size of the  *)
(* matrix and on who sends how much to whom, exchanges the entries and     *)
(* inserts what it was sent into its part of the matrix.                   *)
(***************************************************************************)
EXTENDS ChunkedRead, Functions

CONSTANTS Arcs,      \* the arcs <<from, to>> lines may hold
          Comment,   \* a line that starts with #
          Invalid,   \* a line parse() throws an exception on, an empty one say
          Symmetrize \* (A + A') / 2 is wanted

ASSUME ArcsAssumption == Arcs \subseteq Nat \X Nat
ASSUME LabelsAssumption == {Comment, Invalid} \cap (Nat \X Nat) = {}
ASSUME SymmetrizeAssumption == Symmetrize \in BOOLEAN

VARIABLES says,     \* what each line of the file holds
          outbox,   \* proc_set: the entries of each process, by destination
          extent,   \* max_row_idx and max_col_idx of each process
          shape,    \* height and width of its copy of the distributed matrix
          flying,   \* the destinations its messages are still on their way to
          taken,    \* the processes it has received from
          matrix    \* weight of each entry in its part, once finalized

exchangeVars == <<says, outbox, extent, shape, flying, taken, matrix>>
vars == <<readVars, exchangeVars>>

Largest(S) == CHOOSE x \in S : \A y \in S : y <= x

(***************************************************************************)
(* An entry is told apart by the process that parsed it and the line it    *)
(* comes from, and an entry a line adds below the diagonal from the one it *)
(* adds above.  The weights of all lines are alike.                        *)
(***************************************************************************)
Entry(r, line, mirrored, row, col) ==
  [by |-> r, line |-> line, mirrored |-> mirrored, row |-> row, col |-> col]

\* mutant: the mirror image of an arc is forgotten
EntriesOfOnce(r, line) == {Entry(r, line, FALSE, says[line][1], says[line][2])}

EntriesOf(r, line) ==
  {Entry(r, line, FALSE, says[line][1], says[line][2])}
    \cup IF Symmetrize THEN {Entry(r, line, TRUE, says[line][2], says[line][1])}
         ELSE {}

Owner(row) == row % P

ArcsIn(pieces) ==
  {line \in pieces : says[line] \notin {Comment, Invalid}}

Parsed(r) == UNION {EntriesOf(r, line) : line \in ArcsIn(Pieces(Text(r)))}

(***************************************************************************)
(* std::map += : entries at one position are added up.  Weights are        *)
(* counted in halves of a line's value, so that the order of the additions *)
(* makes no difference.                                                    *)
(***************************************************************************)
Position(entry) == <<entry.row, entry.col>>

Accumulated(entries) ==
  [at \in {Position(e) : e \in entries} |->
     (IF Symmetrize THEN 1 ELSE 2)
       * Cardinality({e \in entries : Position(e) = at})]

(***************************************************************************)
(* A line of one byte is empty.  A longer one may hold anything: the bytes *)
(* of the model are coarser than those of a file.                          *)
(***************************************************************************)
ArcInit ==
  /\ Init
  /\ \E holds \in [{line \in Lines : line.end - line.first > 1} ->
                   Arcs \cup {Comment, Invalid}] :
       says = [line \in Lines |->
                 IF line \in DOMAIN holds THEN holds[line] ELSE Invalid]
  /\ outbox = [r \in Rank |-> [d \in Rank |-> {}]]
  /\ extent = [r \in Rank |-> [row |-> 0, col |-> 0]]
  /\ shape = [r \in Rank |-> [height |-> 0, width |-> 0]]
  /\ flying = [r \in Rank |-> {}]
  /\ taken = [r \in Rank |-> {}]
  /\ matrix = [r \in Rank |-> << >>]

Read == ReadNext /\ UNCHANGED exchangeVars

At(r, here, there) == /\ pc[r] = here
                      /\ Goto(r, there)
                      /\ UNCHANGED <<file, inbox, skip, extra>>

(***************************************************************************)
(* parse()                                                                 *)
(***************************************************************************)
Parse(r) ==
  /\ At(r, "parse", "agree")
  /\ \A piece \in Pieces(Text(r)) : says[piece] # Invalid
  /\ LET arcs == ArcsIn(Pieces(Text(r)))
         row == Largest({0} \cup {says[a][1] : a \in arcs})
         col == Largest({0} \cup {says[a][2] : a \in arcs})
     IN  extent' = [extent EXCEPT ![r] =
           IF Symmetrize
           THEN [row |-> Largest({row, col}), col |-> Largest({row, col})]
           ELSE [row |-> row, col |-> col]]
  /\ outbox' = [outbox EXCEPT ![r] =
       [d \in Rank |-> {e \in Parsed(r) : Owner(e.row) = d}]]
  /\ UNCHANGED <<says, shape, flying, taken, matrix>>

(* io_exception: the process leaves ReadArcList; the others know nothing.  *)
ParseThrows(r) ==
  /\ At(r, "parse", "thrown")
  /\ \E piece \in Pieces(Text(r)) : says[piece] = Invalid
  /\ UNCHANGED exchangeVars

\* mutant: each process sizes its copy by what it has parsed itself
AgreeAlone(r) ==
  /\ At(r, "agree", IF P = 1 THEN "insert" ELSE "send")
  /\ \A s \in Rank : pc[s] \notin Reading \cup {"parse", "thrown"}
  /\ shape' = [shape EXCEPT ![r] = [height |-> extent[r].row + 1,
                                   width |-> extent[r].col + 1]]
  /\ UNCHANGED <<says, outbox, extent, flying, taken, matrix>>

(***************************************************************************)
(* The two all_reduce and, with several processes, the all_gather: nobody  *)
(* leaves them before everybody has come.  A single process inserts its    *)
(* entries itself.                                                         *)
(***************************************************************************)
Agree(r) ==
  /\ At(r, "agree", IF P = 1 THEN "insert" ELSE "send")
  /\ \A s \in Rank : pc[s] \notin Reading \cup {"parse", "thrown"}
  /\ shape' = [shape EXCEPT ![r] =
       [height |-> Largest({extent[s].row : s \in Rank}) + 1,
        width |-> Largest({extent[s].col : s \in Rank}) + 1]]
  /\ UNCHANGED <<says, outbox, extent, flying, taken, matrix>>

(* isend to every process there is something for, itself included          *)
Send(r) ==
  /\ At(r, "send", "receive")
  /\ flying' = [flying EXCEPT ![r] = {d \in Rank : outbox[r][d] # {}}]
  /\ UNCHANGED <<says, outbox, extent, shape, taken, matrix>>

(* allocation_exception: no memory for what it would be sent               *)
SendThrows(r) ==
  /\ At(r, "send", "exhausted")
  /\ r \in Failing
  /\ \E s \in Rank : outbox[s][r] # {}
  /\ UNCHANGED exchangeVars

AwaitedAll(r) == Rank   \* mutant: empty lists are awaited

(* all_gather has told a process who sends to it.                          *)
Awaited(r) == {s \in Rank : outbox[s][r] # {}}

(* recv, in the order of the ranks                                         *)
Receive(r) ==
  /\ At(r, "receive", "receive")
  /\ \E s \in Awaited(r) \ taken[r] :
       /\ \A q \in Awaited(r) \ taken[r] : s <= q
       /\ r \in flying[s]
       /\ flying' = [flying EXCEPT ![s] = @ \ {r}]
       /\ taken' = [taken EXCEPT ![r] = @ \cup {s}]
  /\ UNCHANGED <<says, outbox, extent, shape, matrix>>

(* wait_all over all the requests but the last one                         *)
WaitAll(r) ==
  /\ At(r, "receive", "insert")
  /\ Awaited(r) \subseteq taken[r]
  /\ flying[r] \subseteq {LastRank}
  /\ UNCHANGED exchangeVars

Received(r) ==
  IF P = 1 THEN outbox[r][r] ELSE UNION {outbox[s][r] : s \in taken[r]}

(* queue_update keeps the entries the process owns; finalize adds them up. *)
Insert(r) ==
  /\ At(r, "insert", "finalize")
  /\ matrix' = [matrix EXCEPT ![r] =
       Accumulated({e \in Received(r) : Owner(e.row) = r})]
  /\ UNCHANGED <<says, outbox, extent, shape, flying, taken>>

\* mutant: finalize counts its own nonzeros only
ReturnAlone(r) ==
  /\ At(r, "finalize", "returned")
  /\ UNCHANGED exchangeVars

(* The all_reduce in finalize, then the function returns.                  *)
Return(r) ==
  /\ At(r, "finalize", "returned")
  /\ \A s \in Rank : pc[s] \in {"finalize", "returned"}
  /\ UNCHANGED exchangeVars

ArcNext ==
  \/ Read
  \/ \E r \in Rank : \/ Parse(r) \/ ParseThrows(r) \/ Agree(r) \/ Send(r)
                     \/ SendThrows(r) \/ Receive(r) \/ WaitAll(r) \/ Insert(r) \/ Return(r)

ArcSpec == ArcInit /\ [][ArcNext]_vars /\ WF_vars(ArcNext)

-----------------------------------------------------------------------------

Labels == Reading \cup {"parse", "thrown", "agree", "send", "exhausted",
                        "receive", "insert", "finalize", "returned"}

(***************************************************************************)
(* Type correctness, and the assertions of queue_update: what a process    *)
(* inserts lies within the matrix as it resized it.                        *)
(***************************************************************************)
TypeOK ==
  /\ pc \in [Rank -> Labels]
  /\ \A r \in Rank :
       /\ inbox[r] \in Seq(Int) /\ Len(inbox[r]) <= 1
       /\ skip[r] \in Int /\ extra[r] \in Nat
       /\ flying[r] \subseteq Rank
       /\ taken[r] \subseteq Rank
       /\ \A at \in DOMAIN matrix[r] : /\ at[1] < shape[r].height
                                       /\ at[2] < shape[r].width

(***************************************************************************)
(* ReadArcList "make[s] the matrix symmetric by returning (A+A')/2": once  *)
(* every process has returned, the parts make up exactly the matrix the    *)
(* lines of the file describe, each entry at the owner of its row.         *)
(***************************************************************************)
Halves(i, j) ==
  LET lines(arc) == Cardinality({line \in Lines : says[line] = arc})
  IN  IF Symmetrize THEN lines(<<i, j>>) + lines(<<j, i>>)
      ELSE 2 * lines(<<i, j>>)

Assembled ==
  (\A r \in Rank : pc[r] = "returned") =>
    /\ \A r \in Rank : \A at \in DOMAIN matrix[r] :
         Owner(at[1]) = r /\ matrix[r][at] = Halves(at[1], at[2])
    /\ \A arc \in Range(says) \ {Comment, Invalid} :
         /\ arc \in DOMAIN matrix[Owner(arc[1])]
         /\ Symmetrize => <<arc[2], arc[1]>> \in DOMAIN matrix[Owner(arc[2])]

(***************************************************************************)
(* "and wait for all requests to finish" (arc_list.hpp): when a process    *)
(* returns, and its buffers are freed, none of its messages is on its way. *)
(***************************************************************************)
SendsLanded == \A r \in Rank : pc[r] = "returned" => flying[r] = {}

(***************************************************************************)
(* Every process returns from reading a valid file, however long the lines *)
(* and however few of the processes find one, unless one of them fails.    *)
(***************************************************************************)
Returns ==
  (\A line \in Lines : says[line] # Invalid)
    ~> \/ \A r \in Rank : pc[r] = "returned"
       \/ \E r \in Rank : pc[r] \in Unread \cup {"exhausted"}
=============================================================================
