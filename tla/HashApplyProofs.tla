-------------------------- MODULE HashApplyProofs ---------------------------
(***************************************************************************)
(* For any pair of types the code handles, any grid, sizes, row_idx and    *)
(* entries of A, what HashApply computes is right, in four parts.          *)
(*   - In the window method no process frees what it has exposed while     *)
(*     another may still read it (IInv: nobody is two calls ahead).        *)
(*   - The data: every entry of A is on one process; every process finds   *)
(*     in A and S the terms it owes to a place of the sketch, once each;   *)
(*     the owner of a place, by Owner and Process, is the process that     *)
(*     holds it; what Compress sorts and sums, what the segments between   *)
(*     two offsets of proc_start_idx hold, and what the root spaces out    *)
(*     in its buffer are the terms of the places they stand for.           *)
(*   - The calls: Has(p, s, off, o) is what process p has after s calls,   *)
(*     with offsets off and result o.  In the window method that is the    *)
(*     terms of the first Passes(s) processes; in the vector method the    *)
(*     first s - 1 columns; after the last call all it is owed (Right).    *)
(*     Inv says it of every process, and that whoever has entered has      *)
(*     contributed the terms of its own entries.                           *)
(*   - One lemma for each action (the lemmas ...Keeps) shows that the      *)
(*     process that steps still has what it should; no other has moved,    *)
(*     and the task never changes.                                         *)
(***************************************************************************)
EXTENDS HashApply, Lemmas

(***************************************************************************)
(* Nobody is more than one collective call ahead: whoever has left a call  *)
(* has seen all the others in it.                                          *)
(***************************************************************************)
GridOK == task.grid \in (Nat \ {0}) \X (Nat \ {0})

StepsOK == \A p \in Rank : step[p] \in Nat /\ step[p] <= Final

Lockstep == \A p, q \in Rank : step[p] >= 2 => step[q] >= step[p] - 1

IInv == /\ GridOK
        /\ step = [p \in Rank |-> step[p]]
        /\ Method = "window" => StepsOK /\ Lockstep

(* What a process does to step in the window method.                       *)
Entered(p) == step[p] = 0
Waited(p) == step[p] \in 1 .. Final - 1 /\ \A q \in Rank : step[q] >= step[p]

LEMMA FinalOfWindow ==
  ASSUME GridOK, Method = "window" PROVE P \in Nat /\ Final = 2 * P + 4 /\ Final \in Nat
<1>1. P \in Nat
  BY DEF GridOK, P
<1>2. Final = 2 * P + 4
  BY DEF Final
<1> QED
  BY <1>1, <1>2

LEMMA InitIInv == Init => IInv
<1> SUFFICES ASSUME Init PROVE IInv
  OBVIOUS
<1>1. GridOK
  BY GridsAssumption DEF Init, GridOK
<1>2. step = [p \in Rank |-> 0]
  BY DEF Init
<1>3. Method = "window" => StepsOK /\ Lockstep
  BY <1>1, <1>2, FinalOfWindow DEF StepsOK, Lockstep
<1> QED
  BY <1>1, <1>2, <1>3 DEF IInv

(***************************************************************************)
(* Every action moves one process on by one call; in the window method it  *)
(* is its first, or everyone is in the one it leaves.                      *)
(***************************************************************************)
LEMMA EveryStep ==
  ASSUME IInv, Next
  PROVE  /\ task' = task
         /\ \E p \in Rank : /\ step' = [step EXCEPT ![p] = @ + 1]
                            /\ Method = "window" => Entered(p) \/ Waited(p)
<1> PICK p \in Rank : \/ ApplyLocally(p) \/ Enter(p) \/ LeaveRooted(p) \/ LeaveAll(p)
                      \/ Redistribute(p) \/ NextVector(p) \/ WindowsCreated(p)
                      \/ OffsetsRead(p) \/ CellsRead(p) \/ CloseWindows(p)
  BY DEF Next
<1>1. task' = task /\ step' = [step EXCEPT ![p] = @ + 1]
  BY DEF ApplyLocally, Enter, LeaveRooted, LeaveAll, Redistribute, NextVector,
         WindowsCreated, OffsetsRead, CellsRead, CloseWindows, Advance
<1>2. ASSUME Method = "window" PROVE Entered(p) \/ Waited(p)
  <2>1. P \in Nat /\ Final = 2 * P + 4 /\ GridOK
    BY <1>2, FinalOfWindow DEF IInv
  <2>2. Group(p) = Rank
    BY <1>2 DEF Group
  <2>3. CASE ApplyLocally(p) \/ Enter(p)
    BY <2>3 DEF ApplyLocally, Enter, Entered
  <2>4. CASE LeaveRooted(p) \/ LeaveAll(p) \/ Redistribute(p) \/ NextVector(p)
    BY <2>4, <1>2 DEF LeaveRooted, LeaveAll, Redistribute, NextVector
  <2>5. CASE WindowsCreated(p)
    BY <2>1, <2>2, <2>5 DEF WindowsCreated, AllIn, Waited
  <2>6. CASE OffsetsRead(p) \/ CellsRead(p)
    <3>1. Reads(p) /\ AllIn(p)
      BY <2>6 DEF OffsetsRead, CellsRead, ReadsOffsets, ReadsCells
    <3> QED
      BY <2>1, <2>2, <3>1 DEF Reads, AllIn, Waited
  <2>7. CASE CloseWindows(p)
    BY <2>1, <2>2, <2>7 DEF CloseWindows, AllIn, Waited
  <2> QED
    BY <2>3, <2>4, <2>5, <2>6, <2>7
<1> QED
  BY <1>1, <1>2

LEMMA StepIInv == IInv /\ [Next]_vars => IInv'
<1> SUFFICES ASSUME IInv, [Next]_vars PROVE IInv'
  OBVIOUS
<1>1. CASE UNCHANGED vars
  BY <1>1 DEF vars, IInv, GridOK, StepsOK, Lockstep, Rank, Method, Final, P
<1>2. CASE Next
  <2>1. task' = task
    BY <1>2, EveryStep
  <2>2. PICK p \in Rank : /\ step' = [step EXCEPT ![p] = @ + 1]
                          /\ Method = "window" => Entered(p) \/ Waited(p)
    BY <1>2, EveryStep
  <2>3. GridOK' /\ Rank' = Rank /\ Final' = Final /\ Method' = Method
    BY <2>1 DEF IInv, GridOK, Rank, Final, Method, P
  <2>4. step' = [q \in Rank |-> step'[q]]
    BY <2>2 DEF IInv
  <2>5. ASSUME Method = "window" PROVE StepsOK' /\ Lockstep'
    <3>1. Final \in Nat /\ Final > 0 /\ StepsOK /\ Lockstep
      BY <2>5, FinalOfWindow DEF IInv
    <3>2. step'[p] = step[p] + 1 /\ \A q \in Rank \ {p} : step'[q] = step[q]
      BY <2>2 DEF IInv
    <3>3. Entered(p) \/ Waited(p)
      BY <2>2, <2>5
    <3>4. StepsOK'
      BY <2>3, <3>1, <3>2, <3>3 DEF StepsOK, Entered, Waited
    <3>5. Lockstep'
      BY <2>3, <3>1, <3>2, <3>3 DEF Lockstep, StepsOK, Entered, Waited
    <3> QED
      BY <3>4, <3>5
  <2> QED
    BY <2>3, <2>4, <2>5 DEF IInv
<1> QED
  BY <1>1, <1>2

LEMMA IInvReads == IInv => ReadsExposed
<1> SUFFICES ASSUME IInv, NEW p \in Rank, NEW q \in Rank, Reads(p)
             PROVE  Exposed(q)
  BY DEF ReadsExposed
<1>1. Method = "window" /\ step[p] \in 2 .. 2 * P + 1
  BY DEF Reads
<1>2. P \in Nat /\ Final = 2 * P + 4 /\ StepsOK /\ Lockstep
  BY <1>1, FinalOfWindow DEF IInv
<1>3. step[q] > 0
  BY <1>1, <1>2 DEF StepsOK, Lockstep
<1>4. step[q] < Final
  BY <1>1, <1>2 DEF StepsOK, Lockstep
<1> QED
  BY <1>3, <1>4 DEF Exposed

(***************************************************************************)
(* ReadsExposed for every grid and every matrix: what a process reads in   *)
(* another's windows is there until it has read it.                        *)
(***************************************************************************)
THEOREM ReadsAreOfExposedArrays == Spec => []ReadsExposed
<1>1. Spec => []IInv
  BY InitIInv, StepIInv, PTL DEF Spec
<1> QED
  BY <1>1, IInvReads, PTL
-----------------------------------------------------------------------------
(***************************************************************************)
(* What a task is: sizes, types that go together, a hash function, and who *)
(* holds what of A and of the sketch.                                      *)
(***************************************************************************)
Extents == ExtentsOf(task.tag, task.size[1], task.size[2])

TaskOK ==
  /\ <<task.input, task.output>> \in Types
  /\ task.tag \in {"rowwise", "columnwise"}
  /\ task.size \in (Nat \ {0}) \X (Nat \ {0}) \X (Nat \ {0})
  /\ task.grid \in (Nat \ {0}) \X (Nat \ {0})
  /\ task.row_idx \in [0 .. task.size[1] - 1 -> 0 .. task.size[3] - 1]
  /\ task.pad \in Nat
  /\ task.output # CIRC_CIRC => task.pad = 0
  /\ task.input # MultiVec => task.sized
  /\ task.input = MultiVec => task.tag = "columnwise"
  /\ Fits(<<task.input, task.output>>, task.grid, <<SHeight, SWidth>>)
  /\ \E zeros : task.A = [p \in Rank |->
                            HeldOf(task.grid, task.input, Extents, p) \ zeros]
  /\ task.SA = [p \in Rank |->
                  HeldOf(task.grid, task.output, <<SHeight, SWidth>>, p)]

(* Columns are one behind the other, or so far apart that memcpy, to move  *)
(* them there, never copies a column onto a part of itself.                *)
Roomy == \A pad \in Paddings, size \in Sizes :
           pad = 0 \/ (pad >= size[2] /\ pad >= size[3])

Spacious == task.pad = 0 \/ task.pad >= SHeight

(* What a right sketch takes besides: sizes that agree.                    *)
Agreed == task.sized /\ Spacious

LEMMA InitTask == Init => TaskOK /\ (Roomy => Spacious)
<1> SUFFICES ASSUME Init PROVE TaskOK /\ (Roomy => Spacious)
  OBVIOUS
<1>1. PICK app \in Applications, size \in Sizes, tag \in {"rowwise", "columnwise"},
           grid \in Grids :
        LET extents == ExtentsOf(tag, size[1], size[2])
            sketch == ExtentsOf(tag, size[3], size[2])
        IN  /\ app[1] = MultiVec => tag = "columnwise"
            /\ Fits(app, grid, sketch)
            /\ \E row_idx \in RowIdxs \cap [0 .. size[1] - 1 -> 0 .. size[3] - 1],
                  pad \in (IF app[2] = CIRC_CIRC THEN Paddings ELSE {0}),
                  sized \in (IF app[1] = MultiVec THEN BOOLEAN ELSE {TRUE}),
                  zeros \in (IF LacksEntries(app[1]) THEN Zeros ELSE {{}}) :
                 task = [input |-> app[1], output |-> app[2], tag |-> tag,
                         size |-> size, grid |-> grid, row_idx |-> row_idx,
                         pad |-> pad, sized |-> sized,
                         A |-> [p \in ProcessesOf(grid) |->
                                  HeldOf(grid, app[1], extents, p) \ zeros],
                         SA |-> [p \in ProcessesOf(grid) |->
                                   HeldOf(grid, app[2], sketch, p)]]
  BY DEF Init
<1> DEFINE extents == ExtentsOf(tag, size[1], size[2])
           sketch == ExtentsOf(tag, size[3], size[2])
<1>2. PICK row_idx \in RowIdxs \cap [0 .. size[1] - 1 -> 0 .. size[3] - 1],
           pad \in (IF app[2] = CIRC_CIRC THEN Paddings ELSE {0}),
           sized \in (IF app[1] = MultiVec THEN BOOLEAN ELSE {TRUE}),
           zeros \in (IF LacksEntries(app[1]) THEN Zeros ELSE {{}}) :
        task = [input |-> app[1], output |-> app[2], tag |-> tag,
                size |-> size, grid |-> grid, row_idx |-> row_idx,
                pad |-> pad, sized |-> sized,
                A |-> [p \in ProcessesOf(grid) |->
                         HeldOf(grid, app[1], extents, p) \ zeros],
                SA |-> [p \in ProcessesOf(grid) |->
                          HeldOf(grid, app[2], sketch, p)]]
  BY <1>1
<1>3. /\ task.input = app[1] /\ task.output = app[2] /\ task.tag = tag
      /\ task.size = size /\ task.grid = grid /\ task.row_idx = row_idx
      /\ task.pad = pad /\ task.sized = sized
      /\ task.A = [p \in ProcessesOf(grid) |->
                     HeldOf(grid, app[1], extents, p) \ zeros]
      /\ task.SA = [p \in ProcessesOf(grid) |-> HeldOf(grid, app[2], sketch, p)]
  BY <1>2
<1>4. app \in Types /\ app = <<app[1], app[2]>>
  <2>1. app \in Types
    BY ApplicationsAssumption
  <2>2. QED
    BY <2>1 DEF Types, Distributed, ColDists, RowDists
<1>5. extents = Extents /\ sketch = <<SHeight, SWidth>>
  BY <1>3 DEF Extents, SHeight, SWidth, ExtentsOf
<1>6. size \in (Nat \ {0}) \X (Nat \ {0}) \X (Nat \ {0})
      /\ grid \in (Nat \ {0}) \X (Nat \ {0})
  BY SizesAssumption, GridsAssumption
<1>7. pad \in Nat /\ (app[2] # CIRC_CIRC => pad = 0) /\ (pad # 0 => pad \in Paddings)
  BY <1>2, PaddingsAssumption
<1>8. Fits(app, grid, sketch) /\ (app[1] = MultiVec => tag = "columnwise")
  BY <1>1
<1> HIDE DEF extents, sketch
<1>9. \E z : task.A = [p \in Rank |-> HeldOf(task.grid, task.input, Extents, p) \ z]
  <2>1. ProcessesOf(grid) = Rank /\ grid = task.grid /\ app[1] = task.input
    BY <1>3 DEF Rank
  <2>2. task.A = [p \in Rank |-> HeldOf(task.grid, task.input, Extents, p) \ zeros]
    BY <1>3, <1>5, <2>1
  <2>3. QED
    BY <2>2
<1>10. task.SA = [p \in Rank |->
                    HeldOf(task.grid, task.output, <<SHeight, SWidth>>, p)]
  BY <1>3, <1>5 DEF Rank
<1>11. task.row_idx \in [0 .. task.size[1] - 1 -> 0 .. task.size[3] - 1]
  BY <1>2, <1>3
<1>12. Fits(<<task.input, task.output>>, task.grid, <<SHeight, SWidth>>)
  BY <1>3, <1>4, <1>5, <1>8
<1>13. <<task.input, task.output>> \in Types
  BY <1>3, <1>4
<1>14. task.output # CIRC_CIRC => task.pad = 0
  BY <1>3, <1>7
<1>15. task.input # MultiVec => task.sized
  BY <1>2, <1>3
<1>16. ASSUME Roomy PROVE Spacious
  <2>1. pad = 0 \/ (pad >= size[2] /\ pad >= size[3])
    BY <1>7, <1>16 DEF Roomy
  <2>2. task.pad = 0 \/ (task.pad >= task.size[2] /\ task.pad >= task.size[3])
    BY <1>3, <2>1
  <2>3. SHeight \in {task.size[2], task.size[3]}
    BY DEF SHeight, ExtentsOf
  <2>4. QED
    BY <2>2, <2>3 DEF Spacious
<1>17. QED
  BY <1>3, <1>6, <1>7, <1>8, <1>9, <1>10, <1>11, <1>12, <1>13,
     <1>14, <1>15, <1>16 DEF TaskOK

LEMMA TaskNumbers ==
  ASSUME TaskOK
  PROVE  /\ task.grid[1] \in Nat \ {0} /\ task.grid[2] \in Nat \ {0}
         /\ Rank = (0 .. task.grid[1] - 1) \X (0 .. task.grid[2] - 1)
         /\ Root \in Rank /\ P \in Nat \ {0}
         /\ task.size[1] \in Nat \ {0} /\ task.size[2] \in Nat \ {0}
         /\ task.size[3] \in Nat \ {0}
         /\ Columnwise => /\ Extents = <<task.size[1], task.size[2]>>
                          /\ SHeight = task.size[3] /\ SWidth = task.size[2]
         /\ ~ Columnwise => /\ Extents = <<task.size[2], task.size[1]>>
                            /\ SHeight = task.size[2] /\ SWidth = task.size[3]
<1>1. task.grid \in (Nat \ {0}) \X (Nat \ {0})
      /\ task.size \in (Nat \ {0}) \X (Nat \ {0}) \X (Nat \ {0})
  BY DEF TaskOK
<1>2. task.grid[1] \in Nat \ {0} /\ task.grid[2] \in Nat \ {0}
  BY <1>1
<1>3. Rank = (0 .. task.grid[1] - 1) \X (0 .. task.grid[2] - 1)
  BY DEF Rank, ProcessesOf
<1>4. Root \in Rank
  BY <1>2, <1>3 DEF Root
<1>5. P \in Nat \ {0}
  BY <1>2, Squares DEF P
<1>6. QED
  BY <1>1, <1>2, <1>3, <1>4, <1>5
  DEF Columnwise, Extents, ExtentsOf, SHeight, SWidth

(* Ranks are places in the grid, numbered column by column.                *)
LEMMA Numbered ==
  ASSUME TaskOK
  PROVE  /\ \A v \in 0 .. P - 1 : /\ Process(v) \in Rank
                                  /\ Number(task.grid, Process(v)) = v
         /\ \A p \in Rank : /\ Number(task.grid, p) \in 0 .. P - 1
                            /\ Process(Number(task.grid, p)) = p
<1> DEFINE h == task.grid[1]
           w == task.grid[2]
<1>1. h \in Nat \ {0} /\ w \in Nat \ {0} /\ Rank = (0 .. h - 1) \X (0 .. w - 1)
      /\ P \in Nat \ {0}
  BY TaskNumbers
<1>2. /\ \A v : Process(v) = <<v % h, v \div h>>
      /\ \A p : Number(task.grid, p) = p[1] + p[2] * h
      /\ P = h * w
  BY DEF Process, Number, P
<1> HIDE DEF h, w
<1>3. ASSUME NEW v \in 0 .. P - 1
      PROVE  Process(v) \in Rank /\ Number(task.grid, Process(v)) = v
  <2>1. v \in Nat /\ v < h * w
    BY <1>1, <1>2
  <2>2. v % h \in 0 .. h - 1 /\ v \div h \in 0 .. w - 1
        /\ (v % h) + (v \div h) * h = v
    BY <1>1, <2>1, PlaceOfNumber
  <2>3. QED
    BY <1>1, <1>2, <2>2
<1>4. ASSUME NEW p \in Rank
      PROVE  /\ Number(task.grid, p) \in 0 .. P - 1
             /\ Process(Number(task.grid, p)) = p
  <2>1. p[1] \in 0 .. h - 1 /\ p[2] \in 0 .. w - 1 /\ p = <<p[1], p[2]>>
        /\ p[2] \in Nat
    BY <1>1
  <2>2. p[1] + p[2] * h \in 0 .. h * w - 1
    BY <1>1, <2>1, NumberOfPlace
  <2>3. (h * p[2] + p[1]) \div h = p[2] /\ (h * p[2] + p[1]) % h = p[1]
    BY <1>1, <2>1, DivUnique
  <2>4. h * p[2] + p[1] = p[1] + p[2] * h
    BY <1>1, <2>1
  <2>5. QED
    BY <1>2, <2>1, <2>2, <2>3, <2>4
<1>5. QED
  BY <1>3, <1>4
-----------------------------------------------------------------------------
(***************************************************************************)
(* Who holds what, type by type.                                           *)
(***************************************************************************)
Holds(d, g, p) == g % StrideOf(task.grid, d) = RankOf(task.grid, d, p)

LEMMA DealtSet ==
  ASSUME NEW d, NEW p, NEW n \in Nat
  PROVE  Range(Dealt(task.grid, d, <<0, n>>, p)) = {g \in 0 .. n - 1 : Holds(d, g, p)}
<1> DEFINE s == Dealt(task.grid, d, <<0, n>>, p)
           stride == StrideOf(task.grid, d)
           rank == RankOf(task.grid, d, p)
<1>1. Deals(s, stride, rank, 0, n)
  BY DealtDeals
<1> HIDE DEF s
<1>2. Enumerates(s, Dealing(stride, rank, 0, n))
  BY <1>1, DealsEnumerates
<1>3. Range(s) = Dealing(stride, rank, 0, n)
  BY <1>2, EnumeratesRange
<1>4. Dealing(stride, rank, 0, n) = {g \in 0 .. n - 1 : Holds(d, g, p)}
  BY DEF Dealing, Holds
<1>5. QED
  BY <1>3, <1>4 DEF s

Gridded == Distributed \cup {S_S, CIRC_CIRC}

LEMMA KindsOfTypes ==
  /\ Gridded = {<<"MC", "MR">>, <<"VC", "STAR">>, <<"VR", "STAR">>, <<"STAR", "VC">>,
                <<"STAR", "VR">>, <<"STAR", "STAR">>, <<"CIRC", "CIRC">>}
  /\ Distributed = {<<"MC", "MR">>, <<"VC", "STAR">>, <<"VR", "STAR">>,
                    <<"STAR", "VC">>, <<"STAR", "VR">>}
  /\ VCStar \notin Gridded \cup Whole \cup {SpParMat, MultiVec}
  /\ SpParMat \notin Gridded \cup Whole \cup {VCStar, MultiVec}
  /\ MultiVec \notin Gridded \cup Whole \cup {VCStar, SpParMat}
  /\ Whole \cap Gridded = {} /\ Matrix # SparseMatrix
BY DEF Gridded, Distributed, ColDists, RowDists, MC_MR, S_S, CIRC_CIRC, Whole,
       VCStar, SpParMat, MultiVec, Matrix, SparseMatrix

LEMMA HeldGridded ==
  ASSUME NEW type \in Gridded, NEW a \in Nat, NEW b \in Nat, NEW p
  PROVE  HeldOf(task.grid, type, <<a, b>>, p) =
           {e \in Positions(a, b) : Holds(type[1], e[1], p) /\ Holds(type[2], e[2], p)}
<1>1. HeldOf(task.grid, type, <<a, b>>, p) =
        Range(Dealt(task.grid, type[1], <<0, a>>, p))
          \X Range(Dealt(task.grid, type[2], <<0, b>>, p))
  <2>1. type # VCStar /\ type # SpParMat /\ type # MultiVec /\ type \notin Whole
    BY KindsOfTypes
  <2>2. QED
    BY <2>1 DEF HeldOf, Gridded
<1>2. /\ Range(Dealt(task.grid, type[1], <<0, a>>, p))
           = {g \in 0 .. a - 1 : Holds(type[1], g, p)}
      /\ Range(Dealt(task.grid, type[2], <<0, b>>, p))
           = {g \in 0 .. b - 1 : Holds(type[2], g, p)}
  BY DealtSet
<1>3. QED
  BY <1>1, <1>2 DEF Positions

LEMMA HeldOthers ==
  ASSUME NEW a \in Nat, NEW b \in Nat, NEW p
  PROVE  /\ HeldOf(task.grid, VCStar, <<a, b>>, p) =
              {e \in Positions(a, b) : Holds("VC", e[1], p)}
         /\ HeldOf(task.grid, SpParMat, <<a, b>>, p) =
              Block(task.grid[1], a, Place(task.grid, p)[1])
                \X Block(task.grid[1], b, Place(task.grid, p)[2])
         /\ HeldOf(task.grid, MultiVec, <<a, b>>, p) =
              Consecutive(task.grid, a, p) \X (0 .. b - 1)
         /\ \A type \in Whole : HeldOf(task.grid, type, <<a, b>>, p) =
                                  IF p = Root THEN Positions(a, b) ELSE {}
<1>1. Range(Dealt(task.grid, "VC", <<0, a>>, p)) = {g \in 0 .. a - 1 : Holds("VC", g, p)}
  BY DealtSet
<1>2. HeldOf(task.grid, VCStar, <<a, b>>, p) =
        Range(Dealt(task.grid, "VC", <<0, a>>, p)) \X (0 .. b - 1)
  BY KindsOfTypes DEF HeldOf, Gridded
<1>3. HeldOf(task.grid, VCStar, <<a, b>>, p) =
        {e \in Positions(a, b) : Holds("VC", e[1], p)}
  BY <1>1, <1>2 DEF Positions
<1>4. HeldOf(task.grid, SpParMat, <<a, b>>, p) =
        Block(task.grid[1], a, Place(task.grid, p)[1])
          \X Block(task.grid[1], b, Place(task.grid, p)[2])
  BY KindsOfTypes DEF HeldOf, Gridded
<1>5. HeldOf(task.grid, MultiVec, <<a, b>>, p) =
        Consecutive(task.grid, a, p) \X (0 .. b - 1)
  BY KindsOfTypes DEF HeldOf, Gridded
<1>6. ASSUME NEW type \in Whole
      PROVE  HeldOf(task.grid, type, <<a, b>>, p) =
               IF p = Root THEN Positions(a, b) ELSE {}
  <2>1. type \notin Gridded /\ type # VCStar /\ type # SpParMat /\ type # MultiVec
    BY KindsOfTypes
  <2>2. QED
    BY <2>1 DEF HeldOf, Gridded
<1>7. QED
  BY <1>3, <1>4, <1>5, <1>6

LEMMA Places ==
  ASSUME TaskOK, NEW p \in Rank
  PROVE  /\ p = <<p[1], p[2]>>
         /\ p[1] \in 0 .. task.grid[1] - 1 /\ p[2] \in 0 .. task.grid[2] - 1
         /\ \A g : Holds("MC", g, p) <=> g % task.grid[1] = p[1]
         /\ \A g : Holds("MR", g, p) <=> g % task.grid[2] = p[2]
         /\ \A g : Holds("VC", g, p) <=> g % P = p[1] + p[2] * task.grid[1]
         /\ \A g : Holds("VR", g, p) <=> g % P = p[2] + p[1] * task.grid[2]
         /\ \A g \in Nat : Holds("STAR", g, p)
         /\ \A g \in Nat : Holds("CIRC", g, p) <=> p = Root
<1>1. /\ p = <<p[1], p[2]>>
      /\ p[1] \in 0 .. task.grid[1] - 1 /\ p[2] \in 0 .. task.grid[2] - 1
  BY TaskNumbers
<1>2. \A g \in Nat : g % 1 = 0
  OBVIOUS
<1>3. /\ StrideOf(task.grid, "MC") = task.grid[1] /\ RankOf(task.grid, "MC", p) = p[1]
      /\ StrideOf(task.grid, "MR") = task.grid[2] /\ RankOf(task.grid, "MR", p) = p[2]
      /\ StrideOf(task.grid, "VC") = P
      /\ RankOf(task.grid, "VC", p) = p[1] + p[2] * task.grid[1]
      /\ StrideOf(task.grid, "VR") = P
      /\ RankOf(task.grid, "VR", p) = p[2] + p[1] * task.grid[2]
      /\ StrideOf(task.grid, "STAR") = 1 /\ RankOf(task.grid, "STAR", p) = 0
      /\ StrideOf(task.grid, "CIRC") = 1
      /\ RankOf(task.grid, "CIRC", p) = IF p = Root THEN 0 ELSE 1
  BY DEF StrideOf, RankOf, P, Root
<1>4. QED
  BY <1>1, <1>2, <1>3 DEF Holds
(* A block of rows or columns: by division, but for the last block, which  *)
(* takes what is left over.                                                *)
LastOf(x, side) == IF x < side THEN x ELSE side - 1

LEMMA BlockOf ==
  ASSUME NEW side \in Nat \ {0}, NEW extent \in Nat \ {0},
         NEW place \in 0 .. side - 1, extent \div side # 0
  PROVE  Block(side, extent, place) =
           {i \in 0 .. extent - 1 : LastOf(i \div (extent \div side), side) = place}
<1> DEFINE b == extent \div side
           r == extent % side
<1>1. b \in Nat \ {0} /\ r \in Nat /\ extent = side * b + r
  BY DivMod
<1>2. Block(side, extent, place) =
        IF place = side - 1 THEN b * place .. extent - 1
        ELSE b * place .. b * place + b - 1
  BY DEF Block
<1> HIDE DEF b, r
<1>3. b * side = side * b /\ side * b \in Nat
  BY <1>1
<1>4. ASSUME NEW x \in Nat, NEW y \in Nat, x <= y
      PROVE  b * x <= b * y /\ b * x \in Nat /\ b * y \in Nat
  BY <1>1, <1>4
<1>5. b * (place + 1) = b * place + b /\ b * place \in Nat
  BY <1>1
<1>6. ASSUME NEW i \in 0 .. extent - 1
      PROVE  i \in Block(side, extent, place) <=> LastOf(i \div b, side) = place
  <2> DEFINE x == i \div b
             y == i % b
  <2>1. x \in Nat /\ y \in 0 .. b - 1 /\ i = b * x + y
    <3>1. i \in Nat
      OBVIOUS
    <3>2. QED
      BY <1>1, <3>1, DivMod
  <2> HIDE DEF x, y
  <2>2. b * (x + 1) = b * x + b /\ b * x \in Nat
    BY <1>1, <2>1
  <2>3. CASE x < place
    <3>1. b * (x + 1) <= b * place
      BY <1>4, <2>1, <2>3
    <3>2. i < b * place
      <4> DEFINE u == b * x
                 v == b * place
      <4>1. u + b <= v /\ u \in Nat /\ v \in Nat /\ i = u + y
        BY <1>5, <2>1, <2>2, <3>1
      <4> HIDE DEF u, v
      <4>2. i < v
        BY <1>1, <2>1, <4>1
      <4>3. QED
        BY <4>2 DEF v
    <3>3. i \notin Block(side, extent, place)
      BY <1>2, <1>5, <3>2
    <3>4. LastOf(x, side) # place
      BY <2>1, <2>3 DEF LastOf
    <3>5. QED
      BY <3>3, <3>4 DEF x
  <2>4. CASE x = place
    <3>1. b * place <= i /\ i <= b * place + b - 1
      <4> DEFINE v == b * place
      <4>1. i = v + y /\ v \in Nat
        BY <1>5, <2>1, <2>4
      <4> HIDE DEF v
      <4>2. v <= i /\ i <= v + b - 1
        BY <1>1, <2>1, <4>1
      <4>3. QED
        BY <4>2 DEF v
    <3>2. i \in Block(side, extent, place)
      BY <1>2, <1>5, <3>1
    <3>3. LastOf(x, side) = place
      BY <2>4 DEF LastOf
    <3>4. QED
      BY <3>2, <3>3 DEF x
  <2>5. CASE x > place
    <3>1. b * (place + 1) <= b * x
      BY <1>4, <2>1, <2>5
    <3>2. i >= b * place + b
      <4> DEFINE u == b * x
                 v == b * place
      <4>1. v + b <= u /\ u \in Nat /\ v \in Nat /\ i = u + y
        BY <1>5, <2>1, <2>2, <3>1
      <4> HIDE DEF u, v
      <4>2. i >= v + b
        BY <1>1, <2>1, <4>1
      <4>3. QED
        BY <4>2 DEF v
    <3>3. i \in Block(side, extent, place) <=> place = side - 1
      <4> DEFINE v == b * place
      <4>1. v \in Nat /\ i >= v + b
            /\ Block(side, extent, place) =
                 IF place = side - 1 THEN v .. extent - 1 ELSE v .. v + b - 1
        BY <1>2, <1>5, <3>2
      <4> HIDE DEF v
      <4>2. QED
        BY <1>1, <4>1
    <3>4. LastOf(x, side) = place <=> place = side - 1
      BY <2>1, <2>5 DEF LastOf
    <3>5. QED
      BY <3>3, <3>4 DEF x
  <2>6. QED
    BY <2>1, <2>3, <2>4, <2>5
<1>7. Block(side, extent, place) \subseteq 0 .. extent - 1
  <2> DEFINE v == b * place
             z == side * b
  <2>1. place + 1 <= side /\ place + 1 \in Nat /\ side \in Nat
    OBVIOUS
  <2>2. b * (place + 1) <= b * side
    BY <1>4, <2>1
  <2>3. v + b <= z /\ v \in Nat /\ z \in Nat /\ extent = z + r
        /\ Block(side, extent, place) =
             IF place = side - 1 THEN v .. extent - 1 ELSE v .. v + b - 1
    BY <1>1, <1>2, <1>3, <1>5, <2>2
  <2> HIDE DEF v, z
  <2>4. QED
    BY <1>1, <2>3
<1>8. QED
  BY <1>6, <1>7 DEF b

LEMMA BlocksApart ==
  ASSUME NEW side \in Nat \ {0}, NEW extent \in Nat \ {0},
         NEW a \in 0 .. side - 1, NEW b \in 0 .. side - 1, a # b
  PROVE  Block(side, extent, a) \cap Block(side, extent, b) = {}
<1>1. CASE extent \div side = 0
  BY <1>1 DEF Block
<1>2. CASE extent \div side # 0
  BY <1>2, BlockOf
<1>3. QED
  BY <1>1, <1>2

LEMMA BlocksWithin ==
  ASSUME NEW side \in Nat \ {0}, NEW extent \in Nat \ {0}, NEW a \in 0 .. side - 1
  PROVE  Block(side, extent, a) \subseteq 0 .. extent - 1
<1>1. CASE extent \div side = 0
  BY <1>1 DEF Block
<1>2. CASE extent \div side # 0
  BY <1>2, BlockOf
<1>3. QED
  BY <1>1, <1>2

(* CombBLAS numbers a square grid row by row.                              *)
LEMMA Placed ==
  ASSUME TaskOK, task.grid[1] = task.grid[2], NEW p \in Rank
  PROVE  /\ Place(task.grid, p) = <<Place(task.grid, p)[1], Place(task.grid, p)[2]>>
         /\ Place(task.grid, p)[1] \in 0 .. task.grid[1] - 1
         /\ Place(task.grid, p)[2] \in 0 .. task.grid[1] - 1
         /\ Place(task.grid, p)[1] * task.grid[1] + Place(task.grid, p)[2]
              = Number(task.grid, p)
<1> DEFINE h == task.grid[1]
           k == Number(task.grid, p)
<1>1. h \in Nat \ {0} /\ P = h * h
  BY TaskNumbers DEF P
<1>2. k \in Nat /\ k < h * h
  BY <1>1, TaskNumbers, Numbered
<1>3. Place(task.grid, p) = <<k \div h, k % h>>
  BY DEF Place
<1> HIDE DEF h, k
<1>4. k % h \in 0 .. h - 1 /\ k \div h \in 0 .. h - 1
      /\ (k % h) + (k \div h) * h = k
  BY <1>1, <1>2, PlaceOfNumber
<1> DEFINE q == (k \div h) * h
           r == k % h
<1>5. q + r = k
  <2>1. q \in Nat /\ r \in Nat
    BY <1>1, <1>4
  <2>2. r + q = k
    BY <1>4
  <2> HIDE DEF q, r
  <2>3. QED
    BY <2>1, <2>2
<1>6. QED
  BY <1>3, <1>4, <1>5 DEF h, k
-----------------------------------------------------------------------------
(***************************************************************************)
(* The entries of A, the terms they contribute, and where they go.         *)
(***************************************************************************)
All == UNION {task.A[q] : q \in Rank}

TermsIn(E, at) == {Term(e) : e \in {e \in E : FinalPos(e) = at}}

Owed(at) == TermsIn(All, at)

LEMMA InputTypes ==
  ASSUME TaskOK
  PROVE  /\ task.input \in Distributed \cup {S_S} \cup Whole
                             \cup {VCStar, SpParMat, MultiVec}
         /\ task.output \in Gridded \cup Whole \cup {SpParMat, MultiVec}
         /\ task.input \in {SpParMat, MultiVec} => task.grid[1] = task.grid[2]
         /\ task.input \in Whole => Rank = {Root}
         /\ task.output = SpParMat => /\ task.input = SpParMat
                                      /\ SHeight >= task.grid[1]
                                      /\ SWidth >= task.grid[1]
<1>1. <<task.input, task.output>> \in Types
      /\ Fits(<<task.input, task.output>>, task.grid, <<SHeight, SWidth>>)
  BY DEF TaskOK
<1>2. /\ task.input \in Distributed \cup {S_S} \cup Whole
                          \cup {VCStar, SpParMat, MultiVec}
      /\ task.output \in Gridded \cup Whole \cup {SpParMat, MultiVec}
  BY <1>1 DEF Types, Gridded, Whole
<1>3. task.output = SpParMat => task.input = SpParMat
  BY <1>1, KindsOfTypes DEF Types, Gridded, Whole
<1>4. task.input \in Whole => Rank = {Root}
  <2>1. ASSUME task.input \in Whole PROVE task.grid = <<1, 1>>
    BY <1>1, <2>1 DEF Fits
  <2>2. ASSUME task.grid = <<1, 1>> PROVE Rank = {Root}
    BY <2>2 DEF Rank, ProcessesOf, Root
  <2>3. QED
    BY <2>1, <2>2
<1>5. QED
  BY <1>1, <1>2, <1>3, <1>4 DEF Fits

LEMMA EntriesOfA ==
  ASSUME TaskOK, NEW p \in Rank
  PROVE  /\ task.A[p] \subseteq HeldOf(task.grid, task.input, Extents, p)
         /\ task.A[p] \subseteq Positions(Extents[1], Extents[2])
         /\ IsFiniteSet(task.A[p])
<1>1. PICK zeros : task.A = [q \in Rank |->
                               HeldOf(task.grid, task.input, Extents, q) \ zeros]
  BY DEF TaskOK
<1>2. Extents = <<Extents[1], Extents[2]>>
      /\ Extents[1] \in Nat \ {0} /\ Extents[2] \in Nat \ {0}
  BY TaskNumbers DEF Columnwise
<1> DEFINE a == Extents[1]
           b == Extents[2]
<1>3. HeldOf(task.grid, task.input, Extents, p)
        = HeldOf(task.grid, task.input, <<a, b>>, p)
  BY <1>2
<1>4. a \in Nat \ {0} /\ b \in Nat \ {0} /\ a \in Nat /\ b \in Nat
  BY <1>2
<1> HIDE DEF a, b
<1>5. HeldOf(task.grid, task.input, <<a, b>>, p) \subseteq Positions(a, b)
  <2>1. CASE task.input \in Gridded
    BY <1>4, <2>1, HeldGridded
  <2>2. CASE task.input = VCStar \/ task.input \in Whole
    <3>1. CASE task.input = VCStar
      BY <1>4, <3>1, HeldOthers
    <3>2. CASE task.input \in Whole
      BY <1>4, <3>2, HeldOthers
    <3>3. QED
      BY <2>2, <3>1, <3>2
  <2>3. CASE task.input = MultiVec
    <3>1. HeldOf(task.grid, task.input, <<a, b>>, p)
            = Consecutive(task.grid, a, p) \X (0 .. b - 1)
      BY <1>4, <2>3, HeldOthers
    <3>2. QED
      BY <3>1 DEF Consecutive, Positions
  <2>4. CASE task.input = SpParMat
    <3>1. task.grid[1] = task.grid[2] /\ task.grid[1] \in Nat \ {0}
      BY <2>4, InputTypes, TaskNumbers
    <3>2. /\ Place(task.grid, p)[1] \in 0 .. task.grid[1] - 1
          /\ Place(task.grid, p)[2] \in 0 .. task.grid[1] - 1
      BY <3>1, Placed
    <3>3. /\ Block(task.grid[1], a, Place(task.grid, p)[1]) \subseteq 0 .. a - 1
          /\ Block(task.grid[1], b, Place(task.grid, p)[2]) \subseteq 0 .. b - 1
      BY <1>4, <3>1, <3>2, BlocksWithin
    <3>4. HeldOf(task.grid, task.input, <<a, b>>, p) =
            Block(task.grid[1], a, Place(task.grid, p)[1])
              \X Block(task.grid[1], b, Place(task.grid, p)[2])
      BY <1>4, <2>4, HeldOthers
    <3>5. QED
      BY <3>3, <3>4 DEF Positions
  <2>5. QED
    BY <2>1, <2>2, <2>3, <2>4, InputTypes DEF Gridded
<1>6. task.A[p] \subseteq Positions(a, b)
      /\ task.A[p] \subseteq HeldOf(task.grid, task.input, Extents, p)
  BY <1>1, <1>3, <1>5
<1>7. IsFiniteSet(Positions(a, b))
  <2>1. IsFiniteSet(0 .. a - 1) /\ IsFiniteSet(0 .. b - 1)
    BY <1>4, FS_Interval
  <2>2. QED
    BY <2>1, FS_Product DEF Positions
<1>8. IsFiniteSet(task.A[p])
  BY <1>6, <1>7, FS_Subset
<1>9. QED
  BY <1>6, <1>8 DEF a, b

(* But for STAR, STAR, an entry is with one process.                       *)
LEMMA HeldApart ==
  ASSUME TaskOK, task.input # S_S, NEW p \in Rank, NEW q \in Rank, p # q
  PROVE  task.A[p] \cap task.A[q] = {}
<1> SUFFICES ASSUME NEW e, e \in task.A[p], e \in task.A[q] PROVE FALSE
  OBVIOUS
<1> DEFINE h == task.grid[1]
           w == task.grid[2]
           a == Extents[1]
           b == Extents[2]
<1>1. h \in Nat \ {0} /\ w \in Nat \ {0} /\ P = h * w
  BY TaskNumbers DEF P
<1>2. Extents = <<a, b>> /\ a \in Nat \ {0} /\ b \in Nat \ {0}
  BY TaskNumbers DEF Columnwise
<1>3. e \in HeldOf(task.grid, task.input, Extents, p)
      /\ e \in HeldOf(task.grid, task.input, Extents, q)
      /\ e \in Positions(a, b)
  BY EntriesOfA
<1> HIDE DEF a, b
<1>4. e \in HeldOf(task.grid, task.input, <<a, b>>, p)
      /\ e \in HeldOf(task.grid, task.input, <<a, b>>, q)
  BY <1>2, <1>3
<1>5. e[1] \in Nat /\ e[2] \in Nat
  BY <1>2, <1>3 DEF Positions
<1>6. /\ p = <<p[1], p[2]>> /\ q = <<q[1], q[2]>>
      /\ p[1] \in 0 .. h - 1 /\ p[2] \in 0 .. w - 1
      /\ q[1] \in 0 .. h - 1 /\ q[2] \in 0 .. w - 1
  BY Places
<1>7. /\ OnePlace(h, p[1], p[2], q[1], q[2])
      /\ OnePlace(w, p[2], p[1], q[2], q[1])
  <2> HIDE DEF h, w
  <2>1. QED
    BY <1>1, <1>6, OneNumber
<1>8. /\ p[1] + p[2] * h = q[1] + q[2] * h => FALSE
      /\ p[2] + p[1] * w = q[2] + q[1] * w => FALSE
      /\ p[1] = q[1] /\ p[2] = q[2] => FALSE
  <2> HIDE DEF h, w
  <2>1. QED
    BY <1>6, <1>7 DEF OnePlace
<1>9. CASE task.input \in Gridded
  <2>1. /\ Holds(task.input[1], e[1], p) /\ Holds(task.input[2], e[2], p)
        /\ Holds(task.input[1], e[1], q) /\ Holds(task.input[2], e[2], q)
    BY <1>2, <1>4, <1>9, HeldGridded
  <2>2. CASE task.input = <<"MC", "MR">>
    BY <1>8, <2>1, <2>2, Places
  <2>3. CASE task.input \in {<<"VC", "STAR">>, <<"STAR", "VC">>}
    BY <1>8, <2>1, <2>3, Places
  <2>4. CASE task.input \in {<<"VR", "STAR">>, <<"STAR", "VR">>}
    BY <1>8, <2>1, <2>4, Places
  <2>5. task.input \in Distributed
    BY <1>9, InputTypes, KindsOfTypes
  <2>6. QED
    BY <2>2, <2>3, <2>4, <2>5, KindsOfTypes
<1>10. CASE task.input = VCStar
  <2>1. Holds("VC", e[1], p) /\ Holds("VC", e[1], q)
    BY <1>2, <1>4, <1>10, HeldOthers
  <2>2. QED
    BY <1>8, <2>1, Places
<1>11. Number(task.grid, p) # Number(task.grid, q)
  BY Numbered
<1>12. CASE task.input = SpParMat
  <2>1. h = w
    BY <1>12, InputTypes
  <2> DEFINE i == Place(task.grid, p)
             j == Place(task.grid, q)
  <2>2. i[1] \in 0 .. h - 1 /\ i[2] \in 0 .. h - 1
        /\ j[1] \in 0 .. h - 1 /\ j[2] \in 0 .. h - 1
        /\ i[1] * h + i[2] # j[1] * h + j[2]
    BY <1>11, <2>1, Placed
  <2>3. e \in Block(h, a, i[1]) \X Block(h, b, i[2])
        /\ e \in Block(h, a, j[1]) \X Block(h, b, j[2])
    BY <1>2, <1>4, <1>12, HeldOthers
  <2> HIDE DEF i, j, h
  <2>4. i[1] = j[1] /\ i[2] = j[2]
    BY <1>1, <1>2, <2>2, <2>3, BlocksApart
  <2>5. QED
    BY <2>2, <2>4
<1>13. CASE task.input = MultiVec
  <2>1. e[1] \in Consecutive(task.grid, a, p) /\ e[1] \in Consecutive(task.grid, a, q)
    BY <1>2, <1>4, <1>13, HeldOthers
  <2>2. QED
    BY <1>11, <2>1 DEF Consecutive
<1>14. CASE task.input \in Whole
  BY <1>14, InputTypes
<1>15. QED
  BY <1>9, <1>10, <1>12, <1>13, <1>14, InputTypes DEF Gridded

LEMMA Entry ==
  ASSUME TaskOK, NEW e \in All
  PROVE  /\ e = <<e[1], e[2]>> /\ e[1] \in Nat /\ e[2] \in Nat
         /\ FinalPos(e) \in Positions(SHeight, SWidth)
<1>1. e \in Positions(Extents[1], Extents[2])
  BY EntriesOfA DEF All
<1>2. task.row_idx \in [0 .. task.size[1] - 1 -> 0 .. task.size[3] - 1]
  BY DEF TaskOK
<1>3. CASE Columnwise
  <2>1. Extents = <<task.size[1], task.size[2]>>
        /\ SHeight = task.size[3] /\ SWidth = task.size[2]
    BY <1>3, TaskNumbers
  <2>2. e \in (0 .. task.size[1] - 1) \X (0 .. task.size[2] - 1)
    BY <1>1, <2>1 DEF Positions
  <2>3. task.row_idx[e[1]] \in 0 .. task.size[3] - 1
    BY <1>2, <2>2
  <2>4. FinalPos(e) = <<task.row_idx[e[1]], e[2]>>
    BY <1>3 DEF FinalPos
  <2>5. QED
    BY <2>1, <2>2, <2>3, <2>4 DEF Positions
<1>4. CASE ~ Columnwise
  <2>1. Extents = <<task.size[2], task.size[1]>>
        /\ SHeight = task.size[2] /\ SWidth = task.size[3]
    BY <1>4, TaskNumbers
  <2>2. e \in (0 .. task.size[2] - 1) \X (0 .. task.size[1] - 1)
    BY <1>1, <2>1 DEF Positions
  <2>3. task.row_idx[e[2]] \in 0 .. task.size[3] - 1
    BY <1>2, <2>2
  <2>4. FinalPos(e) = <<e[1], task.row_idx[e[2]]>>
    BY <1>4 DEF FinalPos
  <2>5. QED
    BY <2>1, <2>2, <2>3, <2>4 DEF Positions
<1>5. QED
  BY <1>3, <1>4

LEMMA TermOfOne ==
  ASSUME TaskOK, NEW e \in All, NEW f \in All, Term(e) = Term(f)
  PROVE  e = f
BY Entry DEF Term

LEMMA RectangleFinite ==
  ASSUME NEW a \in Nat, NEW b \in Nat
  PROVE  IsFiniteSet(Positions(a, b))
<1>1. 0 \in Int /\ a - 1 \in Int /\ b - 1 \in Int
  OBVIOUS
<1>2. IsFiniteSet(0 .. a - 1) /\ IsFiniteSet(0 .. b - 1)
  BY <1>1, FS_Interval
<1>3. QED
  BY <1>2, FS_Product DEF Positions

LEMMA AllFinite ==
  ASSUME TaskOK
  PROVE  IsFiniteSet(Rank) /\ IsFiniteSet(All)
<1>1. Rank = Positions(task.grid[1], task.grid[2])
      /\ task.grid[1] \in Nat /\ task.grid[2] \in Nat
  BY TaskNumbers DEF Positions
<1>2. Extents[1] \in Nat /\ Extents[2] \in Nat
  BY TaskNumbers DEF Columnwise
<1>3. All \subseteq Positions(Extents[1], Extents[2])
  BY EntriesOfA DEF All
<1>4. QED
  BY <1>1, <1>2, <1>3, RectangleFinite, FS_Subset
(* What a process has of A is what the type of A gives it, less the        *)
(* entries a sparse matrix lacks, which no other process has either.       *)
LEMMA EntryHeld ==
  ASSUME TaskOK, NEW p \in Rank, NEW e \in All,
         e \in HeldOf(task.grid, task.input, Extents, p)
  PROVE  e \in task.A[p]
<1>1. PICK zeros : task.A = [q \in Rank |->
                               HeldOf(task.grid, task.input, Extents, q) \ zeros]
  BY DEF TaskOK
<1>2. PICK q \in Rank : e \in task.A[q]
  BY DEF All
<1>3. QED
  BY <1>1, <1>2

LEMMA TermsAtEnumerates ==
  ASSUME NEW E, IsFiniteSet(E), NEW at
  PROVE  Enumerates(TermsAt(E, at), TermsIn(E, at))
<1> DEFINE F == {e \in E : FinalPos(e) = at}
<1>1. IsFiniteSet(F)
  BY FS_Subset
<1> HIDE DEF F
<1>2. IsFiniteSet({Term(e) : e \in F})
  <2> DEFINE f == [e \in F |-> Term(e)]
  <2>1. f \in Surjection(F, {Term(e) : e \in F})
    BY DEF Surjection
  <2>2. QED
    BY <1>1, <2>1, FS_Surjection
<1>3. Enumerates(SetToSeq({Term(e) : e \in F}), {Term(e) : e \in F})
  BY <1>2, SetToSeqEnumerates
<1>4. QED
  BY <1>3 DEF TermsAt, TermsIn, F

(* A term says which entry it is from, and so where it goes.               *)
LEMMA TermsApart ==
  ASSUME TaskOK, NEW E, E \subseteq All, NEW F, F \subseteq All, NEW at, NEW bt,
         E \cap F = {} \/ at # bt
  PROVE  TermsIn(E, at) \cap TermsIn(F, bt) = {}
<1> SUFFICES ASSUME NEW e \in E, NEW f \in F, FinalPos(e) = at, FinalPos(f) = bt,
                    Term(e) = Term(f)
             PROVE  FALSE
  BY DEF TermsIn
<1>1. e = f
  BY TermOfOne
<1>2. QED
  BY <1>1

(* What the first n processes have.                                        *)
First(n) == UNION {task.A[Process(v - 1)] : v \in 1 .. n}

LEMMA FirstAll ==
  ASSUME TaskOK
  PROVE  /\ First(P) = All /\ First(0) = {}
         /\ \A n \in 0 .. P : First(n) \subseteq All
         /\ \A n \in 0 .. P - 1 : First(n + 1) = First(n) \cup task.A[Process(n)]
<1>1. P \in Nat
  BY TaskNumbers
<1>2. ASSUME NEW n \in 0 .. P, NEW v \in 1 .. n
      PROVE  Process(v - 1) \in Rank
  BY <1>1, Numbered
<1>3. \A n \in 0 .. P : First(n) \subseteq All
  BY <1>2 DEF First, All
<1>4. First(0) = {}
  BY DEF First
<1>5. All \subseteq First(P)
  <2>1. ASSUME NEW p \in Rank
        PROVE  \E v \in 1 .. P : p = Process(v - 1)
    <3>1. Number(task.grid, p) \in 0 .. P - 1
          /\ Process(Number(task.grid, p)) = p
      BY Numbered
    <3>2. Number(task.grid, p) + 1 \in 1 .. P
          /\ (Number(task.grid, p) + 1) - 1 = Number(task.grid, p)
      BY <1>1, <3>1
    <3>3. QED
      BY <3>1, <3>2
  <2>2. QED
    BY <2>1 DEF First, All
<1>6. ASSUME NEW n \in 0 .. P - 1
      PROVE  First(n + 1) = First(n) \cup task.A[Process(n)]
  <2>1. 1 .. n + 1 = (1 .. n) \cup {n + 1} /\ (n + 1) - 1 = n
    BY <1>1
  <2>2. QED
    BY <2>1 DEF First
<1>7. QED
  BY <1>1, <1>3, <1>4, <1>5, <1>6

LEMMA OthersApart ==
  ASSUME TaskOK, task.input # S_S, NEW v \in 1 .. P, NEW w \in 1 .. P, v # w
  PROVE  task.A[Process(v - 1)] \cap task.A[Process(w - 1)] = {}
<1>1. v - 1 \in 0 .. P - 1 /\ w - 1 \in 0 .. P - 1 /\ v - 1 # w - 1
  BY TaskNumbers
<1>2. Process(v - 1) \in Rank /\ Process(w - 1) \in Rank
      /\ Process(v - 1) # Process(w - 1)
  BY <1>1, Numbered
<1>3. QED
  BY <1>2, HeldApart

LEMMA OneLess == \A n \in Nat : \A v \in 1 .. n : v - 1 \in 0 .. n - 1
  OBVIOUS

(* What all processes have for an entry of the sketch, put together.       *)
LEMMA Everybody ==
  ASSUME TaskOK, task.input # S_S, NEW at, NEW q, q = [v \in 1 .. P |-> q[v]],
         \A v \in 1 .. P : Enumerates(q[v], TermsIn(task.A[Process(v - 1)], at))
  PROVE  Enumerates(FlattenSeq(q), Owed(at))
<1> DEFINE W == [v \in 1 .. P |-> TermsIn(task.A[Process(v - 1)], at)]
           X == {q[v] : v \in 1 .. P}
<1>1. P \in Nat /\ q \in [1 .. P -> X]
  BY TaskNumbers
<1>2. \A v \in 1 .. P : Enumerates(q[v], W[v])
  OBVIOUS
<1>3. ASSUME NEW v \in 1 .. P, NEW w \in 1 .. P, v # w
      PROVE  W[v] \cap W[w] = {}
  <2>1. task.A[Process(v - 1)] \cap task.A[Process(w - 1)] = {}
    BY <1>3, OthersApart
  <2>2. Process(v - 1) \in Rank /\ Process(w - 1) \in Rank
    <3>1. v - 1 \in 0 .. P - 1 /\ w - 1 \in 0 .. P - 1
      BY <1>1, OneLess
    <3>2. QED
      BY <3>1, Numbered
  <2>3. task.A[Process(v - 1)] \subseteq All /\ task.A[Process(w - 1)] \subseteq All
    BY <2>2 DEF All
  <2>4. QED
    BY <2>1, <2>3, TermsApart
<1>4. Together(P, W) = Owed(at)
  <2>1. Together(P, W) = TermsIn(First(P), at)
    BY DEF Together, First, TermsIn
  <2>2. QED
    BY <2>1, FirstAll DEF Owed
<1> HIDE DEF W, X
<1>5. Enumerates(FlattenSeq(q), Together(P, W))
  BY <1>1, <1>2, <1>3, EnumeratesAll
<1>6. QED
  BY <1>4, <1>5

Methods == {"local", "compress", "reduce", "all_reduce", "redistribute", "gather",
            "all_gather", "vectors", "window"}

LEMMA MethodTypes ==
  ASSUME TaskOK
  PROVE  /\ Method \in Methods
         /\ Method = "local" =>
              \/ task.input \in Whole /\ task.output = Matrix
              \/ /\ task.input \in ColDists /\ task.output = task.input
                 /\ ~ Columnwise
              \/ /\ task.input \in RowDists /\ task.output = task.input
                 /\ Columnwise
         /\ Method = "compress" => /\ task.input = SparseMatrix
                                   /\ task.output = SparseMatrix
         /\ Method = "reduce" => /\ task.input \in Distributed
                                 /\ task.output = CIRC_CIRC
         /\ Method = "all_reduce" => /\ task.input \in Distributed \cup {S_S}
                                     /\ task.output = S_S
         /\ Method = "redistribute" =>
              /\ task.output = task.input
              /\ \/ task.input = MC_MR
                 \/ task.input \in ColDists /\ Columnwise
                 \/ task.input \in RowDists /\ ~ Columnwise
         /\ Method = "gather" => task.input = SpParMat /\ task.output \in Whole
         /\ Method = "all_gather" => task.input = SpParMat /\ task.output = S_S
         /\ Method = "vectors" => /\ task.input = MultiVec /\ task.output = MultiVec
                                  /\ Columnwise
         /\ Method = "window" =>
              \/ task.input \in {VCStar, SpParMat} /\ task.output \in Distributed
              \/ task.input = SpParMat /\ task.output = SpParMat
<1>1. <<task.input, task.output>> \in Types /\ task.tag \in {"rowwise", "columnwise"}
      /\ (task.input = MultiVec => Columnwise)
  BY DEF TaskOK, Columnwise
<1>2. Method \in Methods
  BY DEF Method, MethodOf, Methods
<1> DEFINE in == task.input
           to == task.output
<1>3. \/ in \in Whole /\ to = Matrix
      \/ in = SparseMatrix /\ to = SparseMatrix
      \/ in = SpParMat /\ to \in Whole \cup {SpParMat, S_S}
      \/ in = MultiVec /\ to = MultiVec
      \/ in = S_S /\ to = S_S
      \/ in \in Distributed /\ to \in {CIRC_CIRC, S_S, in}
      \/ in \in {VCStar, SpParMat} /\ to \in Distributed
  BY <1>1 DEF Types, Whole
<1> DEFINE arm1 == in \in Whole /\ to = Matrix
           arm2 == in = SparseMatrix /\ to = SparseMatrix
           arm3 == to = CIRC_CIRC
           arm4 == in \in Distributed \cup {S_S} /\ to = S_S
           arm5 == in \in ColDists /\ to = in
           arm6 == in \in RowDists /\ to = in
           arm7 == in = MC_MR /\ to = MC_MR
           arm8 == in = SpParMat /\ to \in Whole
           arm9 == in = SpParMat /\ to = S_S
           arm10 == in = MultiVec
<1>4. Method = CASE arm1 -> "local"
                [] arm2 -> "compress"
                [] arm3 -> "reduce"
                [] arm4 -> "all_reduce"
                [] arm5 -> IF task.tag = "rowwise" THEN "local" ELSE "redistribute"
                [] arm6 -> IF task.tag = "columnwise" THEN "local" ELSE "redistribute"
                [] arm7 -> "redistribute"
                [] arm8 -> "gather"
                [] arm9 -> "all_gather"
                [] arm10 -> "vectors"
                [] OTHER -> "window"
  BY DEF Method, MethodOf
<1>5. CASE in \in Whole /\ to = Matrix
  <2>1. arm1 /\ ~ arm2 /\ ~ arm3 /\ ~ arm4 /\ ~ arm5
        /\ ~ arm6 /\ ~ arm7 /\ ~ arm8 /\ ~ arm9 /\ ~ arm10
    BY <1>5, KindsOfTypes
    DEF Gridded, Distributed, ColDists, RowDists, MC_MR, CIRC_CIRC, S_S, Whole
  <2> HIDE DEF arm1, arm2, arm3, arm4, arm5, arm6, arm7, arm8, arm9, arm10
  <2>2. Method = "local"
    BY <1>4, <2>1
  <2>3. QED
    BY <1>1, <1>2, <1>5, <2>2 DEF Columnwise
<1>6. CASE in = SparseMatrix /\ to = SparseMatrix
  <2>1. ~ arm1 /\ arm2 /\ ~ arm3 /\ ~ arm4 /\ ~ arm5
        /\ ~ arm6 /\ ~ arm7 /\ ~ arm8 /\ ~ arm9 /\ ~ arm10
    BY <1>6, KindsOfTypes
    DEF Gridded, Distributed, ColDists, RowDists, MC_MR, CIRC_CIRC, S_S, Whole
  <2> HIDE DEF arm1, arm2, arm3, arm4, arm5, arm6, arm7, arm8, arm9, arm10
  <2>2. Method = "compress"
    BY <1>4, <2>1
  <2>3. QED
    BY <1>1, <1>2, <1>6, <2>2 DEF Columnwise
<1>7. CASE in \in Distributed /\ to = CIRC_CIRC
  <2>1. ~ arm1 /\ ~ arm2 /\ arm3 /\ ~ arm4 /\ ~ arm5
        /\ ~ arm6 /\ ~ arm7 /\ ~ arm8 /\ ~ arm9 /\ ~ arm10
    BY <1>7, KindsOfTypes
    DEF Gridded, Distributed, ColDists, RowDists, MC_MR, CIRC_CIRC, S_S, Whole
  <2> HIDE DEF arm1, arm2, arm3, arm4, arm5, arm6, arm7, arm8, arm9, arm10
  <2>2. Method = "reduce"
    BY <1>4, <2>1
  <2>3. QED
    BY <1>1, <1>2, <1>7, <2>2 DEF Columnwise
<1>8. CASE in \in Distributed \cup {S_S} /\ to = S_S
  <2>1. ~ arm1 /\ ~ arm2 /\ ~ arm3 /\ arm4 /\ ~ arm5
        /\ ~ arm6 /\ ~ arm7 /\ ~ arm8 /\ ~ arm9 /\ ~ arm10
    BY <1>8, KindsOfTypes
    DEF Gridded, Distributed, ColDists, RowDists, MC_MR, CIRC_CIRC, S_S, Whole
  <2> HIDE DEF arm1, arm2, arm3, arm4, arm5, arm6, arm7, arm8, arm9, arm10
  <2>2. Method = "all_reduce"
    BY <1>4, <2>1
  <2>3. QED
    BY <1>1, <1>2, <1>8, <2>2 DEF Columnwise
<1>9. CASE in \in ColDists /\ to = in
  <2>1. ~ arm1 /\ ~ arm2 /\ ~ arm3 /\ ~ arm4 /\ arm5
        /\ ~ arm6 /\ ~ arm7 /\ ~ arm8 /\ ~ arm9 /\ ~ arm10
    BY <1>9, KindsOfTypes
    DEF Gridded, Distributed, ColDists, RowDists, MC_MR, CIRC_CIRC, S_S, Whole
  <2> HIDE DEF arm1, arm2, arm3, arm4, arm5, arm6, arm7, arm8, arm9, arm10
  <2>2. Method = IF task.tag = "rowwise" THEN "local" ELSE "redistribute"
    BY <1>4, <2>1
  <2>3. QED
    BY <1>1, <1>2, <1>9, <2>2 DEF Columnwise
<1>10. CASE in \in RowDists /\ to = in
  <2>1. ~ arm1 /\ ~ arm2 /\ ~ arm3 /\ ~ arm4 /\ ~ arm5
        /\ arm6 /\ ~ arm7 /\ ~ arm8 /\ ~ arm9 /\ ~ arm10
    BY <1>10, KindsOfTypes
    DEF Gridded, Distributed, ColDists, RowDists, MC_MR, CIRC_CIRC, S_S, Whole
  <2> HIDE DEF arm1, arm2, arm3, arm4, arm5, arm6, arm7, arm8, arm9, arm10
  <2>2. Method = IF task.tag = "columnwise" THEN "local" ELSE "redistribute"
    BY <1>4, <2>1
  <2>3. QED
    BY <1>1, <1>2, <1>10, <2>2 DEF Columnwise
<1>11. CASE in = MC_MR /\ to = MC_MR
  <2>1. ~ arm1 /\ ~ arm2 /\ ~ arm3 /\ ~ arm4 /\ ~ arm5
        /\ ~ arm6 /\ arm7 /\ ~ arm8 /\ ~ arm9 /\ ~ arm10
    BY <1>11, KindsOfTypes
    DEF Gridded, Distributed, ColDists, RowDists, MC_MR, CIRC_CIRC, S_S, Whole
  <2> HIDE DEF arm1, arm2, arm3, arm4, arm5, arm6, arm7, arm8, arm9, arm10
  <2>2. Method = "redistribute"
    BY <1>4, <2>1
  <2>3. QED
    BY <1>1, <1>2, <1>11, <2>2 DEF Columnwise
<1>12. CASE in = SpParMat /\ to \in Whole
  <2>1. ~ arm1 /\ ~ arm2 /\ ~ arm3 /\ ~ arm4 /\ ~ arm5
        /\ ~ arm6 /\ ~ arm7 /\ arm8 /\ ~ arm9 /\ ~ arm10
    BY <1>12, KindsOfTypes
    DEF Gridded, Distributed, ColDists, RowDists, MC_MR, CIRC_CIRC, S_S, Whole
  <2> HIDE DEF arm1, arm2, arm3, arm4, arm5, arm6, arm7, arm8, arm9, arm10
  <2>2. Method = "gather"
    BY <1>4, <2>1
  <2>3. QED
    BY <1>1, <1>2, <1>12, <2>2 DEF Columnwise
<1>13. CASE in = SpParMat /\ to = S_S
  <2>1. ~ arm1 /\ ~ arm2 /\ ~ arm3 /\ ~ arm4 /\ ~ arm5
        /\ ~ arm6 /\ ~ arm7 /\ ~ arm8 /\ arm9 /\ ~ arm10
    BY <1>13, KindsOfTypes
    DEF Gridded, Distributed, ColDists, RowDists, MC_MR, CIRC_CIRC, S_S, Whole
  <2> HIDE DEF arm1, arm2, arm3, arm4, arm5, arm6, arm7, arm8, arm9, arm10
  <2>2. Method = "all_gather"
    BY <1>4, <2>1
  <2>3. QED
    BY <1>1, <1>2, <1>13, <2>2 DEF Columnwise
<1>14. CASE in = MultiVec /\ to = MultiVec
  <2>1. ~ arm1 /\ ~ arm2 /\ ~ arm3 /\ ~ arm4 /\ ~ arm5
        /\ ~ arm6 /\ ~ arm7 /\ ~ arm8 /\ ~ arm9 /\ arm10
    BY <1>14, KindsOfTypes
    DEF Gridded, Distributed, ColDists, RowDists, MC_MR, CIRC_CIRC, S_S, Whole
  <2> HIDE DEF arm1, arm2, arm3, arm4, arm5, arm6, arm7, arm8, arm9, arm10
  <2>2. Method = "vectors"
    BY <1>4, <2>1
  <2>3. QED
    BY <1>1, <1>2, <1>14, <2>2 DEF Columnwise
<1>15. CASE \/ in \in {VCStar, SpParMat} /\ to \in Distributed
            \/ in = SpParMat /\ to = SpParMat
  <2>1. ~ arm1 /\ ~ arm2 /\ ~ arm3 /\ ~ arm4 /\ ~ arm5
        /\ ~ arm6 /\ ~ arm7 /\ ~ arm8 /\ ~ arm9 /\ ~ arm10
    BY <1>15, KindsOfTypes
    DEF Gridded, Distributed, ColDists, RowDists, MC_MR, CIRC_CIRC, S_S, Whole
  <2> HIDE DEF arm1, arm2, arm3, arm4, arm5, arm6, arm7, arm8, arm9, arm10
  <2>2. Method = "window"
    BY <1>4, <2>1
  <2>3. QED
    BY <1>1, <1>2, <1>15, <2>2 DEF Columnwise
<1>16. QED
  BY <1>3, <1>5, <1>6, <1>7, <1>8, <1>9, <1>10, <1>11, <1>12, <1>13, <1>14, <1>15
  DEF Distributed
-----------------------------------------------------------------------------
(***************************************************************************)
(* The numbers of a set, in order.                                         *)
(***************************************************************************)
Sifts(s, E, c) ==
  \E f : /\ s = f[c]
         /\ f[0] = << >>
         /\ \A n \in 0 .. c : n < c =>
              f[n + 1] = IF n \in E THEN Append(f[n], n) ELSE f[n]

LEMMA Sifting ==
  ASSUME NEW E, NEW c \in Nat, c = IF E = {} THEN 0 ELSE Max(E) + 1
  PROVE  Sifts(InOrder(E), E, c)
<1> DEFINE Step(f, n) == IF n = 0 THEN << >>
                         ELSE IF n - 1 \in E THEN Append(f[n - 1], n - 1) ELSE f[n - 1]
           Is(f, m) == f = [n \in 0 .. m |-> Step(f, n)]
           Fine == {m \in 0 .. c : \E f : Is(f, m)}
<1>1. Is([n \in 0 .. 0 |-> << >>], 0)
  <2>1. \A n \in 0 .. 0 : n = 0
    OBVIOUS
  <2>2. [n \in 0 .. 0 |-> << >>]
          = [n \in 0 .. 0 |-> Step([i \in 0 .. 0 |-> << >>], n)]
    BY <2>1
  <2>3. QED
    BY <2>2
<1>2. ASSUME NEW l \in 0 .. c, NEW g, Is(g, l), l < c
      PROVE  \E f : Is(f, l + 1)
  <2> DEFINE m == l + 1
             f == [n \in 0 .. m |-> IF n = m THEN Step(g, m) ELSE g[n]]
  <2>1. m \in 1 .. c /\ l \in 0 .. m /\ l # m /\ l = m - 1
    BY <1>2
  <2> HIDE DEF m
  <2>2. ASSUME NEW n \in 0 .. m
        PROVE  f[n] = Step(f, n)
    <3>1. CASE n = m
      <4>0. m \in 0 .. m /\ m - 1 \in 0 .. m /\ m - 1 # m /\ m # 0
        BY <2>1
      <4>1. f[m - 1] = g[m - 1] /\ f[m] = Step(g, m)
        BY <4>0
      <4>2. Step(f, m) = Step(g, m)
        BY <4>0, <4>1
      <4>3. QED
        BY <3>1, <4>1, <4>2
    <3>2. CASE n # m /\ n = 0
      <4>1. 0 \in 0 .. l /\ f[0] = g[0]
        BY <2>1, <3>2
      <4>2. g[0] = << >>
        BY <1>2, <4>1
      <4>3. QED
        BY <3>2, <4>1, <4>2
    <3>3. CASE n # m /\ n # 0
      <4>1. n \in 0 .. l /\ n - 1 \in 0 .. m /\ n - 1 # m
        BY <2>1, <3>3
      <4>2. f[n] = g[n] /\ f[n - 1] = g[n - 1]
        BY <3>3, <4>1
      <4>3. g[n] = Step(g, n)
        BY <1>2, <3>3, <4>1
      <4>4. Step(g, n) = Step(f, n)
        BY <3>3, <4>2
      <4> HIDE DEF Step, f
      <4>5. QED
        BY <4>2, <4>3, <4>4
    <3>4. QED
      BY <3>1, <3>2, <3>3
  <2>3. f = [n \in 0 .. m |-> f[n]]
    OBVIOUS
  <2> HIDE DEF f, Step
  <2>4. Is(f, m)
    BY <2>2, <2>3
  <2>5. QED
    BY <2>4 DEF m
<1>3. \E f : Is(f, c)
  <2> HIDE DEF Is
  <2>1. 0 \in Nat /\ 0 \in Fine
    BY <1>1
  <2>2. ASSUME NEW l \in 0 .. c, l \in Fine, l < c PROVE l + 1 \in Fine
    <3>1. PICK g : Is(g, l)
      BY <2>2
    <3>2. \E f : Is(f, l + 1)
      BY <1>2, <2>2, <3>1
    <3>3. QED
      BY <2>2, <3>2
  <2> HIDE DEF Fine
  <2>3. \A l \in 0 .. c : l \in Fine
    BY <2>1, <2>2, UpTo
  <2>4. c \in Fine
    BY <2>3
  <2>5. QED
    BY <2>4 DEF Fine
<1> DEFINE f == CHOOSE g : Is(g, c)
<1>4. Is(f, c)
  <2> HIDE DEF Is
  <2>1. QED
    BY <1>3
<1>5. InOrder(E) = f[c]
  BY DEF InOrder
<1> HIDE DEF f
<1>6. \A n \in 0 .. c : f[n] = Step(f, n)
  BY <1>4
<1>7. f[0] = << >>
  BY <1>6
<1>8. ASSUME NEW n \in 0 .. c, n < c
      PROVE  f[n + 1] = IF n \in E THEN Append(f[n], n) ELSE f[n]
  <2>1. n + 1 \in 0 .. c /\ n + 1 # 0 /\ (n + 1) - 1 = n
    BY <1>8
  <2>2. f[n + 1] = Step(f, n + 1)
    BY <1>6, <2>1
  <2>3. QED
    BY <2>1, <2>2
<1>9. QED
  BY <1>5, <1>7, <1>8 DEF Sifts

LEMMA SiftedEnumerates ==
  ASSUME NEW s, NEW E, NEW c \in Nat, Sifts(s, E, c), E \subseteq 0 .. c - 1
  PROVE  Enumerates(s, E)
<1> DEFINE Below(n) == E \cap 0 .. n - 1
<1>1. PICK f : /\ s = f[c]
               /\ f[0] = << >>
               /\ \A n \in 0 .. c : n < c =>
                    f[n + 1] = IF n \in E THEN Append(f[n], n) ELSE f[n]
  BY DEF Sifts
<1> DEFINE T == {n \in 0 .. c : Enumerates(f[n], Below(n))}
<1>2. 0 \in T /\ 0 \in Nat
  <2>1. Below(0) = {}
    OBVIOUS
  <2>2. QED
    BY <1>1, <2>1, EnumeratesNothing
<1>3. ASSUME NEW n \in 0 .. c, n \in T, n < c PROVE n + 1 \in T
  <2>1. Enumerates(f[n], Below(n)) /\ n + 1 \in 0 .. c
    BY <1>3
  <2>2. f[n + 1] = IF n \in E THEN Append(f[n], n) ELSE f[n]
    BY <1>1, <1>3
  <2>3. n \notin Below(n) /\ Below(n + 1) = IF n \in E THEN Below(n) \cup {n} ELSE Below(n)
    OBVIOUS
  <2> HIDE DEF Below
  <2>4. Enumerates(f[n + 1], Below(n + 1))
    BY <2>1, <2>2, <2>3, EnumeratesOneMore
  <2>5. QED
    BY <2>1, <2>4
<1> HIDE DEF T
<1>4. \A n \in 0 .. c : n \in T
  BY <1>2, <1>3, UpTo
<1>5. c \in T /\ Below(c) = E
  <2>1. c \in 0 .. c
    OBVIOUS
  <2>2. c \in T
    BY <1>4, <2>1
  <2>3. QED
    BY <2>2
<1>6. QED
  BY <1>1, <1>5 DEF T

LEMMA InOrderEnumerates ==
  ASSUME NEW n \in Nat, NEW E, E \subseteq 0 .. n
  PROVE  Enumerates(InOrder(E), E)
<1>1. CASE E = {}
  <2>1. Sifts(InOrder(E), E, 0)
    BY <1>1, Sifting
  <2>2. QED
    BY <1>1, <2>1, SiftedEnumerates
<1>2. CASE E # {}
  <2> DEFINE m == Max(E)
  <2>1. m \in E /\ \A y \in E : m >= y
    <3> DEFINE T == {n - e : e \in E}
    <3>1. T \subseteq Nat /\ T # {}
      <4>1. \A e \in E : n - e \in Nat
        OBVIOUS
      <4>2. PICK e \in E : TRUE
        BY <1>2
      <4>3. QED
        BY <4>1, <4>2
    <3>2. PICK t \in T : \A u \in T : t <= u
      BY <3>1, LeastNatural
    <3>3. PICK e \in E : t = n - e
      BY <3>2
    <3>4. \A y \in E : e >= y
      <4> SUFFICES ASSUME NEW y \in E PROVE e >= y
        OBVIOUS
      <4>1. n - y \in T /\ e \in 0 .. n /\ y \in 0 .. n
        OBVIOUS
      <4>2. n - e <= n - y
        BY <3>2, <3>3, <4>1
      <4>3. QED
        BY <4>1, <4>2
    <3>5. QED
      BY <3>4 DEF Max
  <2>2. m \in Nat /\ E \subseteq 0 .. m
    <3> HIDE DEF m
    <3>1. \A y \in E : y \in 0 .. n
      OBVIOUS
    <3>2. QED
      BY <2>1, <3>1
  <2>3. m + 1 \in Nat /\ (m + 1) - 1 = m
    BY <2>2
  <2>4. m + 1 = IF E = {} THEN 0 ELSE Max(E) + 1
    BY <1>2 DEF m
  <2>5. Sifts(InOrder(E), E, m + 1)
    BY <2>3, <2>4, Sifting
  <2>6. QED
    BY <2>2, <2>3, <2>5, SiftedEnumerates
<1>3. QED
  BY <1>1, <1>2
-----------------------------------------------------------------------------
(***************************************************************************)
(* A sparse sketch: each position that has terms, once, with its terms.    *)
(***************************************************************************)
Less(at, shift) == <<at[1] - shift[1], at[2] - shift[2]>>

Listed(list, shift, W) ==
  /\ list = [k \in 1 .. Len(list) |-> list[k]] /\ Len(list) \in Nat
  /\ \A k \in 1 .. Len(list) :
        list[k] = [at |-> list[k].at, terms |-> list[k].terms]
  /\ \A k \in 1 .. Len(list) : \E at \in DOMAIN W :
        /\ list[k].at = Less(at, shift) /\ W[at] # {}
        /\ Enumerates(list[k].terms, W[at])
  /\ \A at \in DOMAIN W : W[at] # {} =>
        \E k \in 1 .. Len(list) : list[k].at = Less(at, shift)
  /\ \A j, k \in 1 .. Len(list) : list[j].at = list[k].at => j = k

(***************************************************************************)
(* What is to be compressed: for each piece its row, its column and its    *)
(* terms, which no other piece has; together the pieces of a position are  *)
(* what is owed there.                                                     *)
(***************************************************************************)
AtOf(met, k) == <<met[k][1], met[k][2]>>

Pieces(met, W) ==
  /\ DOMAIN W \subseteq Nat \X Nat
  /\ met = [k \in 1 .. Len(met) |-> met[k]] /\ Len(met) \in Nat
  /\ \A k \in 1 .. Len(met) : /\ AtOf(met, k) \in DOMAIN W
                              /\ Range(met[k][3]) # {}
                              /\ Enumerates(met[k][3], Range(met[k][3]))
  /\ \A j, k \in 1 .. Len(met) : j # k => Range(met[j][3]) \cap Range(met[k][3]) = {}
  /\ \A at \in DOMAIN W :
        W[at] = UNION {Range(met[k][3]) : k \in {k \in 1 .. Len(met) : AtOf(met, k) = at}}

LEMMA SlotFirst ==
  ASSUME NEW met, Len(met) \in Nat, NEW k \in 1 .. Len(met)
  PROVE  /\ Slot(met, k) \in 1 .. k
         /\ AtOf(met, Slot(met, k)) = AtOf(met, k)
         /\ \A j \in 1 .. k : AtOf(met, j) = AtOf(met, k) => Slot(met, k) <= j
<1> DEFINE T == {j \in 1 .. k : met[j][1] = met[k][1] /\ met[j][2] = met[k][2]}
<1>1. T \subseteq Nat /\ k \in T
  OBVIOUS
<1>2. \E t \in T : \A u \in T : t <= u
  <2> HIDE DEF T
  <2>1. QED
    BY <1>1, LeastNatural
<1>3. Slot(met, k) \in T /\ \A u \in T : Slot(met, k) <= u
  BY <1>2 DEF Slot, Min
<1>4. QED
  BY <1>3 DEF AtOf

LEMMA SlotOne ==
  ASSUME NEW met, Len(met) \in Nat, NEW j \in 1 .. Len(met), NEW k \in 1 .. Len(met),
         AtOf(met, j) = AtOf(met, k)
  PROVE  Slot(met, j) = Slot(met, k)
<1>1. /\ Slot(met, j) \in 1 .. j /\ AtOf(met, Slot(met, j)) = AtOf(met, j)
      /\ \A i \in 1 .. j : AtOf(met, i) = AtOf(met, j) => Slot(met, j) <= i
      /\ Slot(met, k) \in 1 .. k /\ AtOf(met, Slot(met, k)) = AtOf(met, k)
      /\ \A i \in 1 .. k : AtOf(met, i) = AtOf(met, k) => Slot(met, k) <= i
  BY SlotFirst
<1>2. CASE j <= k
  <2>1. Slot(met, j) \in 1 .. k
    BY <1>1, <1>2
  <2>2. Slot(met, k) <= Slot(met, j)
    BY <1>1, <2>1
  <2>3. Slot(met, k) \in 1 .. j
    BY <1>1, <1>2, <2>2
  <2>4. Slot(met, j) <= Slot(met, k)
    BY <1>1, <2>3
  <2>5. QED
    BY <1>1, <2>2, <2>4
<1>3. CASE k <= j
  <2>1. Slot(met, k) \in 1 .. j
    BY <1>1, <1>3
  <2>2. Slot(met, j) <= Slot(met, k)
    BY <1>1, <2>1
  <2>3. Slot(met, j) \in 1 .. k
    BY <1>1, <1>3, <2>2
  <2>4. Slot(met, k) <= Slot(met, j)
    BY <1>1, <2>3
  <2>5. QED
    BY <1>1, <2>2, <2>4
<1>4. QED
  BY <1>2, <1>3

LEMMA CompressLists ==
  ASSUME NEW met, NEW W, Pieces(met, W)
  PROVE  Listed(Compress(met), <<0, 0>>, W)
<1> DEFINE n == Len(met)
           E == {k \in 1 .. n : Slot(met, k) = k}
           places == InOrder(E)
           q(place) == [k \in 1 .. n |-> IF Slot(met, k) = place THEN met[k][3] ELSE << >>]
           list == Compress(met)
<1>1. n \in Nat
  BY DEF Pieces
<1>2. Enumerates(places, E)
  <2>1. E \subseteq 0 .. n
    BY <1>1
  <2> HIDE DEF E
  <2>2. QED
    BY <1>1, <2>1, InOrderEnumerates
<1>3. /\ DOMAIN list = 1 .. Len(places) /\ Len(places) \in Nat
      /\ \A l \in 1 .. Len(places) :
            /\ list[l] = [at |-> list[l].at, terms |-> list[l].terms]
            /\ list[l].at = AtOf(met, places[l])
            /\ list[l].terms = FlattenSeq(q(places[l]))
      /\ list = [l \in 1 .. Len(places) |-> list[l]]
  <2>1. list = [l \in 1 .. Len(places) |->
                  [at |-> AtOf(met, places[l]), terms |-> FlattenSeq(q(places[l]))]]
    BY DEF Compress, AtOf
  <2>2. Len(places) \in Nat
    BY <1>2 DEF Enumerates
  <2> HIDE DEF places, list, q
  <2>3. QED
    BY <2>1, <2>2
<1>4. \A l \in 1 .. Len(places) : places[l] \in E
  BY <1>2 DEF Enumerates
<1>5. Len(list) = Len(places)
  BY <1>3
<1>6. ASSUME NEW p \in E
      PROVE  /\ AtOf(met, p) \in DOMAIN W /\ W[AtOf(met, p)] # {}
             /\ Enumerates(FlattenSeq(q(p)), W[AtOf(met, p)])
  <2> DEFINE at == AtOf(met, p)
             Part == [k \in 1 .. n |-> IF Slot(met, k) = p THEN Range(met[k][3]) ELSE {}]
             Vals == {q(p)[k] : k \in 1 .. n}
  <2>1. p \in 1 .. n /\ Slot(met, p) = p /\ at \in DOMAIN W
    BY DEF Pieces
  <2>2. ASSUME NEW k \in 1 .. n PROVE Slot(met, k) = p <=> AtOf(met, k) = at
    <3>1. AtOf(met, k) = at => Slot(met, k) = Slot(met, p)
      BY <1>1, <2>1, SlotOne
    <3>2. Slot(met, k) = p => AtOf(met, k) = at
      BY <1>1, SlotFirst
    <3>3. QED
      BY <2>1, <3>1, <3>2
  <2>3. ASSUME NEW k \in 1 .. n PROVE Enumerates(q(p)[k], Part[k])
    <3>1. CASE Slot(met, k) = p
      BY <3>1 DEF Pieces
    <3>2. CASE Slot(met, k) # p
      BY <3>2, EnumeratesNothing
    <3>3. QED
      BY <3>1, <3>2
  <2>4. \A j, k \in 1 .. n : j # k => Part[j] \cap Part[k] = {}
    BY DEF Pieces
  <2>5. q(p) \in [1 .. n -> Vals]
    OBVIOUS
  <2>6. Together(n, Part) = W[at]
    <3>1. W[at] = UNION {Range(met[k][3]) : k \in {k \in 1 .. n : AtOf(met, k) = at}}
      BY <2>1 DEF Pieces
    <3>2. QED
      BY <2>2, <3>1 DEF Together
  <2>7. W[at] # {}
    <3>1. Part[p] # {} /\ Part[p] \subseteq Together(n, Part)
      BY <2>1 DEF Pieces, Together
    <3>2. QED
      BY <2>6, <3>1
  <2> DEFINE s == q(p)
  <2>8. s \in [1 .. n -> Vals] /\ \A k \in 1 .. n : Enumerates(s[k], Part[k])
    BY <2>3, <2>5
  <2> HIDE DEF s, Vals, Part, n
  <2>9. Enumerates(FlattenSeq(s), Together(n, Part))
    BY <1>1, <2>4, <2>8, EnumeratesAll
  <2>10. QED
    BY <2>1, <2>6, <2>7, <2>9 DEF s
<1>7. \A a \in DOMAIN W : Less(a, <<0, 0>>) = a
  BY DEF Pieces, Less
<1>8. \A k \in 1 .. n : AtOf(met, k) \in DOMAIN W
  BY DEF Pieces
<1>9. ASSUME NEW l \in 1 .. Len(list)
      PROVE  \E at \in DOMAIN W : /\ list[l].at = Less(at, <<0, 0>>) /\ W[at] # {}
                                 /\ Enumerates(list[l].terms, W[at])
  <2>1. places[l] \in E
    BY <1>4, <1>5
  <2> HIDE DEF list, places, E, q
  <2>2. QED
    BY <1>3, <1>5, <1>6, <1>7, <2>1
<1>10. ASSUME NEW at \in DOMAIN W, W[at] # {}
       PROVE  \E l \in 1 .. Len(list) : list[l].at = Less(at, <<0, 0>>)
  <2>1. PICK k \in 1 .. n : AtOf(met, k) = at
    BY <1>10 DEF Pieces
  <2>2. Slot(met, k) \in 1 .. n /\ AtOf(met, Slot(met, k)) = at
    BY <1>1, <2>1, SlotFirst
  <2>3. Slot(met, Slot(met, k)) = Slot(met, k)
    BY <1>1, <2>1, <2>2, SlotOne
  <2>4. Slot(met, k) \in E
    BY <2>2, <2>3
  <2>5. PICK l \in 1 .. Len(places) : places[l] = Slot(met, k)
    BY <1>2, <2>4 DEF Enumerates
  <2> HIDE DEF list, places, E, q
  <2>6. QED
    BY <1>3, <1>5, <1>7, <2>2, <2>5
<1>11. ASSUME NEW l \in 1 .. Len(list), NEW m \in 1 .. Len(list),
              list[l].at = list[m].at
       PROVE  l = m
  <2>1. places[l] \in E /\ places[m] \in E
    BY <1>4, <1>5
  <2>2. AtOf(met, places[l]) = AtOf(met, places[m])
    <3> HIDE DEF list, places, E, q
    <3>1. QED
      BY <1>3, <1>5, <1>11
  <2>3. places[l] = places[m]
    BY <1>1, <2>1, <2>2, SlotOne
  <2>4. QED
    BY <1>2, <1>5, <2>3 DEF Enumerates
<1>12. list = [l \in 1 .. Len(list) |-> list[l]] /\ Len(list) \in Nat
  <2> HIDE DEF list, places
  <2>1. QED
    BY <1>3, <1>5
<1> HIDE DEF list, places, E, q
<1>a. \A l \in 1 .. Len(list) :
        list[l] = [at |-> list[l].at, terms |-> list[l].terms]
  BY <1>3, <1>5
<1>13. Listed(list, <<0, 0>>, W)
  BY <1>9, <1>10, <1>11, <1>12, <1>a DEF Listed
<1>14. QED
  BY <1>13 DEF list

(* The same of the set of the pieces, whatever order they are met in.      *)
PieceSet(M, W) ==
  /\ DOMAIN W \subseteq Nat \X Nat
  /\ \A m \in M : /\ <<m[1], m[2]>> \in DOMAIN W
                  /\ Range(m[3]) # {} /\ Enumerates(m[3], Range(m[3]))
  /\ \A l, m \in M : l # m => Range(l[3]) \cap Range(m[3]) = {}
  /\ \A at \in DOMAIN W :
        W[at] = UNION {Range(m[3]) : m \in {m \in M : <<m[1], m[2]>> = at}}

LEMMA PiecesMet ==
  ASSUME NEW met, NEW M, NEW W, Enumerates(met, M), PieceSet(M, W)
  PROVE  Pieces(met, W)
<1> DEFINE n == Len(met)
<1>1. met = [k \in 1 .. n |-> met[k]] /\ n \in Nat /\ \A k \in 1 .. n : met[k] \in M
  BY DEF Enumerates
<1>2. \A j, k \in 1 .. n : j # k => met[j] # met[k]
  BY DEF Enumerates
<1>3. ASSUME NEW k \in 1 .. n
      PROVE  /\ AtOf(met, k) \in DOMAIN W
             /\ Range(met[k][3]) # {}
             /\ Enumerates(met[k][3], Range(met[k][3]))
  <2>1. met[k] \in M
    BY <1>1
  <2>2. QED
    BY <2>1 DEF PieceSet, AtOf
<1>4. ASSUME NEW j \in 1 .. n, NEW k \in 1 .. n, j # k
      PROVE  Range(met[j][3]) \cap Range(met[k][3]) = {}
  <2>1. met[j] \in M /\ met[k] \in M /\ met[j] # met[k]
    BY <1>1, <1>2, <1>4
  <2>2. QED
    BY <2>1 DEF PieceSet
<1>5. ASSUME NEW at \in DOMAIN W
      PROVE  W[at] = UNION {Range(met[k][3]) : k \in {k \in 1 .. n : AtOf(met, k) = at}}
  <2>1. W[at] = UNION {Range(m[3]) : m \in {m \in M : <<m[1], m[2]>> = at}}
    BY DEF PieceSet
  <2>2. ASSUME NEW x, NEW k \in 1 .. n, AtOf(met, k) = at, x \in Range(met[k][3])
        PROVE  x \in W[at]
    <3>1. met[k] \in {m \in M : <<m[1], m[2]>> = at}
      BY <1>1, <2>2 DEF AtOf
    <3>2. QED
      BY <2>1, <2>2, <3>1
  <2>3. ASSUME NEW m \in M, <<m[1], m[2]>> = at, NEW x \in Range(m[3])
        PROVE  \E k \in 1 .. n : AtOf(met, k) = at /\ x \in Range(met[k][3])
    <3>1. PICK k \in 1 .. n : met[k] = m
      BY DEF Enumerates
    <3>2. QED
      BY <2>3, <3>1 DEF AtOf
  <2> DEFINE U == UNION {Range(met[k][3]) : k \in {k \in 1 .. n : AtOf(met, k) = at}}
  <2>4. ASSUME NEW x \in W[at] PROVE x \in U
    <3>1. PICK m \in M : <<m[1], m[2]>> = at /\ x \in Range(m[3])
      BY <2>1
    <3>2. PICK k \in 1 .. n : AtOf(met, k) = at /\ x \in Range(met[k][3])
      BY <2>3, <3>1
    <3>3. QED
      BY <3>2
  <2>5. \A x \in U : x \in W[at]
    BY <2>2
  <2> HIDE DEF U
  <2>6. W[at] = U
    BY <2>4, <2>5
  <2>7. QED
    BY <2>6 DEF U
<1>6. QED
  BY <1>1, <1>3, <1>4, <1>5 DEF Pieces, PieceSet
-----------------------------------------------------------------------------
(***************************************************************************)
(* What a process meets of its own matrix: an entry of A at a time.        *)
(***************************************************************************)
MetOf(e) == <<FinalPos(e)[1], FinalPos(e)[2], <<Term(e)>> >>

LEMMA MetOfOne ==
  ASSUME TaskOK, NEW e \in All, NEW f \in All, MetOf(e) = MetOf(f)
  PROVE  e = f
BY TermOfOne DEF MetOf

ColumnTo(j, c) == \A e \in All : e[2] = j => FinalPos(e)[2] = c
RowsOf(j) == InOrder({e[1] : e \in {e \in task.A[Root] : e[2] = j}})
ListOf(s, j, c) == [l \in DOMAIN s |-> <<FinalPos(<<s[l], j>>)[1], c,
                                       <<Term(<<s[l], j>>)>> >>]
MetFrom(j) == {MetOf(e) : e \in {e \in All : e[2] = j}}

LEMMA MetInColumn ==
  ASSUME TaskOK, Rank = {Root}, NEW c, NEW j, ColumnTo(j, c)
  PROVE  Enumerates(ListOf(RowsOf(j), j, c), MetFrom(j))
<1> USE DEF ColumnTo, MetFrom
<1> DEFINE s == RowsOf(j)
           E == {e \in All : e[2] = j}
           R == {e[1] : e \in E}
           g == [i \in R |-> MetOf(<<i, j>>)]
           t == [k \in 1 .. Len(s) |-> g[s[k]]]
<1>1. All = task.A[Root]
  BY DEF All
<1>2. Extents[1] \in Nat
  BY TaskNumbers DEF Columnwise
<1>3. \A e \in E : e \in All /\ e = <<e[1], j>> /\ e[1] \in Nat
  BY Entry
<1>4. R \subseteq 0 .. Extents[1]
  <2>1. ASSUME NEW e \in E PROVE e[1] \in 0 .. Extents[1]
    <3>1. e \in Positions(Extents[1], Extents[2])
      BY <1>1, EntriesOfA, TaskNumbers
    <3>2. QED
      BY <1>2, <3>1 DEF Positions
  <2>2. QED
    BY <2>1
<1>5. Enumerates(s, R)
  <2>1. s = InOrder(R)
    BY <1>1 DEF RowsOf
  <2> HIDE DEF R
  <2>2. QED
    BY <1>2, <1>4, <2>1, InOrderEnumerates
<1> HIDE DEF s
<1>6. \A i \in R : <<i, j>> \in E
  BY <1>3
<1>7. \A x, y \in R : g[x] = g[y] => x = y
  <2> SUFFICES ASSUME NEW x \in R, NEW y \in R, g[x] = g[y] PROVE x = y
    OBVIOUS
  <2>1. <<x, j>> \in All /\ <<y, j>> \in All /\ MetOf(<<x, j>>) = MetOf(<<y, j>>)
    BY <1>6
  <2>2. <<x, j>> = <<y, j>>
    BY <2>1, MetOfOne
  <2>3. QED
    BY <2>2
<1>8. Enumerates(t, {g[x] : x \in R})
  <2> HIDE DEF g, R
  <2>1. QED
    BY <1>5, <1>7, EnumeratesMapped
<1>9. {g[x] : x \in R} = {MetOf(e) : e \in E}
  <2>1. \A x \in R : g[x] = MetOf(<<x, j>>)
    OBVIOUS
  <2>2. \A e \in E : e[1] \in R /\ e = <<e[1], j>>
    BY <1>3
  <2> HIDE DEF g, R, E
  <2>3. \A x \in R : g[x] \in {MetOf(e) : e \in E}
    BY <1>6, <2>1
  <2>4. ASSUME NEW e \in E PROVE MetOf(e) \in {g[x] : x \in R}
    <3>1. e[1] \in R /\ g[e[1]] = MetOf(e)
      BY <2>1, <2>2
    <3>2. QED
      BY <3>1
  <2>5. QED
    BY <2>3, <2>4
<1>10. DOMAIN s = 1 .. Len(s) /\ \A k \in 1 .. Len(s) : s[k] \in R
  <2> HIDE DEF R
  <2>1. DOMAIN s = 1 .. Len(s)
    BY <1>5, EnumeratesRange
  <2>2. s \in Seq(R)
    BY <1>5, EnumeratesRange
  <2>3. QED
    BY <2>1, <2>2
<1>11. \A k \in 1 .. Len(s) :
          g[s[k]] = <<FinalPos(<<s[k], j>>)[1], c, <<Term(<<s[k], j>>)>> >>
  <2> SUFFICES ASSUME NEW k \in 1 .. Len(s)
               PROVE g[s[k]] = <<FinalPos(<<s[k], j>>)[1], c, <<Term(<<s[k], j>>)>> >>
    OBVIOUS
  <2>1. s[k] \in R
    BY <1>10
  <2>2. g[s[k]] = MetOf(<<s[k], j>>)
    BY <2>1
  <2>3. FinalPos(<<s[k], j>>)[2] = c
    BY <1>6, <2>1
  <2>4. QED
    BY <2>2, <2>3 DEF MetOf
<1>12. t = ListOf(s, j, c)
  <2> HIDE DEF g, R, E
  <2>1. QED
    BY <1>10, <1>11 DEF ListOf
<1>13. QED
  BY <1>8, <1>9, <1>12 DEF s

(* The columns of A that are met in column c of the sketch.                *)
From(c) == IF Columnwise THEN {c}
           ELSE {j \in DOMAIN task.row_idx : task.row_idx[j] = c}

LEMMA FromColumns ==
  ASSUME TaskOK, NEW c \in 0 .. SWidth - 1
  PROVE  /\ \A e \in All : FinalPos(e)[2] = c <=> e[2] \in From(c)
         /\ Enumerates(IF Columnwise THEN <<c>> ELSE InOrder(From(c)), From(c))
<1>1. ASSUME Columnwise
      PROVE  /\ \A e \in All : FinalPos(e)[2] = c <=> e[2] \in From(c)
             /\ Enumerates(<<c>>, From(c))
  BY <1>1 DEF From, FinalPos, Enumerates
<1>2. ASSUME ~ Columnwise
      PROVE  /\ \A e \in All : FinalPos(e)[2] = c <=> e[2] \in From(c)
             /\ Enumerates(InOrder(From(c)), From(c))
  <2>1. DOMAIN task.row_idx = 0 .. task.size[1] - 1 /\ Extents[2] = task.size[1]
        /\ task.size[1] \in Nat
    <3>1. task.row_idx \in [0 .. task.size[1] - 1 -> 0 .. task.size[3] - 1]
      BY DEF TaskOK
    <3>2. Extents[2] = task.size[1] /\ task.size[1] \in Nat
      BY <1>2, TaskNumbers
    <3>3. QED
      BY <3>1, <3>2
  <2>2. ASSUME NEW e \in All PROVE e[2] \in DOMAIN task.row_idx
    <3>1. e \in Positions(Extents[1], Extents[2])
      BY EntriesOfA DEF All
    <3>2. QED
      BY <2>1, <3>1 DEF Positions
  <2>3. \A e \in All : FinalPos(e)[2] = c <=> e[2] \in From(c)
    BY <1>2, <2>2 DEF From, FinalPos
  <2>4. From(c) \subseteq 0 .. task.size[1]
    BY <1>2, <2>1 DEF From
  <2>5. QED
    BY <2>1, <2>3, <2>4, InOrderEnumerates
<1>3. QED
  BY <1>1, <1>2

LEMMA MetEnumerates ==
  ASSUME TaskOK, Rank = {Root}, NEW c \in 0 .. SWidth - 1
  PROVE  Enumerates(Met(c), {MetOf(e) : e \in {e \in All : FinalPos(e)[2] = c}})
<1> DEFINE from == IF Columnwise THEN <<c>> ELSE InOrder(From(c))
           rows(j) == InOrder({e[1] : e \in {e \in task.A[Root] : e[2] = j}})
           of(j) == [l \in DOMAIN rows(j) |-> <<FinalPos(<<rows(j)[l], j>>)[1], c,
                                               <<Term(<<rows(j)[l], j>>)>> >>]
           q == [k \in DOMAIN from |-> of(from[k])]
           n == Len(from)
           W == [k \in 1 .. n |-> {MetOf(e) : e \in {e \in All : e[2] = from[k]}}]
           Vals == {q[k] : k \in 1 .. n}
           S == {MetOf(e) : e \in {e \in All : FinalPos(e)[2] = c}}
<1>1. /\ \A e \in All : FinalPos(e)[2] = c <=> e[2] \in From(c)
      /\ Enumerates(from, From(c))
  <2> HIDE DEF from
  <2>1. /\ \A e \in All : FinalPos(e)[2] = c <=> e[2] \in From(c)
        /\ Enumerates(IF Columnwise THEN <<c>> ELSE InOrder(From(c)), From(c))
    BY FromColumns
  <2>2. QED
    BY <2>1 DEF from
<1>2. Met(c) = FlattenSeq(q)
  BY DEF Met, From
<1>3. n \in Nat /\ DOMAIN from = 1 .. n /\ \A k \in 1 .. n : from[k] \in From(c)
  <2> HIDE DEF from
  <2>1. QED
    BY <1>1 DEF Enumerates
<1>4. \A j, k \in 1 .. n : j # k => from[j] # from[k]
  <2> HIDE DEF from
  <2>1. QED
    BY <1>1 DEF Enumerates
<1> HIDE DEF from
<1>5. ASSUME NEW k \in 1 .. n PROVE Enumerates(q[k], W[k])
  <2> DEFINE j == from[k]
  <2>1. ColumnTo(j, c)
    BY <1>1, <1>3 DEF ColumnTo
  <2>2. q[k] = ListOf(RowsOf(j), j, c)
    BY <1>3 DEF ListOf, RowsOf
  <2>3. W[k] = MetFrom(j)
    BY DEF MetFrom
  <2> HIDE DEF q, W, j
  <2>4. QED
    BY <2>1, <2>2, <2>3, MetInColumn
<1>6. ASSUME NEW j \in 1 .. n, NEW k \in 1 .. n, j # k PROVE W[j] \cap W[k] = {}
  <2> SUFFICES ASSUME NEW e \in All, NEW f \in All, e[2] = from[j], f[2] = from[k],
                      MetOf(e) = MetOf(f)
               PROVE  FALSE
    OBVIOUS
  <2>1. e = f
    BY MetOfOne
  <2>2. QED
    BY <1>4, <1>6, <2>1
<1>7. Together(n, W) = S
  <2>1. ASSUME NEW e \in All, FinalPos(e)[2] = c
        PROVE  \E k \in 1 .. n : MetOf(e) \in W[k]
    <3>1. PICK k \in 1 .. n : from[k] = e[2]
      BY <1>1, <2>1 DEF Enumerates
    <3>2. MetOf(e) \in W[k]
      BY <3>1
    <3>3. QED
      BY <3>2
  <2>2. ASSUME NEW k \in 1 .. n, NEW e \in All, e[2] = from[k]
        PROVE  MetOf(e) \in S
    <3>1. FinalPos(e)[2] = c
      BY <1>1, <1>3, <2>2
    <3>2. QED
      BY <3>1
  <2>3. Together(n, W) \subseteq S
    BY <2>2 DEF Together
  <2>4. \A x \in S : x \in Together(n, W)
    <3> SUFFICES ASSUME NEW e \in All, FinalPos(e)[2] = c
                 PROVE  MetOf(e) \in Together(n, W)
      OBVIOUS
    <3>1. PICK k \in 1 .. n : MetOf(e) \in W[k]
      BY <2>1
    <3> HIDE DEF W
    <3>2. QED
      BY <3>1 DEF Together
  <2>5. QED
    BY <2>3, <2>4
<1>8. q \in [1 .. n -> Vals]
  BY <1>3
<1> HIDE DEF q, W, Vals, n, S
<1>9. Enumerates(FlattenSeq(q), Together(n, W))
  BY <1>3, <1>5, <1>6, <1>8, EnumeratesAll
<1>10. Enumerates(Met(c), S)
  BY <1>2, <1>7, <1>9
<1>11. QED
  BY <1>10 DEF S

LEMMA MetLocallyEnumerates ==
  ASSUME TaskOK, Rank = {Root}
  PROVE  Enumerates(MetLocally, {MetOf(e) : e \in All})
<1> DEFINE q == [c \in 1 .. SWidth |-> Met(c - 1)]
           W == [c \in 1 .. SWidth |->
                   {MetOf(e) : e \in {e \in All : FinalPos(e)[2] = c - 1}}]
           Vals == {q[c] : c \in 1 .. SWidth}
           S == {MetOf(e) : e \in All}
<1>1. SWidth \in Nat
  BY TaskNumbers
<1>2. q \in [1 .. SWidth -> Vals]
  OBVIOUS
<1>3. ASSUME NEW c \in 1 .. SWidth PROVE Enumerates(q[c], W[c])
  <2> DEFINE d == c - 1
  <2>1. d \in 0 .. SWidth - 1
    BY <1>1
  <2>2. q[c] = Met(d) /\ W[c] = {MetOf(e) : e \in {e \in All : FinalPos(e)[2] = d}}
    OBVIOUS
  <2> HIDE DEF d, q, W
  <2>3. QED
    BY <2>1, <2>2, MetEnumerates
<1>4. ASSUME NEW c \in 1 .. SWidth, NEW d \in 1 .. SWidth, c # d
      PROVE  W[c] \cap W[d] = {}
  <2> SUFFICES ASSUME NEW e \in All, NEW f \in All, FinalPos(e)[2] = c - 1,
                      FinalPos(f)[2] = d - 1, MetOf(e) = MetOf(f)
               PROVE  FALSE
    OBVIOUS
  <2>1. e = f
    BY MetOfOne
  <2>2. c - 1 # d - 1
    BY <1>1, <1>4
  <2>3. QED
    BY <2>1, <2>2
<1>5. Together(SWidth, W) = S
  <2>1. ASSUME NEW e \in All PROVE MetOf(e) \in Together(SWidth, W)
    <3>1. FinalPos(e) \in Positions(SHeight, SWidth)
      BY Entry
    <3>2. FinalPos(e)[2] + 1 \in 1 .. SWidth
          /\ (FinalPos(e)[2] + 1) - 1 = FinalPos(e)[2]
      BY <1>1, <3>1 DEF Positions
    <3>3. MetOf(e) \in W[FinalPos(e)[2] + 1]
      BY <3>2
    <3> HIDE DEF W
    <3>4. QED
      BY <3>2, <3>3 DEF Together
  <2>2. Together(SWidth, W) \subseteq S
    BY DEF Together
  <2>3. QED
    BY <2>1, <2>2
<1> HIDE DEF q, W, Vals, S
<1>6. Enumerates(FlattenSeq(q), Together(SWidth, W))
  BY <1>1, <1>2, <1>3, <1>4, EnumeratesAll
<1>7. Enumerates(MetLocally, S)
  BY <1>5, <1>6 DEF MetLocally, q
<1>8. QED
  BY <1>7 DEF S

(* What is owed at the positions of a part.                                *)
OwedIn(part) == [at \in part |-> Owed(at)]

LEMMA CompressedLocally ==
  ASSUME TaskOK, Rank = {Root}
  PROVE  Listed(Compress(MetLocally), <<0, 0>>, OwedIn(Positions(SHeight, SWidth)))
<1> DEFINE M == {MetOf(e) : e \in All}
           part == Positions(SHeight, SWidth)
           W == OwedIn(part)
<1>1. \A e \in All : MetOf(e)[3] = <<Term(e)>> /\ Range(<<Term(e)>>) = {Term(e)}
  BY DEF MetOf, Range
<1>2. \A e \in All : Enumerates(<<Term(e)>>, {Term(e)})
  BY DEF Enumerates
<1>3. \A e \in All : FinalPos(e) \in part /\ <<MetOf(e)[1], MetOf(e)[2]>> = FinalPos(e)
  BY Entry DEF MetOf, Positions
<1>4. DOMAIN W = part /\ part \subseteq Nat \X Nat
  BY DEF OwedIn, Positions
<1>5. \A m \in M : /\ <<m[1], m[2]>> \in DOMAIN W
                   /\ Range(m[3]) # {} /\ Enumerates(m[3], Range(m[3]))
  BY <1>1, <1>2, <1>3, <1>4
<1>6. ASSUME NEW e \in All, NEW f \in All, MetOf(e) # MetOf(f)
      PROVE  Range(MetOf(e)[3]) \cap Range(MetOf(f)[3]) = {}
  <2>1. Term(e) # Term(f)
    BY <1>6, TermOfOne
  <2>2. QED
    BY <1>1, <2>1
<1>7. ASSUME NEW at \in part
      PROVE  W[at] = UNION {Range(m[3]) : m \in {m \in M : <<m[1], m[2]>> = at}}
  <2>1. W[at] = {Term(e) : e \in {e \in All : FinalPos(e) = at}}
    BY DEF OwedIn, Owed, TermsIn
  <2>2. ASSUME NEW e \in All, FinalPos(e) = at
        PROVE  \E m \in M : <<m[1], m[2]>> = at /\ Term(e) \in Range(m[3])
    BY <1>1, <1>3, <2>2
  <2>3. ASSUME NEW e \in All, <<MetOf(e)[1], MetOf(e)[2]>> = at,
               NEW x \in Range(MetOf(e)[3])
        PROVE  x \in W[at]
    BY <1>1, <1>3, <2>1, <2>3
  <2> HIDE DEF W
  <2>4. QED
    BY <2>1, <2>2, <2>3
<1>8. PieceSet(M, W)
  <2>1. \A l, m \in M : l # m => Range(l[3]) \cap Range(m[3]) = {}
    BY <1>6
  <2> HIDE DEF M, W, part
  <2>2. QED
    BY <1>4, <1>5, <1>7, <2>1 DEF PieceSet
<1> HIDE DEF W, part
<1>9. Enumerates(MetLocally, M)
  BY MetLocallyEnumerates
<1> HIDE DEF M
<1>10. Pieces(MetLocally, W)
  BY <1>8, <1>9, PiecesMet
<1>11. Listed(Compress(MetLocally), <<0, 0>>, W)
  BY <1>10, CompressLists
<1>12. QED
  BY <1>11 DEF W, part
-----------------------------------------------------------------------------
(***************************************************************************)
(* The maps that are gathered.                                             *)
(***************************************************************************)
LEMMA Keyed ==
  ASSUME TaskOK, NEW at \in Positions(SHeight, SWidth)
  PROVE  /\ Key(at) \in 0 .. SHeight * SWidth /\ AtKey(Key(at)) = at
         /\ at = <<at[1], at[2]>>
<1>1. SHeight \in Nat \ {0} /\ SWidth \in Nat \ {0}
  BY TaskNumbers DEF Columnwise
<1>2. at = <<at[1], at[2]>> /\ at[1] \in 0 .. SHeight - 1 /\ at[2] \in 0 .. SWidth - 1
      /\ at[2] \in Nat
  BY DEF Positions
<1> DEFINE h == SHeight
           w == SWidth
           i == at[1]
           j == at[2]
<1>3. Key(at) = j * h + i /\ AtKey(Key(at)) = <<Key(at) % h, Key(at) \div h>>
  BY DEF Key, AtKey
<1>4. h \in Nat \ {0} /\ w \in Nat \ {0} /\ i \in 0 .. h - 1 /\ j \in 0 .. w - 1
      /\ j \in Nat
  BY <1>1, <1>2
<1> HIDE DEF h, w, i, j
<1>5. i + j * h \in 0 .. h * w - 1
  BY <1>4, NumberOfPlace
<1>6. j * h + i = i + j * h /\ j * h + i = h * j + i
  BY <1>4
<1>7. (h * j + i) \div h = j /\ (h * j + i) % h = i
  BY <1>4, DivUnique
<1>8. Key(at) \in 0 .. h * w
  <2> DEFINE z == h * w
             x == i + j * h
  <2>1. z \in Nat /\ x \in 0 .. z - 1 /\ Key(at) = x
    BY <1>3, <1>4, <1>5, <1>6
  <2> HIDE DEF z, x
  <2>2. Key(at) \in 0 .. z
    BY <2>1
  <2>3. QED
    BY <2>2 DEF z
<1>9. QED
  BY <1>2, <1>3, <1>6, <1>7, <1>8 DEF h, w, i, j

(* Where in the sketch the entries of a process go.                        *)
Ats(p) == {FinalPos(e) : e \in task.A[p]}

LEMMA AtsWithin ==
  ASSUME TaskOK, NEW p \in Rank
  PROVE  /\ Ats(p) \subseteq Positions(SHeight, SWidth)
         /\ \A at : at \in Ats(p) <=> TermsIn(task.A[p], at) # {}
         /\ \A at : Enumerates(TermsAt(task.A[p], at), TermsIn(task.A[p], at))
<1>1. task.A[p] \subseteq All /\ IsFiniteSet(task.A[p])
  BY EntriesOfA DEF All
<1>2. Ats(p) \subseteq Positions(SHeight, SWidth)
  BY <1>1, Entry DEF Ats
<1>3. \A at : at \in Ats(p) <=> TermsIn(task.A[p], at) # {}
  BY DEF Ats, TermsIn
<1>4. \A at : Enumerates(TermsAt(task.A[p], at), TermsIn(task.A[p], at))
  BY <1>1, TermsAtEnumerates
<1>5. QED
  BY <1>2, <1>3, <1>4

LEMMA Mapped ==
  ASSUME TaskOK, NEW p \in Rank
  PROVE  /\ DOMAIN ColValues(p) = {Key(at) : at \in Ats(p)}
         /\ \A at \in Ats(p) : ColValues(p)[Key(at)] = TermsAt(task.A[p], at)
<1> DEFINE ats == Ats(p)
           map == [key \in {Key(at) : at \in ats} |->
                     TermsAt(task.A[p], CHOOSE at \in ats : Key(at) = key)]
<1>1. ColValues(p) = map
  BY DEF ColValues, Ats
<1>2. ASSUME NEW at \in ats PROVE map[Key(at)] = TermsAt(task.A[p], at)
  <2>1. \A bt \in ats : Key(bt) = Key(at) => bt = at
    BY AtsWithin, Keyed
  <2>2. (CHOOSE bt \in ats : Key(bt) = Key(at)) = at
    BY <2>1
  <2>3. QED
    BY <2>2
<1>3. QED
  BY <1>1, <1>2

(* A piece of a map.                                                       *)
PieceOf(p, at) == <<at[1], at[2], TermsAt(task.A[p], at)>>

LEMMA PieceTerms ==
  ASSUME TaskOK, NEW p \in Rank, NEW at \in Ats(p)
  PROVE  /\ PieceOf(p, at)[3] = TermsAt(task.A[p], at)
         /\ <<PieceOf(p, at)[1], PieceOf(p, at)[2]>> = at
         /\ Range(PieceOf(p, at)[3]) = TermsIn(task.A[p], at)
         /\ Range(PieceOf(p, at)[3]) # {}
         /\ Enumerates(PieceOf(p, at)[3], Range(PieceOf(p, at)[3]))
<1>1. Enumerates(TermsAt(task.A[p], at), TermsIn(task.A[p], at))
      /\ TermsIn(task.A[p], at) # {} /\ at \in Positions(SHeight, SWidth)
  BY AtsWithin
<1>2. Range(TermsAt(task.A[p], at)) = TermsIn(task.A[p], at)
  BY <1>1, EnumeratesRange
<1>3. at = <<at[1], at[2]>>
  BY <1>1, Keyed
<1>4. PieceOf(p, at)[3] = TermsAt(task.A[p], at) /\ <<PieceOf(p, at)[1], PieceOf(p, at)[2]>> = at
  BY <1>3 DEF PieceOf
<1>5. QED
  BY <1>1, <1>2, <1>4

LEMMA PiecesApart ==
  ASSUME TaskOK, task.input # S_S, NEW p \in Rank, NEW q \in Rank,
         NEW at \in Ats(p), NEW bt \in Ats(q), p # q \/ at # bt
  PROVE  Range(PieceOf(p, at)[3]) \cap Range(PieceOf(q, bt)[3]) = {}
<1>1. task.A[p] \subseteq All /\ task.A[q] \subseteq All
  BY DEF All
<1>2. task.A[p] \cap task.A[q] = {} \/ at # bt
  BY HeldApart
<1>3. TermsIn(task.A[p], at) \cap TermsIn(task.A[q], bt) = {}
  BY <1>1, <1>2, TermsApart
<1>4. QED
  BY <1>3, PieceTerms

(* What is met in column c of the sketch, in the map of one process.       *)
MapList(c, p) ==
  LET keys == InOrder({key \in DOMAIN ColValues(p) : AtKey(key)[2] = c})
  IN  [k \in DOMAIN keys |-> <<AtKey(keys[k])[1], c, ColValues(p)[keys[k]]>>]

MapPieces(c, p) == {PieceOf(p, at) : at \in {at \in Ats(p) : at[2] = c}}

LEMMA MetInMap ==
  ASSUME TaskOK, NEW p \in Rank, NEW c
  PROVE  Enumerates(MapList(c, p), MapPieces(c, p))
<1> DEFINE map == ColValues(p)
           S == {key \in DOMAIN map : AtKey(key)[2] = c}
           keys == InOrder(S)
           g == [key \in S |-> <<AtKey(key)[1], c, map[key]>>]
           t == [k \in 1 .. Len(keys) |-> g[keys[k]]]
           A == {at \in Ats(p) : at[2] = c}
<1>1. SHeight * SWidth \in Nat
  BY TaskNumbers, Squares DEF Columnwise
<1>2. S = {Key(at) : at \in A}
  <2>1. DOMAIN map = {Key(at) : at \in Ats(p)}
    BY Mapped
  <2>2. \A at \in Ats(p) : AtKey(Key(at)) = at
    BY AtsWithin, Keyed
  <2> HIDE DEF map
  <2>3. QED
    BY <2>1, <2>2
<1>3. S \subseteq 0 .. SHeight * SWidth
  BY <1>2, AtsWithin, Keyed
<1>4. Enumerates(keys, S)
  <2> HIDE DEF S
  <2>1. QED
    BY <1>1, <1>3, InOrderEnumerates
<1>5. ASSUME NEW at \in A
      PROVE  Key(at) \in S /\ g[Key(at)] = PieceOf(p, at) /\ AtKey(Key(at)) = at
             /\ at = <<at[1], c>>
  <2>1. AtKey(Key(at)) = at /\ at = <<at[1], at[2]>> /\ at[2] = c
    BY AtsWithin, Keyed
  <2>2. map[Key(at)] = TermsAt(task.A[p], at)
    BY Mapped
  <2>3. Key(at) \in S
    BY <1>2
  <2> HIDE DEF S, map
  <2>4. QED
    BY <2>1, <2>2, <2>3 DEF PieceOf
<1>6. \A x, y \in S : g[x] = g[y] => x = y
  <2> SUFFICES ASSUME NEW a \in A, NEW b \in A, g[Key(a)] = g[Key(b)]
               PROVE  Key(a) = Key(b)
    BY <1>2
  <2>1. PieceOf(p, a) = PieceOf(p, b) /\ a = <<a[1], c>> /\ b = <<b[1], c>>
    <3> HIDE DEF g, A, S
    <3>1. QED
      BY <1>5
  <2>2. a[1] = b[1]
    BY <2>1 DEF PieceOf
  <2>3. QED
    BY <2>1, <2>2
<1>7. Enumerates(t, {g[x] : x \in S})
  <2> HIDE DEF g, S, keys
  <2>1. QED
    BY <1>4, <1>6, EnumeratesMapped
<1>8. {g[x] : x \in S} = {PieceOf(p, at) : at \in A}
  <2> HIDE DEF g, S, A
  <2>1. QED
    BY <1>2, <1>5
<1>9. DOMAIN keys = 1 .. Len(keys) /\ \A k \in 1 .. Len(keys) : keys[k] \in S
  <2> HIDE DEF keys, S
  <2>1. DOMAIN keys = 1 .. Len(keys) /\ keys \in Seq(S)
    BY <1>4, EnumeratesRange
  <2>2. QED
    BY <2>1
<1>10. MapList(c, p) = [k \in DOMAIN keys |-> <<AtKey(keys[k])[1], c, map[keys[k]]>>]
  BY DEF MapList
<1>11. \A k \in 1 .. Len(keys) : g[keys[k]] = <<AtKey(keys[k])[1], c, map[keys[k]]>>
  <2> HIDE DEF keys, S
  <2>1. QED
    BY <1>9
<1>12. MapList(c, p) = t
  <2> HIDE DEF keys, S, g, map
  <2>1. QED
    BY <1>9, <1>10, <1>11
<1>13. QED
  BY <1>7, <1>8, <1>12 DEF MapPieces

(* Of one column of the sketch, over all processes; and of all columns.    *)
MapsInColumn(c) == UNION {MapPieces(c, p) : p \in Rank}
AllPieces == UNION {MapsInColumn(c) : c \in 0 .. SWidth - 1}

LEMMA ColumnMet ==
  ASSUME TaskOK, task.input # S_S, NEW c
  PROVE  Enumerates(FlattenSeq([v \in 1 .. P |-> MapList(c, Process(v - 1))]),
                    MapsInColumn(c))
<1> DEFINE q == [v \in 1 .. P |-> MapList(c, Process(v - 1))]
           W == [v \in 1 .. P |-> MapPieces(c, Process(v - 1))]
           Vals == {q[v] : v \in 1 .. P}
<1>1. P \in Nat
  BY TaskNumbers
<1>2. q \in [1 .. P -> Vals]
  OBVIOUS
<1>3. \A v \in 1 .. P : Process(v - 1) \in Rank
  BY <1>1, Numbered
<1>4. ASSUME NEW v \in 1 .. P PROVE Enumerates(q[v], W[v])
  BY <1>3, MetInMap
<1>5. ASSUME NEW v \in 1 .. P, NEW w \in 1 .. P, v # w PROVE W[v] \cap W[w] = {}
  <2> SUFFICES ASSUME NEW at \in Ats(Process(v - 1)), NEW bt \in Ats(Process(w - 1)),
                      PieceOf(Process(v - 1), at) = PieceOf(Process(w - 1), bt)
               PROVE  FALSE
    BY DEF MapPieces
  <2>1. Process(v - 1) # Process(w - 1)
    <3>1. v - 1 \in 0 .. P - 1 /\ w - 1 \in 0 .. P - 1 /\ v - 1 # w - 1
      BY <1>1, <1>5
    <3>2. QED
      BY <3>1, Numbered
  <2> DEFINE a == Process(v - 1)
             b == Process(w - 1)
  <2>2. a \in Rank /\ b \in Rank /\ a # b /\ at \in Ats(a) /\ bt \in Ats(b)
        /\ PieceOf(a, at) = PieceOf(b, bt)
    BY <1>3, <2>1
  <2> HIDE DEF a, b
  <2>3. Range(PieceOf(a, at)[3]) \cap Range(PieceOf(b, bt)[3]) = {}
        /\ Range(PieceOf(a, at)[3]) # {}
    BY <2>2, PiecesApart, PieceTerms
  <2>4. QED
    BY <2>2, <2>3
<1>6. Together(P, W) = MapsInColumn(c)
  <2>1. \A p \in Rank : \E v \in 1 .. P : p = Process(v - 1)
    <3> SUFFICES ASSUME NEW p \in Rank PROVE \E v \in 1 .. P : p = Process(v - 1)
      OBVIOUS
    <3>1. Number(task.grid, p) \in 0 .. P - 1
          /\ Process(Number(task.grid, p)) = p
      BY Numbered
    <3>2. Number(task.grid, p) + 1 \in 1 .. P
          /\ (Number(task.grid, p) + 1) - 1 = Number(task.grid, p)
      BY <1>1, <3>1
    <3>3. QED
      BY <3>1, <3>2
  <2>2. ASSUME NEW p \in Rank PROVE MapPieces(c, p) \subseteq Together(P, W)
    <3>1. PICK v \in 1 .. P : p = Process(v - 1)
      BY <2>1
    <3>2. W[v] = MapPieces(c, p)
      BY <3>1
    <3> HIDE DEF W
    <3>3. QED
      BY <3>2 DEF Together
  <2>3. Together(P, W) \subseteq MapsInColumn(c)
    BY <1>3 DEF Together, MapsInColumn
  <2>4. QED
    BY <2>2, <2>3 DEF MapsInColumn
<1> HIDE DEF q, W, Vals
<1>7. Enumerates(FlattenSeq(q), Together(P, W))
  BY <1>1, <1>2, <1>4, <1>5, EnumeratesAll
<1>8. QED
  BY <1>6, <1>7 DEF q

LEMMA MetInMapsEnumerates ==
  ASSUME TaskOK, task.input # S_S, \A p \in Rank : sums[p] = ColValues(p)
  PROVE  Enumerates(MetInMaps, AllPieces)
<1> DEFINE q == [c \in 1 .. SWidth |->
                   FlattenSeq([v \in 1 .. P |-> MapList(c - 1, Process(v - 1))])]
           W == [c \in 1 .. SWidth |-> MapsInColumn(c - 1)]
           Vals == {q[c] : c \in 1 .. SWidth}
<1>1. SWidth \in Nat /\ P \in Nat
  BY TaskNumbers
<1>2. \A v \in 1 .. P : sums[Process(v - 1)] = ColValues(Process(v - 1))
  BY <1>1, Numbered
<1>3. MetInMaps = FlattenSeq(q)
  <2> DEFINE met(c, map) ==
               LET keys == InOrder({key \in DOMAIN map : AtKey(key)[2] = c})
               IN  [k \in DOMAIN keys |-> <<AtKey(keys[k])[1], c, map[keys[k]]>>]
  <2>1. MetInMaps = FlattenSeq([c \in 1 .. SWidth |->
           FlattenSeq([v \in 1 .. P |-> met(c - 1, sums[Process(v - 1)])])])
    BY DEF MetInMaps
  <2>2. \A c, p : met(c, ColValues(p)) = MapList(c, p)
    BY DEF MapList
  <2> HIDE DEF met
  <2>3. \A c \in 1 .. SWidth :
          [v \in 1 .. P |-> met(c - 1, sums[Process(v - 1)])]
            = [v \in 1 .. P |-> MapList(c - 1, Process(v - 1))]
    BY <1>2, <2>2
  <2>4. QED
    BY <2>1, <2>3
<1>4. q \in [1 .. SWidth -> Vals]
  OBVIOUS
<1>5. ASSUME NEW c \in 1 .. SWidth PROVE Enumerates(q[c], W[c])
  <2> DEFINE d == c - 1
  <2>1. q[c] = FlattenSeq([v \in 1 .. P |-> MapList(d, Process(v - 1))])
        /\ W[c] = MapsInColumn(d)
    OBVIOUS
  <2> HIDE DEF d, q, W
  <2>2. QED
    BY <2>1, ColumnMet
<1>6. ASSUME NEW c \in 1 .. SWidth, NEW d \in 1 .. SWidth, c # d
      PROVE  W[c] \cap W[d] = {}
  <2> SUFFICES ASSUME NEW m, m \in W[c], m \in W[d] PROVE FALSE
    OBVIOUS
  <2>1. m[2] = c - 1 /\ m[2] = d - 1
    BY DEF MapsInColumn, MapPieces, PieceOf
  <2>2. QED
    BY <1>1, <1>6, <2>1
<1>7. Together(SWidth, W) = AllPieces
  <2>1. \A d \in 0 .. SWidth - 1 : d + 1 \in 1 .. SWidth /\ (d + 1) - 1 = d
    BY <1>1
  <2>2. ASSUME NEW d \in 0 .. SWidth - 1 PROVE MapsInColumn(d) \subseteq Together(SWidth, W)
    <3>1. W[d + 1] = MapsInColumn(d) /\ d + 1 \in 1 .. SWidth
      BY <2>1
    <3> HIDE DEF W
    <3>2. QED
      BY <3>1 DEF Together
  <2>3. ASSUME NEW c \in 1 .. SWidth PROVE W[c] \subseteq AllPieces
    <3>1. c - 1 \in 0 .. SWidth - 1
      BY <1>1
    <3>2. QED
      BY <3>1 DEF AllPieces
  <2> HIDE DEF W
  <2>4. QED
    BY <2>2, <2>3 DEF AllPieces, Together
<1> HIDE DEF q, W, Vals
<1>8. Enumerates(FlattenSeq(q), Together(SWidth, W))
  BY <1>1, <1>4, <1>5, <1>6, EnumeratesAll
<1>9. QED
  BY <1>3, <1>7, <1>8

LEMMA CompressedMaps ==
  ASSUME TaskOK, task.input # S_S, \A p \in Rank : sums[p] = ColValues(p)
  PROVE  Listed(Compress(MetInMaps), <<0, 0>>, OwedIn(Positions(SHeight, SWidth)))
<1> DEFINE part == Positions(SHeight, SWidth)
           W == OwedIn(part)
           M == AllPieces
<1>1. DOMAIN W = part /\ part \subseteq Nat \X Nat /\ \A at \in part : W[at] = Owed(at)
  BY DEF OwedIn, Positions
<1>2. ASSUME NEW m \in M
      PROVE  \E p \in Rank : \E at \in Ats(p) : m = PieceOf(p, at)
  BY DEF AllPieces, MapsInColumn, MapPieces
<1>3. ASSUME NEW p \in Rank, NEW at \in Ats(p)
      PROVE  PieceOf(p, at) \in M /\ at \in part
  <2>1. at \in part
    BY AtsWithin
  <2>2. at[2] \in 0 .. SWidth - 1
    BY <2>1 DEF Positions
  <2>3. QED
    BY <2>1, <2>2 DEF AllPieces, MapsInColumn, MapPieces
<1> HIDE DEF part
<1>4. ASSUME NEW m \in M
      PROVE  /\ <<m[1], m[2]>> \in DOMAIN W
             /\ Range(m[3]) # {} /\ Enumerates(m[3], Range(m[3]))
  <2>1. PICK p \in Rank : \E at \in Ats(p) : m = PieceOf(p, at)
    BY <1>2
  <2>2. PICK at \in Ats(p) : m = PieceOf(p, at)
    BY <2>1
  <2> HIDE DEF M, W
  <2>3. QED
    BY <1>1, <1>3, <2>2, PieceTerms
<1>5. ASSUME NEW l \in M, NEW m \in M, l # m
      PROVE  Range(l[3]) \cap Range(m[3]) = {}
  <2>1. PICK p \in Rank : \E at \in Ats(p) : l = PieceOf(p, at)
    BY <1>2
  <2>2. PICK at \in Ats(p) : l = PieceOf(p, at)
    BY <2>1
  <2>3. PICK q \in Rank : \E bt \in Ats(q) : m = PieceOf(q, bt)
    BY <1>2
  <2>4. PICK bt \in Ats(q) : m = PieceOf(q, bt)
    BY <2>3
  <2>5. p # q \/ at # bt
    BY <1>5, <2>2, <2>4
  <2>6. QED
    BY <2>2, <2>4, <2>5, PiecesApart
<1>6. ASSUME NEW at \in part
      PROVE  W[at] = UNION {Range(m[3]) : m \in {m \in M : <<m[1], m[2]>> = at}}
  <2> DEFINE U == UNION {Range(m[3]) : m \in {m \in M : <<m[1], m[2]>> = at}}
  <2>1. W[at] = {Term(e) : e \in {e \in All : FinalPos(e) = at}}
    BY <1>1 DEF Owed, TermsIn
  <2>2. ASSUME NEW e \in All, FinalPos(e) = at PROVE Term(e) \in U
    <3>1. PICK p \in Rank : e \in task.A[p]
      BY DEF All
    <3>2. at \in Ats(p) /\ Term(e) \in TermsIn(task.A[p], at)
      BY <2>2, <3>1 DEF Ats, TermsIn
    <3>3. Term(e) \in Range(PieceOf(p, at)[3]) /\ PieceOf(p, at) \in M
          /\ <<PieceOf(p, at)[1], PieceOf(p, at)[2]>> = at
      BY <1>3, <3>2, PieceTerms
    <3> HIDE DEF M
    <3>4. QED
      BY <3>3
  <2>3. ASSUME NEW m \in M, <<m[1], m[2]>> = at, NEW x \in Range(m[3]) PROVE x \in W[at]
    <3>1. PICK p \in Rank : \E bt \in Ats(p) : m = PieceOf(p, bt)
      BY <1>2
    <3>2. PICK bt \in Ats(p) : m = PieceOf(p, bt)
      BY <3>1
    <3>3. bt = at /\ x \in TermsIn(task.A[p], at)
      BY <2>3, <3>2, PieceTerms
    <3>4. task.A[p] \subseteq All
      BY DEF All
    <3>5. QED
      BY <2>1, <3>3, <3>4 DEF TermsIn
  <2>4. \A x \in U : x \in W[at]
    BY <2>3
  <2>5. \A x \in W[at] : x \in U
    BY <2>1, <2>2
  <2> HIDE DEF U, W
  <2>6. W[at] = U
    BY <2>4, <2>5
  <2>7. QED
    BY <2>6 DEF U
<1>7. PieceSet(M, W)
  <2> HIDE DEF M, W
  <2>1. QED
    BY <1>1, <1>4, <1>5, <1>6 DEF PieceSet
<1>8. Enumerates(MetInMaps, M)
  BY MetInMapsEnumerates
<1> HIDE DEF W, M
<1>9. Pieces(MetInMaps, W)
  BY <1>7, <1>8, PiecesMet
<1>10. Listed(Compress(MetInMaps), <<0, 0>>, W)
  BY <1>9, CompressLists
<1>11. QED
  BY <1>10 DEF W, part

(* Update finds in a map what its process has for an entry of the sketch.  *)
LEMMA UpdatedOf ==
  ASSUME TaskOK, NEW p \in Rank, NEW at \in Positions(SHeight, SWidth),
         NEW map, map = ColValues(p),
         NEW keys, keys = SetToSeq({key \in DOMAIN map : AtKey(key) = at})
  PROVE  Enumerates(FlattenSeq([k \in DOMAIN keys |-> map[keys[k]]]),
                    TermsIn(task.A[p], at))
<1> DEFINE S == {key \in DOMAIN map : AtKey(key) = at}
           q == [k \in DOMAIN keys |-> map[keys[k]]]
           n == Len(keys)
           T == TermsIn(task.A[p], at)
           W == [k \in 1 .. n |-> T]
           Vals == {q[k] : k \in 1 .. n}
<1>1. DOMAIN map = {Key(bt) : bt \in Ats(p)}
      /\ \A bt \in Ats(p) : map[Key(bt)] = TermsAt(task.A[p], bt)
  BY Mapped
<1>2. \A bt \in Ats(p) : AtKey(Key(bt)) = bt
  BY AtsWithin, Keyed
<1>3. S = IF at \in Ats(p) THEN {Key(at)} ELSE {}
  BY <1>1, <1>2
<1>4. IsFiniteSet(S)
  <2>1. IsFiniteSet({}) /\ IsFiniteSet({Key(at)})
    BY FS_EmptySet, FS_Singleton
  <2>2. QED
    BY <1>3, <2>1
<1>5. Enumerates(keys, S)
  BY <1>4, SetToSeqEnumerates
<1>6. DOMAIN keys = 1 .. n /\ keys \in Seq(S) /\ n \in Nat
  BY <1>5, EnumeratesRange
<1>7. \A k \in 1 .. n : keys[k] \in S
  BY <1>6
<1>8. Enumerates(TermsAt(task.A[p], at), T) /\ (at \in Ats(p) <=> T # {})
  BY AtsWithin
<1> HIDE DEF S, T
<1>9. ASSUME NEW k \in 1 .. n PROVE Enumerates(q[k], W[k]) /\ at \in Ats(p)
  <2>1. keys[k] = Key(at) /\ at \in Ats(p)
    BY <1>3, <1>7
  <2>2. q[k] = TermsAt(task.A[p], at)
    BY <1>1, <1>6, <2>1
  <2> HIDE DEF q
  <2>3. QED
    BY <1>8, <2>1, <2>2
<1>10. ASSUME NEW j \in 1 .. n, NEW k \in 1 .. n, j # k PROVE W[j] \cap W[k] = {}
  <2>1. keys[j] = Key(at) /\ keys[k] = Key(at)
    BY <1>3, <1>7
  <2>2. j = k
    BY <1>5, <2>1 DEF Enumerates
  <2>3. QED
    BY <1>10, <2>2
<1>11. Together(n, W) = T
  <2>1. CASE at \in Ats(p)
    <3>1. PICK k \in 1 .. n : keys[k] = Key(at)
      BY <1>3, <1>5, <2>1 DEF Enumerates
    <3>2. QED
      BY <3>1 DEF Together
  <2>2. CASE at \notin Ats(p)
    <3>1. T = {}
      BY <1>8, <2>2
    <3>2. QED
      BY <3>1 DEF Together
  <2>3. QED
    BY <2>1, <2>2
<1>12. q \in [1 .. n -> Vals]
  BY <1>6
<1> HIDE DEF q, W, Vals, n
<1>13. Enumerates(FlattenSeq(q), Together(n, W))
  BY <1>6, <1>9, <1>10, <1>12, EnumeratesAll
<1>14. QED
  BY <1>11, <1>13 DEF q, T

LEMMA GatherUpdates ==
  ASSUME TaskOK, task.input # S_S, \A p \in Rank : sums[p] = ColValues(p),
         NEW held, DOMAIN held \subseteq Positions(SHeight, SWidth),
         \A at \in DOMAIN held : held[at] = << >>
  PROVE  /\ DOMAIN Updated(held) = DOMAIN held
         /\ \A at \in DOMAIN held : Enumerates(Updated(held)[at], Owed(at))
<1> DEFINE of(map, at) ==
             LET keys == SetToSeq({key \in DOMAIN map : AtKey(key) = at})
             IN  FlattenSeq([k \in DOMAIN keys |-> map[keys[k]]])
           q(at) == [v \in 1 .. P |-> of(sums[Process(v - 1)], at)]
<1>1. Updated(held) = [at \in DOMAIN held |-> held[at] \o FlattenSeq(q(at))]
  BY DEF Updated
<1>2. P \in Nat
  BY TaskNumbers
<1>3. ASSUME NEW at \in DOMAIN held
      PROVE  Enumerates(held[at] \o FlattenSeq(q(at)), Owed(at))
  <2> DEFINE s == q(at)
  <2>1. ASSUME NEW v \in 1 .. P
        PROVE  Enumerates(s[v], TermsIn(task.A[Process(v - 1)], at))
    <3> DEFINE p == Process(v - 1)
               map == ColValues(p)
               keys == SetToSeq({key \in DOMAIN map : AtKey(key) = at})
    <3>1. p \in Rank /\ sums[p] = map
      BY <1>2, Numbered
    <3>2. s[v] = FlattenSeq([k \in DOMAIN keys |-> map[keys[k]]])
      BY <3>1
    <3>3. at \in Positions(SHeight, SWidth)
      OBVIOUS
    <3> DEFINE KS == {key \in DOMAIN map : AtKey(key) = at}
    <3>4. keys = SetToSeq({key \in DOMAIN map : AtKey(key) = at}) /\ map = ColValues(p)
      OBVIOUS
    <3> HIDE DEF s, p, map, keys
    <3>5. Enumerates(FlattenSeq([k \in DOMAIN keys |-> map[keys[k]]]),
                     TermsIn(task.A[p], at))
      BY <3>1, <3>3, <3>4, UpdatedOf
    <3>6. QED
      BY <3>2, <3>5 DEF p
  <2>2. s = [v \in 1 .. P |-> s[v]]
    OBVIOUS
  <2> HIDE DEF s
  <2>3. Enumerates(FlattenSeq(s), Owed(at))
    BY <2>1, <2>2, Everybody
  <2>4. FlattenSeq(s) \in Seq(Owed(at))
    BY <2>3 DEF Enumerates
  <2>5. held[at] \o FlattenSeq(s) = FlattenSeq(s)
    BY <2>4
  <2>6. QED
    BY <2>3, <2>5 DEF s
<1> HIDE DEF q
<1>4. QED
  BY <1>1, <1>3
-----------------------------------------------------------------------------
(***************************************************************************)
(* Sums that are reduced.                                                  *)
(***************************************************************************)
LEMMA ReducesEverybody ==
  ASSUME TaskOK, task.input # S_S, \A p \in Rank : sums[p] = SA_part(p),
         NEW at \in Positions(SHeight, SWidth)
  PROVE  Enumerates(Reduced(Everyone, at), Owed(at))
<1> DEFINE q == [v \in 1 .. P |-> sums[Process(v - 1)][at]]
<1>1. P \in Nat /\ Len(Everyone) = P /\ \A v \in 1 .. P : Everyone[v] = Process(v - 1)
  BY TaskNumbers DEF Everyone
<1>2. Reduced(Everyone, at) = FlattenSeq(q)
  BY <1>1 DEF Reduced
<1>3. ASSUME NEW v \in 1 .. P
      PROVE  Enumerates(q[v], TermsIn(task.A[Process(v - 1)], at))
  <2>1. Process(v - 1) \in Rank
    BY <1>1, Numbered
  <2>2. q[v] = TermsAt(task.A[Process(v - 1)], at)
    BY <2>1 DEF SA_part, SumsOver
  <2>3. QED
    BY <2>1, <2>2, AtsWithin
<1>4. q = [v \in 1 .. P |-> q[v]]
  OBVIOUS
<1> HIDE DEF q
<1>5. QED
  BY <1>2, <1>3, <1>4, Everybody

LEMMA ReducesAlone ==
  ASSUME TaskOK, NEW p \in Rank, sums[p] = SA_part(p),
         NEW at \in Positions(SHeight, SWidth)
  PROVE  Enumerates(Reduced(<<p>>, at), TermsIn(task.A[p], at))
<1>1. Reduced(<<p>>, at) = FlattenSeq(<<sums[p][at]>>)
  <2>1. [v \in 1 .. Len(<<p>>) |-> sums[<<p>>[v]][at]] = <<sums[p][at]>>
    OBVIOUS
  <2>2. QED
    BY <2>1 DEF Reduced
<1>2. sums[p][at] = TermsAt(task.A[p], at)
  BY DEF SA_part, SumsOver
<1>3. Enumerates(sums[p][at], TermsIn(task.A[p], at))
  BY <1>2, AtsWithin
<1> DEFINE q == <<sums[p][at]>>
           T == TermsIn(task.A[p], at)
           W == [k \in 1 .. 1 |-> T]
           Vals == {q[1]}
<1>4. q \in [1 .. 1 -> Vals] /\ 1 \in Nat
  OBVIOUS
<1>5. \A k \in 1 .. 1 : Enumerates(q[k], W[k])
  BY <1>3
<1>6. \A j, k \in 1 .. 1 : j # k => W[j] \cap W[k] = {}
  OBVIOUS
<1>7. Together(1, W) = T
  BY DEF Together
<1> HIDE DEF q, W, Vals
<1>8. Enumerates(FlattenSeq(q), Together(1, W))
  BY <1>4, <1>5, <1>6, EnumeratesAll
<1>9. QED
  BY <1>1, <1>7, <1>8 DEF q
-----------------------------------------------------------------------------
(***************************************************************************)
(* The parts of the sketch.                                                *)
(***************************************************************************)
LEMMA SketchSizes ==
  ASSUME TaskOK
  PROVE  SHeight \in Nat \ {0} /\ SWidth \in Nat \ {0} /\ SHeight \in Nat /\ SWidth \in Nat
BY TaskNumbers DEF Columnwise

LEMMA SketchParts ==
  ASSUME TaskOK, NEW p \in Rank
  PROVE  /\ task.SA[p] \subseteq Positions(SHeight, SWidth)
         /\ task.output \in Gridded =>
              task.SA[p] = {at \in Positions(SHeight, SWidth) :
                              /\ Holds(task.output[1], at[1], p)
                              /\ Holds(task.output[2], at[2], p)}
         /\ task.output \in Whole =>
              task.SA[p] = IF p = Root THEN Positions(SHeight, SWidth) ELSE {}
         /\ task.output = SpParMat =>
              task.SA[p] = Block(task.grid[1], SHeight, Place(task.grid, p)[1])
                             \X Block(task.grid[1], SWidth, Place(task.grid, p)[2])
<1>1. task.SA[p] = HeldOf(task.grid, task.output, <<SHeight, SWidth>>, p)
  BY DEF TaskOK
<1>2. SHeight \in Nat \ {0} /\ SWidth \in Nat \ {0} /\ SHeight \in Nat /\ SWidth \in Nat
  BY SketchSizes
<1> DEFINE h == SHeight
           w == SWidth
<1> HIDE DEF h, w
<1>3. task.output \in Gridded =>
        task.SA[p] = {at \in Positions(h, w) : /\ Holds(task.output[1], at[1], p)
                                               /\ Holds(task.output[2], at[2], p)}
  BY <1>1, <1>2, HeldGridded DEF h, w
<1>4. task.output \in Whole => task.SA[p] = IF p = Root THEN Positions(h, w) ELSE {}
  <2>1. h \in Nat /\ w \in Nat
    BY <1>2 DEF h, w
  <2>2. \A type \in Whole : HeldOf(task.grid, type, <<h, w>>, p) =
                              IF p = Root THEN Positions(h, w) ELSE {}
    BY <2>1, HeldOthers
  <2>3. task.SA[p] = HeldOf(task.grid, task.output, <<h, w>>, p)
    BY <1>1 DEF h, w
  <2>4. QED
    BY <2>2, <2>3
<1>5. task.output = SpParMat =>
        task.SA[p] = Block(task.grid[1], h, Place(task.grid, p)[1])
                       \X Block(task.grid[1], w, Place(task.grid, p)[2])
  BY <1>1, <1>2, HeldOthers DEF h, w
<1>6. task.SA[p] \subseteq Positions(h, w)
  <2>1. CASE task.output \in Gridded
    BY <1>3, <2>1
  <2>2. CASE task.output \in Whole
    BY <1>4, <2>2
  <2>3. CASE task.output = MultiVec
    <3>1. task.SA[p] = Consecutive(task.grid, h, p) \X (0 .. w - 1)
      BY <1>1, <1>2, <2>3, HeldOthers DEF h, w
    <3>2. QED
      BY <3>1 DEF Consecutive, Positions
  <2>4. CASE task.output = SpParMat
    <3>1. task.grid[1] = task.grid[2] /\ task.grid[1] \in Nat \ {0}
      BY <2>4, InputTypes, TaskNumbers
    <3>2. /\ Place(task.grid, p)[1] \in 0 .. task.grid[1] - 1
          /\ Place(task.grid, p)[2] \in 0 .. task.grid[1] - 1
      BY <3>1, Placed
    <3>3. h \in Nat \ {0} /\ w \in Nat \ {0}
      BY <1>2 DEF h, w
    <3>4. /\ Block(task.grid[1], h, Place(task.grid, p)[1]) \subseteq 0 .. h - 1
          /\ Block(task.grid[1], w, Place(task.grid, p)[2]) \subseteq 0 .. w - 1
      BY <3>1, <3>2, <3>3, BlocksWithin
    <3>5. QED
      BY <1>5, <2>4, <3>4 DEF Positions
  <2>5. QED
    BY <2>1, <2>2, <2>3, <2>4, InputTypes
<1>7. QED
  BY <1>3, <1>4, <1>5, <1>6 DEF h, w

(* Where what goes to a part of the sketch is all with the one who has it. *)
Alone == \/ task.input = S_S
         \/ task.input \in Whole
         \/ task.input \in ColDists /\ task.output = task.input /\ ~ Columnwise
         \/ task.input \in RowDists /\ task.output = task.input /\ Columnwise

LEMMA AloneHasAll ==
  ASSUME TaskOK, Alone, NEW p \in Rank, NEW at \in task.SA[p]
  PROVE  TermsIn(task.A[p], at) = Owed(at)
<1> DEFINE a == Extents[1]
           b == Extents[2]
<1>1. Extents = <<a, b>> /\ a \in Nat /\ b \in Nat
  BY TaskNumbers DEF Columnwise
<1>2. \A e \in All : e \in Positions(a, b)
  BY EntriesOfA DEF All
<1> HIDE DEF a, b
<1>3. ASSUME NEW e \in All, FinalPos(e) = at
      PROVE  e \in HeldOf(task.grid, task.input, Extents, p)
  <2>1. e \in Positions(a, b) /\ e[1] \in Nat /\ e[2] \in Nat
    BY <1>2, Entry
  <2>2. CASE task.input = S_S
    <3>1. task.input \in Gridded /\ task.input[1] = "STAR" /\ task.input[2] = "STAR"
      BY <2>2, KindsOfTypes DEF Gridded, S_S
    <3>2. Holds("STAR", e[1], p) /\ Holds("STAR", e[2], p)
      BY <2>1, Places
    <3>3. QED
      BY <1>1, <2>1, <3>1, <3>2, HeldGridded
  <2>3. CASE task.input \in Whole
    <3>1. p = Root
      BY <2>3, InputTypes
    <3>2. HeldOf(task.grid, task.input, <<a, b>>, p) = Positions(a, b)
      BY <1>1, <2>3, <3>1, HeldOthers
    <3>3. QED
      BY <1>1, <2>1, <3>2
  <2>4. CASE task.input \in ColDists /\ task.output = task.input /\ ~ Columnwise
    <3>1. task.input \in Gridded /\ task.input[2] = "STAR"
      BY <2>4, KindsOfTypes DEF ColDists
    <3>2. e[1] = at[1]
      BY <1>3, <2>4 DEF FinalPos
    <3>3. Holds(task.input[1], e[1], p)
      BY <2>4, <3>1, <3>2, SketchParts
    <3>4. Holds("STAR", e[2], p)
      BY <2>1, Places
    <3>5. QED
      BY <1>1, <2>1, <3>1, <3>3, <3>4, HeldGridded
  <2>5. CASE task.input \in RowDists /\ task.output = task.input /\ Columnwise
    <3>1. task.input \in Gridded /\ task.input[1] = "STAR"
      BY <2>5, KindsOfTypes DEF RowDists
    <3>2. e[2] = at[2]
      BY <1>3, <2>5 DEF FinalPos
    <3>3. Holds(task.input[2], e[2], p)
      BY <2>5, <3>1, <3>2, SketchParts
    <3>4. Holds("STAR", e[1], p)
      BY <2>1, Places
    <3>5. QED
      BY <1>1, <2>1, <3>1, <3>3, <3>4, HeldGridded
  <2>6. QED
    BY <2>2, <2>3, <2>4, <2>5 DEF Alone
<1>4. ASSUME NEW e \in All, FinalPos(e) = at PROVE e \in task.A[p]
  BY <1>3, <1>4, EntryHeld
<1>5. task.A[p] \subseteq All
  BY DEF All
<1>6. QED
  BY <1>4, <1>5 DEF Owed, TermsIn
-----------------------------------------------------------------------------
(***************************************************************************)
(* Redistribution.                                                         *)
(***************************************************************************)
LEMMA SomeoneHolds ==
  ASSUME TaskOK, Method = "redistribute", NEW at \in Positions(SHeight, SWidth)
  PROVE  \E q \in Rank : Moved(at, q)
<1> DEFINE h == task.grid[1]
           w == task.grid[2]
           k == Kept(at)
           n == k % P
<1>1. h \in Nat \ {0} /\ w \in Nat \ {0} /\ P = h * w /\ P \in Nat \ {0}
      /\ Rank = (0 .. h - 1) \X (0 .. w - 1)
  BY TaskNumbers DEF P
<1>2. k \in Nat
  <2>1. at[1] \in Nat /\ at[2] \in Nat
    BY SketchSizes DEF Positions
  <2>2. QED
    BY <2>1 DEF Kept
<1>3. V \in {"VC", "VR"}
  <2>1. \/ task.input = MC_MR \/ task.input \in ColDists \/ task.input \in RowDists
    BY MethodTypes
  <2>2. CASE task.input = MC_MR
    <3>1. task.input \notin ColDists /\ task.input \notin RowDists
      BY <2>2 DEF MC_MR, ColDists, RowDists
    <3>2. QED
      BY <2>2, <3>1 DEF V
  <2>3. CASE task.input \in ColDists
    <3>1. task.input # MC_MR /\ task.input \notin RowDists
          /\ task.input[1] \in {"VC", "VR"}
      BY <2>3 DEF MC_MR, ColDists, RowDists
    <3>2. QED
      BY <2>3, <3>1 DEF V
  <2>4. CASE task.input \in RowDists
    <3>1. task.input # MC_MR /\ task.input \notin ColDists
          /\ task.input[2] \in {"VC", "VR"}
      BY <2>4 DEF MC_MR, ColDists, RowDists
    <3>2. QED
      BY <2>4, <3>1 DEF V
  <2>5. QED
    BY <2>1, <2>2, <2>3, <2>4
<1>4. \A q : Moved(at, q) <=> Holds(V, k, q)
  BY DEF Moved, Holds
<1> HIDE DEF h, w, k
<1>5. n \in Nat /\ n < h * w /\ n < w * h
  BY <1>1, <1>2, DivMod
<1> HIDE DEF n
<1>6. CASE V = "VC"
  <2> DEFINE q == <<n % h, n \div h>>
  <2>1. n % h \in 0 .. h - 1 /\ n \div h \in 0 .. w - 1
        /\ (n % h) + (n \div h) * h = n
    BY <1>1, <1>5, PlaceOfNumber
  <2>2. q \in Rank /\ q[1] + q[2] * h = n
    BY <1>1, <2>1
  <2> HIDE DEF q
  <2>3. Holds("VC", k, q)
    BY <2>2, Places DEF n, h
  <2>4. QED
    BY <1>4, <1>6, <2>2, <2>3
<1>7. CASE V = "VR"
  <2> DEFINE q == <<n \div w, n % w>>
  <2>1. n % w \in 0 .. w - 1 /\ n \div w \in 0 .. h - 1
        /\ (n % w) + (n \div w) * w = n
    BY <1>1, <1>5, PlaceOfNumber
  <2>2. q \in Rank /\ q[2] + q[1] * w = n
    BY <1>1, <2>1
  <2> HIDE DEF q
  <2>3. Holds("VR", k, q)
    BY <2>2, Places DEF n, w
  <2>4. QED
    BY <1>4, <1>7, <2>2, <2>3
<1>8. QED
  BY <1>3, <1>6, <1>7

LEMMA RedistributedAll ==
  ASSUME TaskOK, Method = "redistribute", NEW p \in Rank, NEW at \in task.SA[p]
  PROVE  Enumerates(MovedBack(p)[at], Owed(at))
<1> DEFINE q == CHOOSE q \in Rank : Moved(at, q)
           E == {e \in UNION {task.A[r] : r \in Rank} : Moved(e, q)}
<1>1. Moved(at, q)
  BY SketchParts, SomeoneHolds
<1>2. MovedBack(p)[at] = TermsAt(E, at)
  BY DEF MovedBack
<1>3. E = {e \in All : Moved(e, q)}
  BY DEF All
<1> HIDE DEF q
<1>4. \A e \in All : FinalPos(e) = at => Moved(e, q)
  BY <1>1 DEF Moved, Kept, FinalPos
<1>5. IsFiniteSet(E)
  BY <1>3, AllFinite, FS_Subset
<1>6. TermsIn(E, at) = Owed(at)
  BY <1>3, <1>4 DEF Owed, TermsIn
<1> HIDE DEF E
<1>7. Enumerates(TermsAt(E, at), TermsIn(E, at))
  BY <1>5, TermsAtEnumerates
<1>8. QED
  BY <1>2, <1>6, <1>7
-----------------------------------------------------------------------------
(***************************************************************************)
(* The buffer of a reduction: columns of height lead, one behind the       *)
(* other, are moved to where they are ldim apart.                          *)
(***************************************************************************)
\* after the last n of w columns have been moved
MovedTo(buffer, after, lead, ldim, w, n) ==
  /\ DOMAIN after = DOMAIN buffer
  /\ \A i \in 1 .. w - 1, r \in 0 .. lead - 1 :
        i >= w - n => after[ldim * i + r] = buffer[lead * i + r]
  /\ \A x \in DOMAIN buffer : x < ldim * (w - n) => after[x] = buffer[x]

LEMMA Strided ==
  ASSUME NEW w \in Nat, NEW ldim \in Nat, NEW lead \in Nat, lead <= ldim,
         NEW i \in 0 .. w - 1, NEW r \in 0 .. lead - 1
  PROVE  /\ ldim * i + r \in 0 .. ldim * w - 1
         /\ lead * i + r \in 0 .. lead * w - 1
         /\ lead * i + r <= ldim * i + r
         /\ \A j \in Nat : j > i => ldim * i + r < ldim * j
         /\ lead * w <= ldim * w
         /\ lead * i \in Nat /\ ldim * i \in Nat
<1>1. i \in Nat /\ i + 1 \in Nat /\ w - (i + 1) \in Nat /\ ldim - lead \in Nat
  OBVIOUS
<1>2. ldim * w = ldim * i + ldim + ldim * (w - (i + 1))
      /\ lead * w = lead * i + lead + lead * (w - (i + 1))
  BY <1>1
<1>3. ldim * i = lead * i + (ldim - lead) * i /\ ldim * w = lead * w + (ldim - lead) * w
  BY <1>1
<1>4. /\ lead * i \in Nat /\ ldim * i \in Nat /\ (ldim - lead) * i \in Nat
      /\ (ldim - lead) * w \in Nat /\ lead * w \in Nat
      /\ ldim * (w - (i + 1)) \in Nat /\ lead * (w - (i + 1)) \in Nat
  BY <1>1
<1>5. ASSUME NEW j \in Nat, j > i PROVE ldim * i + r < ldim * j
  <2>1. j - (i + 1) \in Nat
    BY <1>1, <1>5
  <2>2. ldim * j = ldim * i + ldim + ldim * (j - (i + 1)) /\ ldim * (j - (i + 1)) \in Nat
    BY <1>1, <2>1
  <2> DEFINE u == ldim * i
             v == ldim * j
             z == ldim * (j - (i + 1))
  <2>3. u \in Nat /\ z \in Nat /\ v = u + ldim + z
    BY <1>4, <2>2
  <2> HIDE DEF u, v, z
  <2>4. u + r < v
    BY <2>3
  <2>5. QED
    BY <2>4 DEF u, v
<1>6. QED
  <2> DEFINE a == ldim * i
             b == lead * i
             c == (ldim - lead) * i
             d == ldim * (w - (i + 1))
             e == lead * (w - (i + 1))
             f == ldim * w
             g == lead * w
             k == (ldim - lead) * w
  <2>1. /\ a \in Nat /\ b \in Nat /\ c \in Nat /\ d \in Nat /\ e \in Nat /\ g \in Nat
        /\ k \in Nat
        /\ f = a + ldim + d /\ g = b + lead + e /\ a = b + c /\ f = g + k
    BY <1>2, <1>3, <1>4
  <2> HIDE DEF a, b, c, d, e, f, g, k
  <2>2. a + r \in 0 .. f - 1 /\ b + r \in 0 .. g - 1 /\ b + r <= a + r /\ g <= f
    BY <2>1
  <2>3. QED
    BY <1>5, <2>1, <2>2 DEF a, b, f, g

Shift(b, lead, ldim, i) ==
  [x \in DOMAIN b |-> IF x \in ldim * i .. ldim * i + lead - 1
                      THEN b[lead * i + x - ldim * i] ELSE b[x]]

(* Between columns far enough apart memcpy copies what it finds.           *)
LEMMA CopiesApart ==
  ASSUME NEW lead \in Nat, NEW ldim \in Nat, 2 * lead <= ldim, NEW i \in Nat \ {0},
         NEW b
  PROVE  CopiedUp(b, lead, ldim, i) = Shift(b, lead, ldim, i)
<1> DEFINE k == lead * i
           l == ldim * i
           m == (ldim - 2 * lead) * i
           n == lead * (i - 1)
<1>1. k \in Nat /\ l \in Nat /\ m \in Nat /\ n \in Nat
      /\ l = m + 2 * k /\ k = n + lead
  <2>1. ldim - 2 * lead \in Nat /\ i - 1 \in Nat
    OBVIOUS
  <2>2. QED
    BY <2>1
<1>2. lead * (i + 1) = k + lead
  OBVIOUS
<1> HIDE DEF k, l, m, n
<1>3. ~ (l < k + lead)
  BY <1>1
<1>4. ~ (ldim * i < lead * (i + 1))
  BY <1>2, <1>3 DEF l
<1> QED
  BY <1>4 DEF CopiedUp, Shift

LEMMA ShiftsOne ==
  ASSUME NEW w \in Nat, NEW ldim \in Nat, NEW lead \in Nat, lead <= ldim,
         NEW buffer, DOMAIN buffer = 0 .. ldim * w - 1,
         NEW n \in Nat, n + 1 <= w - 1, NEW b, MovedTo(buffer, b, lead, ldim, w, n)
  PROVE  MovedTo(buffer, Shift(b, lead, ldim, w - (n + 1)), lead, ldim, w, n + 1)
<1> DEFINE i == w - (n + 1)
           c == Shift(b, lead, ldim, i)
<1>1. i \in 1 .. w - 1 /\ i \in 0 .. w - 1 /\ i + 1 = w - n /\ i + 1 \in Nat /\ i \in Nat
  OBVIOUS
<1>2. DOMAIN b = DOMAIN buffer /\ DOMAIN c = DOMAIN buffer
  BY DEF MovedTo, Shift
<1>3. \A x \in DOMAIN buffer : x < ldim * (i + 1) => b[x] = buffer[x]
  BY <1>1 DEF MovedTo
<1>4. \A j \in 1 .. w - 1, r \in 0 .. lead - 1 :
        j >= i + 1 => b[ldim * j + r] = buffer[lead * j + r]
  BY <1>1 DEF MovedTo
<1>5. \A x \in DOMAIN b : c[x] = IF x \in ldim * i .. ldim * i + lead - 1
                                  THEN b[lead * i + x - ldim * i] ELSE b[x]
  BY DEF Shift
<1> HIDE DEF i, c
<1>6. ASSUME NEW r \in 0 .. lead - 1
      PROVE  c[ldim * i + r] = buffer[lead * i + r]
  <2>1. /\ ldim * i + r \in 0 .. ldim * w - 1
        /\ lead * i + r \in 0 .. lead * w - 1
        /\ lead * i + r <= ldim * i + r
        /\ ldim * i + r < ldim * (i + 1)
        /\ lead * w <= ldim * w
        /\ lead * i \in Nat /\ ldim * i \in Nat
    BY <1>1, Strided
  <2> DEFINE u == ldim * i
             v == lead * i
             z == ldim * w
             y == lead * w
             t == ldim * (i + 1)
  <2>2. u \in Nat /\ v \in Nat /\ z \in Nat /\ u + r < t /\ v + r <= u + r
        /\ v + r \in 0 .. y - 1 /\ y <= z /\ y \in Nat /\ t \in Nat
    BY <1>1, <2>1
  <2>3. DOMAIN b = 0 .. z - 1 /\ u + r \in DOMAIN b
    BY <1>2, <2>1
  <2>4. c[u + r] = IF u + r \in u .. u + lead - 1 THEN b[v + (u + r) - u] ELSE b[u + r]
    BY <1>5, <2>3
  <2>5. \A x \in DOMAIN buffer : x < t => b[x] = buffer[x]
    BY <1>3
  <2> HIDE DEF u, v, z, y, t
  <2>6. v + (u + r) - u = v + r /\ u + r \in u .. u + lead - 1 /\ v + r \in 0 .. z - 1
        /\ v + r < t
    BY <2>2
  <2>7. c[u + r] = b[v + r]
    BY <2>4, <2>6
  <2>8. b[v + r] = buffer[v + r]
    BY <1>2, <2>3, <2>5, <2>6
  <2>9. QED
    BY <2>7, <2>8 DEF u, v
<1>7. ASSUME NEW j \in 1 .. w - 1, NEW r \in 0 .. lead - 1, j >= i + 1
      PROVE  c[ldim * j + r] = buffer[lead * j + r]
  <2>0. j \in 0 .. w - 1 /\ j \in Nat /\ j > i
    BY <1>1, <1>7
  <2>1. ldim * j + r \in 0 .. ldim * w - 1 /\ ldim * j \in Nat
    BY <2>0, Strided
  <2>2. lead > 0 /\ lead - 1 \in 0 .. lead - 1
    OBVIOUS
  <2>3. ldim * i + (lead - 1) < ldim * j /\ ldim * i \in Nat
    BY <1>1, <2>0, <2>2, Strided
  <2> DEFINE u == ldim * i
             v == ldim * j
  <2>4. u \in Nat /\ v \in Nat /\ u + (lead - 1) < v
    BY <2>1, <2>3
  <2>5. v + r \in DOMAIN b
    BY <1>2, <2>1
  <2>6. c[v + r] = IF v + r \in u .. u + lead - 1 THEN b[lead * i + (v + r) - u] ELSE b[v + r]
    BY <1>5, <2>5
  <2>7. b[v + r] = buffer[lead * j + r]
    BY <1>4, <1>7
  <2> HIDE DEF u, v
  <2>8. v + r \notin u .. u + lead - 1
    BY <2>4
  <2>9. QED
    BY <2>6, <2>7, <2>8 DEF v
<1>8. ASSUME NEW x \in DOMAIN buffer, x < ldim * i
      PROVE  c[x] = buffer[x]
  <2> DEFINE u == ldim * i
             t == ldim * (i + 1)
  <2>1. t = u + ldim /\ u \in Nat
    BY <1>1
  <2>2. x < u /\ x \in Int
    BY <1>8
  <2>3. c[x] = IF x \in u .. u + lead - 1 THEN b[lead * i + x - u] ELSE b[x]
    BY <1>2, <1>5
  <2>4. x < t => b[x] = buffer[x]
    BY <1>3
  <2> HIDE DEF u, t
  <2>5. x \notin u .. u + lead - 1 /\ x < t
    BY <2>1, <2>2
  <2>6. QED
    BY <2>3, <2>4, <2>5
<1>9. ASSUME NEW j \in 1 .. w - 1, NEW r \in 0 .. lead - 1, j >= w - (n + 1)
      PROVE  c[ldim * j + r] = buffer[lead * j + r]
  <2>1. j = i \/ j >= i + 1
    BY <1>1, <1>9 DEF i
  <2>2. QED
    BY <1>6, <1>7, <2>1
<1>10. MovedTo(buffer, c, lead, ldim, w, n + 1)
  BY <1>2, <1>8, <1>9 DEF MovedTo, i
<1>11. QED
  BY <1>10 DEF c, i

Shifts(s, buffer, lead, ldim, columns, c) ==
  \E f : /\ s = f[c]
         /\ f[0] = buffer
         /\ \A n \in 0 .. c : n < c =>
              f[n + 1] = CopiedUp(f[n], lead, ldim, columns[n + 1])

LEMMA Shifting ==
  ASSUME NEW buffer, NEW lead, NEW ldim, NEW columns, NEW c \in Nat, c = Len(columns)
  PROVE  Shifts(MovedUp(buffer, lead, ldim, columns), buffer, lead, ldim, columns, c)
<1> DEFINE Step(f, n) == IF n = 0 THEN buffer
                         ELSE CopiedUp(f[n - 1], lead, ldim, columns[n])
           Is(f, m) == f = [n \in 0 .. m |-> Step(f, n)]
           Fine == {m \in 0 .. c : \E f : Is(f, m)}
<1>1. Is([n \in 0 .. 0 |-> buffer], 0)
  <2>1. \A n \in 0 .. 0 : n = 0
    OBVIOUS
  <2>2. [n \in 0 .. 0 |-> buffer]
          = [n \in 0 .. 0 |-> Step([i \in 0 .. 0 |-> buffer], n)]
    BY <2>1
  <2>3. QED
    BY <2>2
<1>2. ASSUME NEW l \in 0 .. c, NEW g, Is(g, l), l < c
      PROVE  \E f : Is(f, l + 1)
  <2> DEFINE m == l + 1
             f == [n \in 0 .. m |-> IF n = m THEN Step(g, m) ELSE g[n]]
  <2>1. m \in 1 .. c /\ l \in 0 .. m /\ l # m /\ l = m - 1
    BY <1>2
  <2> HIDE DEF m
  <2>2. ASSUME NEW n \in 0 .. m
        PROVE  f[n] = Step(f, n)
    <3>1. CASE n = m
      <4>0. m \in 0 .. m /\ m - 1 \in 0 .. m /\ m - 1 # m /\ m # 0
        BY <2>1
      <4>1. f[m - 1] = g[m - 1] /\ f[m] = Step(g, m)
        BY <4>0
      <4>2. Step(f, m) = Step(g, m)
        BY <4>0, <4>1
      <4>3. QED
        BY <3>1, <4>1, <4>2
    <3>2. CASE n # m /\ n = 0
      <4>1. 0 \in 0 .. l /\ f[0] = g[0]
        BY <2>1, <3>2
      <4>2. g[0] = buffer
        BY <1>2, <4>1
      <4>3. QED
        BY <3>2, <4>1, <4>2
    <3>3. CASE n # m /\ n # 0
      <4>1. n \in 0 .. l /\ n - 1 \in 0 .. m /\ n - 1 # m
        BY <2>1, <3>3
      <4>2. f[n] = g[n] /\ f[n - 1] = g[n - 1]
        BY <3>3, <4>1
      <4>3. g[n] = Step(g, n)
        BY <1>2, <3>3, <4>1
      <4>4. Step(g, n) = Step(f, n)
        BY <3>3, <4>2
      <4> HIDE DEF Step, f
      <4>5. QED
        BY <4>2, <4>3, <4>4
    <3>4. QED
      BY <3>1, <3>2, <3>3
  <2>3. f = [n \in 0 .. m |-> f[n]]
    OBVIOUS
  <2> HIDE DEF f, Step
  <2>4. Is(f, m)
    BY <2>2, <2>3
  <2>5. QED
    BY <2>4 DEF m
<1>3. \E f : Is(f, c)
  <2> HIDE DEF Is
  <2>1. 0 \in Nat /\ 0 \in Fine
    BY <1>1
  <2>2. ASSUME NEW l \in 0 .. c, l \in Fine, l < c PROVE l + 1 \in Fine
    <3>1. PICK g : Is(g, l)
      BY <2>2
    <3>2. \E f : Is(f, l + 1)
      BY <1>2, <2>2, <3>1
    <3>3. QED
      BY <2>2, <3>2
  <2> HIDE DEF Fine
  <2>3. \A l \in 0 .. c : l \in Fine
    BY <2>1, <2>2, UpTo
  <2>4. c \in Fine
    BY <2>3
  <2>5. QED
    BY <2>4 DEF Fine
<1> DEFINE f == CHOOSE g : Is(g, c)
<1>4. Is(f, c)
  <2> HIDE DEF Is
  <2>1. QED
    BY <1>3
<1>5. MovedUp(buffer, lead, ldim, columns) = f[c]
  BY DEF MovedUp
<1> HIDE DEF f
<1>6. \A n \in 0 .. c : f[n] = Step(f, n)
  BY <1>4
<1>7. f[0] = buffer
  BY <1>6
<1>8. ASSUME NEW n \in 0 .. c, n < c
      PROVE  f[n + 1] = CopiedUp(f[n], lead, ldim, columns[n + 1])
  <2>1. n + 1 \in 0 .. c /\ n + 1 # 0 /\ (n + 1) - 1 = n
    BY <1>8
  <2>2. f[n + 1] = Step(f, n + 1)
    BY <1>6, <2>1
  <2>3. QED
    BY <2>1, <2>2
<1>9. QED
  BY <1>5, <1>7, <1>8 DEF Shifts

LEMMA SpacedApart ==
  ASSUME TaskOK, NEW lead \in Nat, NEW ldim \in Nat,
         ldim = lead \/ 2 * lead <= ldim,
         NEW buffer, DOMAIN buffer = 0 .. ldim * SWidth - 1
  PROVE  \A i \in 0 .. SWidth - 1, r \in 0 .. lead - 1 :
            Spaced(buffer, lead, ldim)[ldim * i + r] = buffer[lead * i + r]
<1> SUFFICES ASSUME ldim # lead
             PROVE  \A i \in 0 .. SWidth - 1, r \in 0 .. lead - 1 :
                      Spaced(buffer, lead, ldim)[ldim * i + r] = buffer[lead * i + r]
  BY DEF Spaced
<1>0. lead <= ldim /\ 2 * lead <= ldim
  OBVIOUS
<1> DEFINE w == SWidth
           c == w - 1
           columns == [k \in 1 .. w - 1 |-> w - k]
           s == Spaced(buffer, lead, ldim)
<1>1. w \in Nat \ {0} /\ c \in Nat /\ w \in Nat /\ c = w - 1
  BY SketchSizes
<1>2. Len(columns) = c
  BY <1>1
<1>3. s = MovedUp(buffer, lead, ldim, columns)
  BY DEF Spaced
<1>4. \A n \in 0 .. c : n < c => columns[n + 1] = w - (n + 1)
  BY <1>1
<1>5. DOMAIN buffer = 0 .. ldim * w - 1
  OBVIOUS
<1> HIDE DEF w, c, columns, s
<1>6. Shifts(s, buffer, lead, ldim, columns, c)
  BY <1>1, <1>2, <1>3, Shifting
<1>7. PICK f : /\ s = f[c]
               /\ f[0] = buffer
               /\ \A n \in 0 .. c : n < c =>
                    f[n + 1] = CopiedUp(f[n], lead, ldim, columns[n + 1])
  BY <1>6 DEF Shifts
<1> DEFINE T == {n \in 0 .. c : MovedTo(buffer, f[n], lead, ldim, w, n)}
<1>8. 0 \in T /\ 0 \in Nat
  <2>1. 0 \in 0 .. c
    BY <1>1
  <2>2. \A i \in 1 .. w - 1 : ~ (i >= w - 0)
    BY <1>1
  <2>3. QED
    BY <1>7, <2>1, <2>2 DEF MovedTo
<1>9. ASSUME NEW n \in 0 .. c, n \in T, n < c PROVE n + 1 \in T
  <2>1. MovedTo(buffer, f[n], lead, ldim, w, n) /\ n + 1 \in 0 .. c /\ n \in Nat
        /\ n + 1 <= w - 1
    BY <1>1, <1>9
  <2>2. f[n + 1] = Shift(f[n], lead, ldim, w - (n + 1))
    <3>1. f[n + 1] = CopiedUp(f[n], lead, ldim, w - (n + 1))
      BY <1>4, <1>7, <1>9
    <3>2. w - (n + 1) \in Nat \ {0}
      BY <1>1, <2>1
    <3>3. QED
      BY <1>0, <3>1, <3>2, CopiesApart
  <2>3. MovedTo(buffer, Shift(f[n], lead, ldim, w - (n + 1)), lead, ldim, w, n + 1)
    BY <1>0, <1>1, <1>5, <2>1, ShiftsOne
  <2>4. QED
    BY <2>1, <2>2, <2>3
<1> HIDE DEF T
<1>10. \A n \in 0 .. c : n \in T
  BY <1>1, <1>8, <1>9, UpTo
<1>11. MovedTo(buffer, s, lead, ldim, w, c)
  <2>1. c \in 0 .. c
    BY <1>1
  <2>2. QED
    BY <1>7, <1>10, <2>1 DEF T
<1>12. w - c = 1 /\ ldim * 1 = ldim /\ ldim * 0 = 0 /\ lead * 0 = 0
  BY <1>1
<1>13. ASSUME NEW i \in 0 .. w - 1, NEW r \in 0 .. lead - 1
       PROVE  s[ldim * i + r] = buffer[lead * i + r]
  <2>1. CASE i = 0
    <3>1. 0 \in 0 .. w - 1
      BY <1>1
    <3>2. ldim * 0 + r \in 0 .. ldim * w - 1
      BY <1>0, <1>1, <3>1, Strided
    <3>3. r \in DOMAIN buffer /\ r < ldim
      <4>1. ldim * 0 + r = r
        BY <1>12
      <4>2. r \in DOMAIN buffer
        BY <1>5, <3>2, <4>1
      <4>3. r < ldim
        BY <1>0
      <4>4. QED
        BY <4>2, <4>3
    <3>4. s[r] = buffer[r]
      BY <1>11, <1>12, <3>3 DEF MovedTo
    <3>5. QED
      BY <1>12, <2>1, <3>4
  <2>2. CASE i # 0
    <3>1. i \in 1 .. w - 1 /\ i >= w - c
      BY <1>1, <1>12, <2>2
    <3>2. QED
      BY <1>11, <3>1 DEF MovedTo
  <2>3. QED
    BY <2>1, <2>2
<1>14. QED
  BY <1>13 DEF w, s

(* Where the reduction puts an entry, the sketch has it.                   *)
LEMMA RootReduces ==
  ASSUME TaskOK, Agreed, Method = "reduce", \A p \in Rank : sums[p] = SA_part(p),
         NEW at \in task.SA[Root]
  PROVE  Enumerates(ReducedAtRoot[at], Owed(at))
<1> DEFINE h == SHeight
           w == SWidth
           ldim == h + task.pad
           buffer == [x \in 0 .. ldim * w - 1 |->
                        IF x < h * w THEN Reduced(Everyone, <<x % h, x \div h>>)
                        ELSE Junk]
           spaced == Spaced(buffer, h, ldim)
           i == at[2]
           r == at[1]
<1>1. h \in Nat \ {0} /\ w \in Nat /\ task.pad \in Nat /\ ldim \in Nat /\ h <= ldim
      /\ h \in Nat /\ (ldim = h \/ 2 * h <= ldim)
  <2>1. h \in Nat \ {0} /\ w \in Nat
    BY SketchSizes
  <2>2. task.pad \in Nat /\ (task.pad = 0 \/ task.pad >= h)
    BY DEF TaskOK, Agreed, Spacious
  <2> HIDE DEF h, w
  <2>3. QED
    BY <2>1, <2>2
<1>2. at \in Positions(h, w) /\ at = <<r, i>> /\ i \in 0 .. w - 1 /\ r \in 0 .. h - 1
      /\ i \in Nat
  <2>1. at \in Positions(h, w)
    BY TaskNumbers, SketchParts
  <2>2. QED
    BY <2>1 DEF Positions
<1>3. task.input # S_S
  BY MethodTypes, KindsOfTypes DEF S_S
<1>4. ReducedAtRoot[at] = spaced[i * ldim + r]
  BY DEF ReducedAtRoot
<1>5. DOMAIN buffer = 0 .. ldim * SWidth - 1
  OBVIOUS
<1>6. \A x \in 0 .. ldim * w - 1 :
         buffer[x] = IF x < h * w THEN Reduced(Everyone, <<x % h, x \div h>>) ELSE Junk
  OBVIOUS
<1> HIDE DEF buffer, i, r, ldim
<1>7. spaced[ldim * i + r] = buffer[h * i + r]
  <2>1. \A j \in 0 .. w - 1, x \in 0 .. h - 1 : spaced[ldim * j + x] = buffer[h * j + x]
    BY <1>1, <1>5, SpacedApart
  <2> HIDE DEF spaced
  <2>2. QED
    BY <1>2, <2>1
<1> HIDE DEF h, w, spaced
<1>8. h * i + r \in 0 .. h * w - 1 /\ h * w <= ldim * w
  BY <1>1, <1>2, Strided
<1>9. (h * i + r) \div h = i /\ (h * i + r) % h = r
  BY <1>1, <1>2, DivUnique
<1>10. buffer[h * i + r] = Reduced(Everyone, at)
  <2> DEFINE x == h * i + r
             y == h * w
             z == ldim * w
  <2>1. x \in 0 .. y - 1 /\ y <= z /\ z \in Int /\ y \in Int
    BY <1>1, <1>8
  <2>2. x \in 0 .. z - 1 =>
          buffer[x] = IF x < y THEN Reduced(Everyone, <<x % h, x \div h>>) ELSE Junk
    BY <1>6
  <2>3. <<x % h, x \div h>> = at
    BY <1>2, <1>9
  <2> HIDE DEF x, y, z
  <2>4. x \in 0 .. z - 1 /\ x < y
    BY <2>1
  <2>5. buffer[x] = Reduced(Everyone, at)
    BY <2>2, <2>3, <2>4
  <2>6. QED
    BY <2>5 DEF x
<1>11. i * ldim + r = ldim * i + r
  BY <1>1, <1>2
<1>12. Enumerates(Reduced(Everyone, at), Owed(at))
  BY <1>2, <1>3, ReducesEverybody DEF h, w
<1>13. QED
  BY <1>4, <1>7, <1>10, <1>11, <1>12
-----------------------------------------------------------------------------
(***************************************************************************)
(* The window method: positions, and who owns them.                        *)
(***************************************************************************)
LEMMA Positioned ==
  ASSUME TaskOK, NEW at \in Positions(SHeight, SWidth)
  PROVE  /\ Pos(at) \in 0 .. SHeight * SWidth /\ AtPos(Pos(at)) = at
         /\ at = <<at[1], at[2]>> /\ at[1] \in Nat /\ at[2] \in Nat
<1> DEFINE h == SHeight
           w == SWidth
           i == at[1]
           j == at[2]
<1>1. h \in Nat \ {0} /\ w \in Nat \ {0} /\ at = <<i, j>>
      /\ i \in 0 .. h - 1 /\ j \in 0 .. w - 1 /\ i \in Nat /\ j \in Nat
  BY SketchSizes DEF Positions
<1>2. Pos(at) = i * w + j /\ AtPos(Pos(at)) = <<Pos(at) \div w, Pos(at) % w>>
  BY DEF Pos, AtPos
<1> HIDE DEF h, w, i, j
<1>3. j + i * w \in 0 .. w * h - 1
  BY <1>1, NumberOfPlace
<1>4. i * w + j = j + i * w /\ i * w + j = w * i + j /\ w * h = h * w
  BY <1>1
<1>5. (w * i + j) \div w = i /\ (w * i + j) % w = j
  BY <1>1, DivUnique
<1>6. Pos(at) \in 0 .. h * w
  <2> DEFINE z == h * w
             x == j + i * w
  <2>1. z \in Nat /\ x \in 0 .. z - 1 /\ Pos(at) = x
    BY <1>1, <1>2, <1>3, <1>4
  <2> HIDE DEF z, x
  <2>2. Pos(at) \in 0 .. z
    BY <2>1
  <2>3. QED
    BY <2>2 DEF z
<1>7. QED
  BY <1>1, <1>2, <1>4, <1>5, <1>6 DEF h, w, i, j

(* Places dealt out one by one, row by row.                                *)
Digits(w, h, g, i, j) ==
  g % (h * w) = j + i * w <=> (g \div w) % h = i /\ g % w = j

LEMMA TwoDigits ==
  ASSUME NEW w \in Nat \ {0}, NEW h \in Nat \ {0}, NEW g \in Nat,
         NEW i \in 0 .. h - 1, NEW j \in 0 .. w - 1
  PROVE  Digits(w, h, g, i, j)
<1> DEFINE p == h * w
           a == g \div p
           n == g % p
           b == n \div w
           c == n % w
<1>1. p \in Nat \ {0} /\ p = w * h
  BY Squares
<1> HIDE DEF p
<1>2. a \in Nat /\ n \in 0 .. p - 1 /\ g = p * a + n /\ n \in Nat /\ n < w * h
  <2>1. a \in Nat /\ n \in 0 .. p - 1 /\ g = p * a + n
    BY <1>1, DivMod
  <2> HIDE DEF n
  <2>2. n \in Nat /\ n < p
    BY <1>1, <2>1
  <2>3. QED
    BY <1>1, <2>1, <2>2
<1> HIDE DEF a, n
<1>3. c \in 0 .. w - 1 /\ b \in 0 .. h - 1 /\ c + b * w = n /\ b \in Nat /\ c \in Nat
  <2>1. n \in Nat /\ n < w * h
    BY <1>2
  <2>2. c \in 0 .. w - 1 /\ b \in 0 .. h - 1 /\ c + b * w = n
    BY <2>1, PlaceOfNumber
  <2>3. QED
    BY <2>2
<1> HIDE DEF b, c
<1>4. h * a + b \in Nat
  BY <1>2, <1>3
<1>5. g = w * (h * a + b) + c
  <2>1. w * (h * a + b) = w * (h * a) + w * b
    BY <1>2, <1>3
  <2>2. w * (h * a) = p * a /\ w * b = b * w
    BY <1>1, <1>2, <1>3
  <2> DEFINE u == p * a
             v == b * w
             t == w * (h * a + b)
  <2>3. u \in Nat /\ v \in Nat /\ t = u + v /\ g = u + n /\ c + v = n
    BY <1>1, <1>2, <1>3, <2>1, <2>2
  <2> HIDE DEF u, v, t
  <2>4. g = t + c
    BY <1>3, <2>3
  <2>5. QED
    BY <2>4 DEF t
<1>6. g \div w = h * a + b /\ g % w = c
  BY <1>3, <1>4, <1>5, DivUnique
<1>7. (h * a + b) % h = b
  BY <1>2, <1>3, DivUnique
<1>8. g % p = n
  BY DEF n
<1>9. OnePlace(w, j, i, c, b)
  BY <1>3, OneNumber
<1>10. n = j + i * w <=> b = i /\ c = j
  BY <1>3, <1>9 DEF OnePlace
<1>11. QED
  BY <1>6, <1>7, <1>8, <1>10 DEF p, Digits

LEMMA OwnerHolds ==
  ASSUME TaskOK, Method = "window", NEW p \in Rank,
         NEW at \in Positions(SHeight, SWidth)
  PROVE  Owner(at[1], at[2]) = Number(task.grid, p) <=> at \in task.SA[p]
<1> DEFINE h == task.grid[1]
           w == task.grid[2]
           i == at[1]
           j == at[2]
           a == p[1]
           b == p[2]
<1>1. h \in Nat \ {0} /\ w \in Nat \ {0} /\ P = h * w
  BY TaskNumbers DEF P
<1>2. i \in Nat /\ j \in Nat
  BY Positioned
<1>3. p = <<a, b>> /\ a \in 0 .. h - 1 /\ b \in 0 .. w - 1
      /\ Number(task.grid, p) = a + b * h
  BY Places DEF Number
<1>4. \/ task.output \in Distributed
      \/ task.output = SpParMat /\ task.input = SpParMat
  BY MethodTypes
<1>5. task.output \in Distributed =>
        (at \in task.SA[p] <=> Holds(task.output[1], i, p) /\ Holds(task.output[2], j, p))
  BY SketchParts, KindsOfTypes
<1>6. /\ Holds("MC", i, p) <=> i % h = a
      /\ Holds("MR", j, p) <=> j % w = b
      /\ Holds("VC", i, p) <=> i % (h * w) = a + b * h
      /\ Holds("VC", j, p) <=> j % (h * w) = a + b * h
      /\ Holds("VR", i, p) <=> i % (h * w) = b + a * w
      /\ Holds("VR", j, p) <=> j % (h * w) = b + a * w
      /\ Holds("STAR", i, p) /\ Holds("STAR", j, p)
  BY <1>1, <1>2, Places
<1>7. Owner(i, j) =
        CASE task.output = MC_MR -> (j % w) * h + (i % h)
          [] task.output = <<"STAR", "VR">> -> ((j \div w) % h) + (j % w) * h
          [] task.output = <<"VR", "STAR">> -> ((i \div w) % h) + (i % w) * h
          [] task.output = <<"STAR", "VC">> -> j % (h * w)
          [] task.output = <<"VC", "STAR">> -> i % (h * w)
          [] task.output = SpParMat -> LastOf(i \div (SHeight \div h), h) * h
                                         + LastOf(j \div (SWidth \div h), h)
  BY DEF Owner, LastOf
<1>8. MC_MR = <<"MC", "MR">> /\ SpParMat \notin Distributed
  BY KindsOfTypes DEF MC_MR, Gridded
<1> DEFINE owner == Owner(i, j)
           number == Number(task.grid, p)
           mine == at \in task.SA[p]
<1> HIDE DEF h, w, i, j, a, b, owner, number, mine
<1>9. ASSUME NEW x \in 0 .. h - 1, NEW y \in 0 .. w - 1
      PROVE  x + y * h = a + b * h <=> x = a /\ y = b
  <2>1. OnePlace(h, x, y, a, b)
    BY <1>1, <1>3, OneNumber
  <2>2. QED
    BY <2>1 DEF OnePlace
<1>10. /\ i % h \in 0 .. h - 1 /\ j % w \in 0 .. w - 1 /\ i % w \in 0 .. w - 1
       /\ (j \div w) % h \in 0 .. h - 1 /\ (i \div w) % h \in 0 .. h - 1
  BY <1>1, <1>2, DivMod
<1>11. CASE task.output = <<"MC", "MR">>
  <2>1. Owner(i, j) = (j % w) * h + (i % h)
    BY <1>7, <1>8, <1>11, KindsOfTypes
  <2>2. (j % w) * h + (i % h) = (i % h) + (j % w) * h
    BY <1>1, <1>10
  <2>3. Owner(i, j) = a + b * h <=> i % h = a /\ j % w = b
    BY <1>9, <1>10, <2>1, <2>2
  <2>4. at \in task.SA[p] <=> i % h = a /\ j % w = b
    BY <1>5, <1>6, <1>11, KindsOfTypes
  <2>5. QED
    BY <1>3, <2>3, <2>4 DEF i, j
<1>12. CASE task.output = <<"STAR", "VR">>
  <2>1. Owner(i, j) = ((j \div w) % h) + (j % w) * h
    BY <1>7, <1>8, <1>12, KindsOfTypes
  <2>2. Owner(i, j) = a + b * h <=> (j \div w) % h = a /\ j % w = b
    BY <1>9, <1>10, <2>1
  <2>3. j % (h * w) = b + a * w <=> (j \div w) % h = a /\ j % w = b
    <3>1. Digits(w, h, j, a, b)
      BY <1>1, <1>2, <1>3, TwoDigits
    <3>2. QED
      BY <3>1 DEF Digits
  <2>4. at \in task.SA[p] <=> j % (h * w) = b + a * w
    BY <1>5, <1>6, <1>12, KindsOfTypes
  <2>5. QED
    BY <1>3, <2>2, <2>3, <2>4 DEF i, j
<1>13. CASE task.output = <<"VR", "STAR">>
  <2>1. Owner(i, j) = ((i \div w) % h) + (i % w) * h
    BY <1>7, <1>8, <1>13, KindsOfTypes
  <2>2. Owner(i, j) = a + b * h <=> (i \div w) % h = a /\ i % w = b
    BY <1>9, <1>10, <2>1
  <2>3. i % (h * w) = b + a * w <=> (i \div w) % h = a /\ i % w = b
    <3>1. Digits(w, h, i, a, b)
      BY <1>1, <1>2, <1>3, TwoDigits
    <3>2. QED
      BY <3>1 DEF Digits
  <2>4. at \in task.SA[p] <=> i % (h * w) = b + a * w
    BY <1>5, <1>6, <1>13, KindsOfTypes
  <2>5. QED
    BY <1>3, <2>2, <2>3, <2>4 DEF i, j
<1>14. CASE task.output = <<"STAR", "VC">>
  <2>1. Owner(i, j) = j % (h * w)
    BY <1>7, <1>8, <1>14, KindsOfTypes
  <2>2. at \in task.SA[p] <=> j % (h * w) = a + b * h
    BY <1>5, <1>6, <1>14, KindsOfTypes
  <2>3. QED
    BY <1>3, <2>1, <2>2 DEF i, j
<1>15. CASE task.output = <<"VC", "STAR">>
  <2>1. Owner(i, j) = i % (h * w)
    BY <1>7, <1>8, <1>15, KindsOfTypes
  <2>2. at \in task.SA[p] <=> i % (h * w) = a + b * h
    BY <1>5, <1>6, <1>15, KindsOfTypes
  <2>3. QED
    BY <1>3, <2>1, <2>2 DEF i, j
<1>16. CASE task.output = SpParMat /\ task.input = SpParMat
  <2> DEFINE m == SHeight \div h
             n == SWidth \div h
             x == LastOf(i \div m, h)
             y == LastOf(j \div n, h)
             k == Place(task.grid, p)
  <2>1. h = w /\ SHeight >= h /\ SWidth >= h
    BY <1>16, InputTypes DEF h, w
  <2>2. SHeight \in Nat \ {0} /\ SWidth \in Nat \ {0}
    BY SketchSizes
  <2>3. m \in Nat /\ m # 0 /\ n \in Nat /\ n # 0
    <3> DEFINE c == SHeight
               d == SWidth
    <3>1. c \in Nat /\ d \in Nat /\ c >= h /\ d >= h
      BY <2>1, <2>2
    <3> HIDE DEF c, d
    <3>2. ASSUME NEW z \in Nat, z >= h PROVE z \div h \in Nat /\ z \div h # 0
      <4>1. z \div h \in Nat /\ z % h \in 0 .. h - 1 /\ z = h * (z \div h) + (z % h)
        BY <1>1, DivMod
      <4>2. z \div h = 0 => h * (z \div h) = 0
        BY <1>1
      <4>3. QED
        BY <1>1, <3>2, <4>1, <4>2
    <3>3. c \div h \in Nat /\ c \div h # 0 /\ d \div h \in Nat /\ d \div h # 0
      BY <3>1, <3>2
    <3>4. QED
      BY <3>3 DEF c, d
  <2> HIDE DEF m, n
  <2>4. i \div m \in Nat /\ j \div n \in Nat
    BY <1>2, <2>3, DivMod
  <2>5. x \in 0 .. h - 1 /\ y \in 0 .. h - 1
    BY <1>1, <2>4 DEF LastOf
  <2>6. k[1] \in 0 .. h - 1 /\ k[2] \in 0 .. h - 1
        /\ k[1] * h + k[2] = Number(task.grid, p)
    BY <2>1, Placed DEF h, w
  <2>7. Owner(i, j) = x * h + y
    BY <1>7, <1>8, <1>16, KindsOfTypes DEF m, n
  <2>8. at \in task.SA[p] <=> x = k[1] /\ y = k[2]
    <3>1. task.SA[p] = Block(h, SHeight, k[1]) \X Block(h, SWidth, k[2])
      BY <1>16, SketchParts DEF h
    <3>2. /\ Block(h, SHeight, k[1]) = {z \in 0 .. SHeight - 1 : LastOf(z \div m, h) = k[1]}
          /\ Block(h, SWidth, k[2]) = {z \in 0 .. SWidth - 1 : LastOf(z \div n, h) = k[2]}
      <4> HIDE DEF k
      <4>1. QED
        BY <1>1, <2>2, <2>3, <2>6, BlockOf DEF m, n
    <3>3. at = <<i, j>> /\ i \in 0 .. SHeight - 1 /\ j \in 0 .. SWidth - 1
      BY DEF Positions, i, j
    <3>4. QED
      BY <3>1, <3>2, <3>3
  <2> HIDE DEF x, y, k
  <2>9. /\ x * h + y = y + x * h /\ k[1] * h + k[2] = k[2] + k[1] * h
    BY <1>1, <2>5, <2>6
  <2>10. OnePlace(h, y, x, k[2], k[1])
    BY <1>1, <2>5, <2>6, OneNumber
  <2>11. x * h + y = k[1] * h + k[2] <=> x = k[1] /\ y = k[2]
    BY <2>9, <2>10 DEF OnePlace
  <2>12. QED
    BY <2>6, <2>7, <2>8, <2>11 DEF i, j
<1>17. QED
  BY <1>4, <1>11, <1>12, <1>13, <1>14, <1>15, <1>16, KindsOfTypes
-----------------------------------------------------------------------------
(***************************************************************************)
(* proc_start_idx: what is exposed is in the order of the ranks it is for, *)
(* each part starting where those before it end.                           *)
(***************************************************************************)
SumUpTo(f, n) == SumFunction([w \in 1 .. n |-> f[w]])

LEMMA SumOfNone == \A f : SumUpTo(f, 0) = 0
<1> SUFFICES ASSUME NEW f PROVE SumUpTo(f, 0) = 0
  OBVIOUS
<1> DEFINE g == [w \in 1 .. 0 |-> f[w]]
<1>1. 1 .. 0 = {} /\ g \in [{} -> Int]
  OBVIOUS
<1>2. IsFiniteSet({})
  BY FS_EmptySet
<1> HIDE DEF g
<1>3. PICK L : Ledger(L, {}, g)
  BY <1>1, <1>2, LedgerExists
<1>4. SumFunction(g) = L[{}]
  BY <1>2, <1>3, SumIsLedger
<1>5. L[{}] = 0
  BY <1>3 DEF Ledger
<1>6. QED
  BY <1>4, <1>5 DEF SumUpTo, g

LEMMA SumOfNext ==
  ASSUME NEW n \in Nat, NEW f, \A w \in 1 .. n + 1 : f[w] \in Int
  PROVE  SumUpTo(f, n) \in Int /\ SumUpTo(f, n + 1) = SumUpTo(f, n) + f[n + 1]
<1> DEFINE S == 1 .. n
           T == 1 .. n + 1
           g == [w \in S |-> f[w]]
           h == [w \in T |-> f[w]]
<1>1. S \subseteq T /\ T = S \cup {n + 1} /\ n + 1 \in T \ S
  OBVIOUS
<1>2. IsFiniteSet(S) /\ IsFiniteSet(T)
  <2>1. 1 \in Int /\ n \in Int /\ n + 1 \in Int
    OBVIOUS
  <2>2. QED
    BY <2>1, FS_Interval
<1>3. g \in [S -> Int] /\ h \in [T -> Int] /\ h[n + 1] = f[n + 1]
      /\ \A w \in S : g[w] = h[w]
  BY <1>1
<1>4. SumUpTo(f, n) = SumFunction(g) /\ SumUpTo(f, n + 1) = SumFunction(h)
  BY DEF SumUpTo
<1> HIDE DEF S, T, g, h
<1>5. PICK L : Ledger(L, T, h)
  BY <1>2, <1>3, LedgerExists
<1> DEFINE M == [U \in SUBSET S |-> L[U]]
<1>6. Ledger(M, S, g)
  <2>1. M \in [SUBSET S -> Int] /\ M[{}] = 0
    BY <1>1, <1>5 DEF Ledger
  <2>2. ASSUME NEW U \in SUBSET S, NEW e \in S \ U
        PROVE  M[U \cup {e}] = M[U] + g[e]
    <3>1. U \in SUBSET T /\ e \in T \ U /\ U \cup {e} \in SUBSET S
      BY <1>1
    <3>2. L[U \cup {e}] = L[U] + h[e]
      BY <1>5, <3>1 DEF Ledger
    <3>3. QED
      BY <1>3, <3>1, <3>2
  <2> HIDE DEF M
  <2>3. QED
    BY <1>3, <2>1, <2>2 DEF Ledger
<1>7. M[S] = L[S]
  OBVIOUS
<1> HIDE DEF M
<1>8. SumFunction(g) = L[S] /\ SumFunction(h) = L[T]
  BY <1>2, <1>5, <1>6, <1>7, SumIsLedger
<1>9. L[T] = L[S] + f[n + 1] /\ L[S] \in Int
  BY <1>1, <1>3, <1>5 DEF Ledger
<1>10. QED
  BY <1>4, <1>8, <1>9

(* Putting two sequences together, and taking a part of one.               *)
LEMMA Joined ==
  ASSUME NEW X, NEW a \in Seq(X), NEW b \in Seq(X)
  PROVE  /\ a \o b \in Seq(X) /\ Len(a \o b) = Len(a) + Len(b)
         /\ Len(a) \in Nat /\ Len(b) \in Nat
         /\ \A i \in 1 .. Len(a) + Len(b) :
               (a \o b)[i] = IF i <= Len(a) THEN a[i] ELSE b[i - Len(a)]
OBVIOUS

LEMMA Within ==
  ASSUME NEW from \in Nat, NEW n \in Nat, NEW l \in Nat, from + n <= l,
         NEW k \in 1 .. n
  PROVE  (from + 1) + k - 1 = from + k /\ from + k \in 1 .. l
OBVIOUS

LEMMA PartOf ==
  ASSUME NEW s, NEW m \in Int, NEW n \in Int
  PROVE  SubSeq(s, m, n) = [k \in 1 .. n - m + 1 |-> s[m + k - 1]]
OBVIOUS

LEMMA WiderSequence ==
  ASSUME NEW X, NEW Y, X \subseteq Y, NEW s \in Seq(X)
  PROVE  s \in Seq(Y)
OBVIOUS

StartsOf(q, n) ==
  [v \in 1 .. n + 1 |-> SumFunction([w \in 1 .. v - 1 |-> Len(q[w])])]

Segmented(X, n, q, start) ==
  /\ start[1] = 0
  /\ FlattenSeq(q) \in Seq(X) /\ Len(FlattenSeq(q)) = start[n + 1]
  /\ \A v \in 1 .. n :
        /\ start[v] \in Nat /\ start[v + 1] = start[v] + Len(q[v])
        /\ start[v + 1] <= Len(FlattenSeq(q))
        /\ \A k \in 1 .. Len(q[v]) : FlattenSeq(q)[start[v] + k] = q[v][k]

(* Where each of n sequences is when they are put one behind the other.    *)
LEMMA Segments ==
  ASSUME NEW n \in Nat \ {0}, NEW X, NEW q \in [1 .. n -> Seq(X)], NEW start,
         start = StartsOf(q, n)
  PROVE  Segmented(X, n, q, start)
<1> DEFINE l == [v \in 1 .. n |-> Len(q[v])]
<1>1. \A v \in 1 .. n : l[v] = Len(q[v]) /\ l[v] \in Nat /\ l[v] \in Int
  OBVIOUS
<1>2. \A m \in 0 .. n : start[m + 1] = SumUpTo(l, m)
  <2> SUFFICES ASSUME NEW m \in 0 .. n PROVE start[m + 1] = SumUpTo(l, m)
    OBVIOUS
  <2>1. m + 1 \in 1 .. n + 1 /\ (m + 1) - 1 = m
    OBVIOUS
  <2>2. start[m + 1] = SumFunction([w \in 1 .. m |-> Len(q[w])])
    BY <2>1 DEF StartsOf
  <2>3. [w \in 1 .. m |-> Len(q[w])] = [w \in 1 .. m |-> l[w]]
    OBVIOUS
  <2>4. QED
    BY <2>2, <2>3 DEF SumUpTo
<1> HIDE DEF l
<1>3. start[1] = 0
  <2>1. 0 \in 0 .. n /\ 0 + 1 = 1
    OBVIOUS
  <2>2. QED
    BY <1>2, <2>1, SumOfNone
<1>4. ASSUME NEW v \in 1 .. n
      PROVE  start[v + 1] = start[v] + Len(q[v]) /\ start[v] \in Int
  <2> DEFINE m == v - 1
  <2>1. m \in Nat /\ m + 1 = v /\ m \in 0 .. n /\ v \in 0 .. n
    OBVIOUS
  <2> HIDE DEF m
  <2>2. \A w \in 1 .. m + 1 : l[w] \in Int
    BY <1>1, <2>1
  <2>3. SumUpTo(l, m) \in Int /\ SumUpTo(l, m + 1) = SumUpTo(l, m) + l[m + 1]
    BY <2>1, <2>2, SumOfNext
  <2>4. start[v] = SumUpTo(l, m) /\ start[v + 1] = SumUpTo(l, v)
    BY <1>2, <2>1
  <2>5. QED
    BY <1>1, <2>1, <2>3, <2>4
<1> DEFINE t == FlattenSeq(q)
<1>5. Unfolds(t, q, n)
  <2>1. n \in Nat /\ n # 0
    OBVIOUS
  <2>2. QED
    BY <2>1, Flattened
<1>6. PICK f : /\ t = f[n]
               /\ f[1] = q[1]
               /\ \A i \in 2 .. n : f[i] = f[i - 1] \o q[i]
  BY <1>5 DEF Unfolds
<1> HIDE DEF t
<1> DEFINE Fine(m) == /\ f[m] \in Seq(X) /\ Len(f[m]) = start[m + 1]
                      /\ \A v \in 1 .. m :
                           /\ start[v] \in Nat /\ start[v + 1] <= Len(f[m])
                           /\ \A k \in 1 .. Len(q[v]) : f[m][start[v] + k] = q[v][k]
           T == {m \in 1 .. n : Fine(m)}
<1>7. 1 \in T /\ 1 \in Nat
  <2>1. 1 \in 1 .. n
    OBVIOUS
  <2>2. q[1] \in Seq(X) /\ start[1 + 1] = start[1] + Len(q[1])
    BY <1>4, <2>1
  <2>3. \A v \in 1 .. 1 : v = 1
    OBVIOUS
  <2>4. Fine(1)
    BY <1>3, <1>6, <2>2, <2>3
  <2>5. QED
    BY <2>1, <2>4
<1>8. ASSUME NEW m \in 1 .. n, m \in T, m < n PROVE m + 1 \in T
  <2>1. m + 1 \in 1 .. n /\ m + 1 \in 2 .. n /\ (m + 1) - 1 = m /\ m \in Nat
    BY <1>8
  <2>2. /\ f[m] \in Seq(X) /\ Len(f[m]) = start[m + 1]
        /\ \A v \in 1 .. m :
             /\ start[v] \in Nat /\ start[v + 1] <= Len(f[m])
             /\ \A k \in 1 .. Len(q[v]) : f[m][start[v] + k] = q[v][k]
    BY <1>8
  <2> DEFINE a == f[m]
             b == q[m + 1]
             c == f[m + 1]
  <2>3. c = a \o b /\ a \in Seq(X) /\ b \in Seq(X) /\ Len(a) = start[m + 1]
    BY <1>6, <2>1, <2>2
  <2>a. \A v \in 1 .. n : q[v] \in Seq(X)
    OBVIOUS
  <2>b. \A v \in 1 .. m :
          /\ start[v] \in Nat /\ start[v + 1] <= Len(a)
          /\ \A k \in 1 .. Len(q[v]) : a[start[v] + k] = q[v][k]
    BY <2>2
  <2>c. b = q[m + 1]
    OBVIOUS
  <2>5. start[(m + 1) + 1] = start[m + 1] + Len(b)
    BY <1>4, <2>1
  <2> HIDE DEF a, b, c, Fine
  <2>4. c \in Seq(X) /\ Len(c) = Len(a) + Len(b)
        /\ Len(a) \in Nat /\ Len(b) \in Nat
    BY <2>3, Joined
  <2>6. \A k \in 1 .. Len(a) : c[k] = a[k]
    BY <2>3
  <2>7. ASSUME NEW k \in 1 .. Len(b) PROVE c[Len(a) + k] = b[k]
    <3> DEFINE la == Len(a)
               lb == Len(b)
               j == la + k
    <3>1. la \in Nat /\ lb \in Nat /\ k \in 1 .. lb
      BY <2>4
    <3>2. j \in 1 .. la + lb /\ ~ (j <= la) /\ j - la = k
      <4> HIDE DEF la, lb
      <4>1. QED
        BY <3>1
    <3>3. \A i \in 1 .. Len(a) + Len(b) :
            (a \o b)[i] = IF i <= Len(a) THEN a[i] ELSE b[i - Len(a)]
      BY <2>3, Joined
    <3>4. (a \o b)[j] = b[j - la]
      <4> HIDE DEF j
      <4>1. QED
        BY <3>2, <3>3
    <3>5. QED
      BY <2>3, <3>2, <3>4
  <2>8. ASSUME NEW v \in 1 .. m + 1
        PROVE  /\ start[v] \in Nat /\ start[v + 1] <= Len(c)
               /\ \A k \in 1 .. Len(q[v]) : c[start[v] + k] = q[v][k]
    <3>1. CASE v = m + 1
      <4>1. start[v] = Len(a) /\ start[v + 1] = Len(c) /\ q[v] = b
        BY <2>3, <2>4, <2>5, <2>c, <3>1
      <4>2. \A k \in 1 .. Len(b) : c[start[v] + k] = b[k]
        BY <2>7, <4>1
      <4>3. start[v] \in Nat /\ start[v + 1] <= Len(c)
        BY <2>4, <4>1
      <4>4. QED
        BY <4>1, <4>2, <4>3
    <3>2. CASE v # m + 1
      <4>1. v \in 1 .. m /\ v \in 1 .. n
        BY <2>1, <3>2
      <4>2. start[v] \in Nat /\ start[v + 1] <= Len(a)
            /\ \A k \in 1 .. Len(q[v]) : a[start[v] + k] = q[v][k]
        BY <2>b, <4>1
      <4>3. start[v + 1] = start[v] + Len(q[v]) /\ q[v] \in Seq(X)
        BY <1>4, <2>a, <4>1
      <4> DEFINE l1 == Len(q[v])
                 s == start[v]
      <4>6. l1 \in Nat
        BY <4>3
      <4>7. s \in Nat /\ s + l1 <= Len(a) /\ start[v + 1] = s + l1
        BY <4>2, <4>3
      <4>8. ASSUME NEW k \in 1 .. Len(q[v]) PROVE c[start[v] + k] = q[v][k]
        <5>1. k \in 1 .. l1
          OBVIOUS
        <5> HIDE DEF l1, s
        <5>2. s + k \in 1 .. Len(a)
          BY <2>4, <4>6, <4>7, <5>1
        <5>3. c[s + k] = a[s + k]
          BY <2>6, <5>2
        <5>4. QED
          BY <4>2, <5>3 DEF s
      <4>9. start[v + 1] <= Len(c)
        <5> HIDE DEF l1, s
        <5>1. QED
          BY <2>4, <4>6, <4>7
      <4>10. QED
        BY <4>2, <4>8, <4>9
    <3>3. QED
      BY <3>1, <3>2
  <2>9. Fine(m + 1)
    <3>1. Len(c) = start[(m + 1) + 1]
      BY <2>3, <2>4, <2>5
    <3>2. QED
      BY <2>4, <2>8, <3>1 DEF Fine, c
  <2>10. QED
    BY <2>1, <2>9
<1> HIDE DEF T
<1>9. \A m \in 1 .. n : m \in T
  <2>1. n \in Nat
    OBVIOUS
  <2>2. QED
    BY <1>7, <1>8, <2>1, UpTo
<1>10. Fine(n)
  <2>1. n \in 1 .. n
    OBVIOUS
  <2>2. QED
    BY <1>9, <2>1 DEF T
<1>11. QED
  BY <1>3, <1>4, <1>6, <1>10 DEF t, Segmented
-----------------------------------------------------------------------------
(***************************************************************************)
(* Windows: what a process exposes for another one.                        *)
(***************************************************************************)
SlotAts(q, v) == {at \in Ats(q) : Owner(at[1], at[2]) = v}

SlotOf(q, v) == Slots({Pos(FinalPos(e)) : e \in task.A[q]}, v)

(* A slot has, once each, the positions of what its rank owns.             *)
LEMMA SlotEnumerates ==
  ASSUME TaskOK, NEW q \in Rank, NEW v
  PROVE  /\ Enumerates(SlotOf(q, v), {Pos(at) : at \in SlotAts(q, v)})
         /\ SlotOf(q, v) \in Seq(Nat)
<1> DEFINE positions == {Pos(FinalPos(e)) : e \in task.A[q]}
           E == {pos \in positions : Owner(AtPos(pos)[1], AtPos(pos)[2]) = v}
           F == {Pos(at) : at \in SlotAts(q, v)}
           n == SHeight * SWidth
<1>1. \A at \in Ats(q) : at \in Positions(SHeight, SWidth)
  BY AtsWithin
<1>2. \A at \in Ats(q) : Pos(at) \in 0 .. n /\ AtPos(Pos(at)) = at
  BY <1>1, Positioned
<1>3. positions = {Pos(at) : at \in Ats(q)}
  BY DEF Ats
<1> HIDE DEF positions, n
<1>4. E \subseteq F
  <2> SUFFICES ASSUME NEW pos \in E PROVE pos \in F
    OBVIOUS
  <2>1. PICK at \in Ats(q) : pos = Pos(at)
    BY <1>3
  <2>2. at \in SlotAts(q, v)
    BY <1>2, <2>1 DEF SlotAts
  <2>3. QED
    BY <2>1, <2>2
<1>5. F \subseteq E
  <2> SUFFICES ASSUME NEW at \in SlotAts(q, v) PROVE Pos(at) \in E
    OBVIOUS
  <2>1. at \in Ats(q) /\ Owner(at[1], at[2]) = v
    BY DEF SlotAts
  <2>2. Pos(at) \in positions /\ AtPos(Pos(at)) = at
    BY <1>2, <1>3, <2>1
  <2>3. QED
    BY <2>1, <2>2
<1>6. E \subseteq 0 .. n
  BY <1>2, <1>3
<1>7. n \in Nat
  BY SketchSizes DEF n
<1>8. SlotOf(q, v) = InOrder(E)
  BY DEF SlotOf, Slots, positions
<1> HIDE DEF E, F
<1>9. Enumerates(InOrder(E), E)
  BY <1>6, <1>7, InOrderEnumerates
<1>10. E = F
  BY <1>4, <1>5
<1>a. E \subseteq Nat
  BY <1>6, <1>7
<1>11. Enumerates(SlotOf(q, v), F) /\ SlotOf(q, v) \in Seq(E)
  BY <1>8, <1>9, <1>10 DEF Enumerates
<1>12. SlotOf(q, v) \in Seq(Nat)
  BY <1>11, <1>a, WiderSequence
<1>13. QED
  BY <1>11, <1>12 DEF F

SlotCell(q, pos) == [pos |-> pos, terms |-> TermsAt(task.A[q], AtPos(pos))]

ArraysOf(q) == Arrays(q, Targets(q))

Between(q, v, from, to) ==
  /\ from \in Nat /\ to \in Nat /\ from <= to
  /\ SubSeq(ArraysOf(q).cells, from + 1, to) =
       [k \in 1 .. Len(SlotOf(q, v)) |-> SlotCell(q, SlotOf(q, v)[k])]

(* Between two offsets are the cells of one slot.                          *)
LEMMA CellsBetween ==
  ASSUME TaskOK, NEW q \in Rank, NEW v \in 0 .. P - 1,
         NEW from, from = ArraysOf(q).proc_start_idx[v + 1],
         NEW to, to = ArraysOf(q).proc_start_idx[v + 2]
  PROVE  Between(q, v, from, to)
<1> DEFINE positions == {Pos(FinalPos(e)) : e \in task.A[q]}
           slots == [w \in 1 .. P |-> Slots(positions, w - 1)]
           flat == FlattenSeq(slots)
           start == StartIdx(slots)
           slot == SlotOf(q, v)
           cells == ArraysOf(q).cells
<1>1. P \in Nat \ {0} /\ P \in Nat
  BY TaskNumbers
<1>2. \A w \in 1 .. P : slots[w] = SlotOf(q, w - 1)
  BY DEF SlotOf
<1>3. slots \in [1 .. P -> Seq(Nat)]
  <2>1. \A w \in 1 .. P : slots[w] \in Seq(Nat)
    BY <1>2, SlotEnumerates
  <2> DEFINE s == slots
  <2>2. s = [w \in 1 .. P |-> s[w]]
    OBVIOUS
  <2> HIDE DEF s
  <2>3. QED
    BY <2>1, <2>2 DEF s
<1>4. ArraysOf(q).proc_start_idx = start
      /\ cells = [k \in DOMAIN flat |-> SlotCell(q, flat[k])]
  BY DEF ArraysOf, Arrays, Targets, Cells, SlotCell
<1>5. start = StartsOf(slots, P)
  BY DEF StartIdx, StartsOf
<1>6. v + 1 \in 1 .. P /\ (v + 1) - 1 = v /\ (v + 1) + 1 = v + 2
  BY <1>1
<1>7. slots[v + 1] = slot
  BY <1>2, <1>6
<1> HIDE DEF slots, start, flat, slot, cells
<1>8. /\ flat \in Seq(Nat)
      /\ \A u \in 1 .. P :
           /\ start[u] \in Nat /\ start[u + 1] = start[u] + Len(slots[u])
           /\ start[u + 1] <= Len(flat)
           /\ \A k \in 1 .. Len(slots[u]) : flat[start[u] + k] = slots[u][k]
  <2>1. /\ FlattenSeq(slots) \in Seq(Nat)
        /\ \A u \in 1 .. P :
             /\ start[u] \in Nat /\ start[u + 1] = start[u] + Len(slots[u])
             /\ start[u + 1] <= Len(FlattenSeq(slots))
             /\ \A k \in 1 .. Len(slots[u]) :
                  FlattenSeq(slots)[start[u] + k] = slots[u][k]
    <3>1. slots \in [1 .. P -> Seq(Nat)] /\ start = StartsOf(slots, P)
      BY <1>3, <1>5
    <3>2. Segmented(Nat, P, slots, start)
      <4> HIDE DEF slots, start
      <4>1. QED
        BY <1>1, <3>1, Segments
    <3>3. QED
      BY <3>2 DEF Segmented
  <2>2. QED
    BY <2>1 DEF flat
<1>9. slot \in Seq(Nat) /\ Len(slot) \in Nat
  <2>1. slot \in Seq(Nat)
    BY SlotEnumerates DEF slot
  <2>2. QED
    BY <2>1
<1>10. /\ from \in Nat /\ to = from + Len(slot) /\ to <= Len(flat)
       /\ \A k \in 1 .. Len(slot) : flat[from + k] = slot[k]
  <2>1. from = start[v + 1] /\ to = start[(v + 1) + 1]
    BY <1>4, <1>6
  <2>2. QED
    BY <1>6, <1>7, <1>8, <2>1
<1>11. DOMAIN flat = 1 .. Len(flat) /\ Len(flat) \in Nat
  BY <1>8
<1> DEFINE n == Len(slot)
           part == SubSeq(cells, from + 1, to)
           m == from + 1
<1> HIDE DEF n
<1>13. (to - m) + 1 = n /\ n \in Nat /\ m \in Int /\ to \in Int
  <2>1. n \in Nat /\ to = from + n /\ from \in Nat
    BY <1>9, <1>10 DEF n
  <2>2. QED
    BY <2>1
<1>14. part = [k \in 1 .. n |-> cells[(from + 1) + k - 1]]
  <2> HIDE DEF m
  <2>1. SubSeq(cells, m, to) = [k \in 1 .. to - m + 1 |-> cells[m + k - 1]]
    BY <1>13, PartOf
  <2>2. SubSeq(cells, m, to) = [k \in 1 .. n |-> cells[m + k - 1]]
    BY <1>13, <2>1
  <2>3. QED
    BY <2>2 DEF m
<1> HIDE DEF part, m
<1>15. ASSUME NEW k \in 1 .. n
       PROVE  cells[(from + 1) + k - 1] = SlotCell(q, slot[k])
  <2>a. to = from + n /\ to <= Len(flat) /\ from \in Nat
    BY <1>10 DEF n
  <2>1. (from + 1) + k - 1 = from + k /\ from + k \in 1 .. Len(flat)
    <3> DEFINE l == Len(flat)
    <3>1. l \in Nat /\ from + n <= l
      BY <1>11, <2>a
    <3> HIDE DEF l
    <3>2. n \in Nat /\ from \in Nat /\ k \in 1 .. n
      BY <1>13, <2>a
    <3>3. (from + 1) + k - 1 = from + k /\ from + k \in 1 .. l
      BY <3>1, <3>2, Within
    <3>4. QED
      BY <3>3 DEF l
  <2>2. flat[from + k] = slot[k]
    BY <1>10 DEF n
  <2>3. cells[from + k] = SlotCell(q, flat[from + k])
    BY <1>4, <1>11, <2>1
  <2>4. QED
    BY <2>1, <2>2, <2>3
<1>16. part = [k \in 1 .. n |-> SlotCell(q, slot[k])]
  BY <1>14, <1>15
<1>17. from <= to /\ to \in Nat
  BY <1>9, <1>10
<1>18. QED
  BY <1>10, <1>16, <1>17 DEF part, cells, n, slot, Between

(* What is between two offsets: the sums of q for what rank v owns, each   *)
(* at a position of its own.                                               *)
Carry(cells, q, v) ==
  /\ Len(cells) \in Nat /\ cells = [k \in 1 .. Len(cells) |-> cells[k]]
  /\ \A k \in 1 .. Len(cells) :
        /\ AtPos(cells[k].pos) \in SlotAts(q, v)
        /\ Enumerates(cells[k].terms, TermsIn(task.A[q], AtPos(cells[k].pos)))
  /\ \A at \in SlotAts(q, v) : \E k \in 1 .. Len(cells) : AtPos(cells[k].pos) = at
  /\ \A j, k \in 1 .. Len(cells) :
        AtPos(cells[j].pos) = AtPos(cells[k].pos) => j = k

(* The cells of a slot carry that.                                         *)
LEMMA CellsCarry ==
  ASSUME TaskOK, NEW q \in Rank, NEW v, NEW cells,
         cells = [k \in 1 .. Len(SlotOf(q, v)) |-> SlotCell(q, SlotOf(q, v)[k])]
  PROVE  Carry(cells, q, v)
<1> DEFINE slot == SlotOf(q, v)
           n == Len(slot)
           S == {Pos(at) : at \in SlotAts(q, v)}
<1>1. Enumerates(slot, S)
  BY SlotEnumerates
<1>2. \A at \in SlotAts(q, v) : AtPos(Pos(at)) = at
  BY AtsWithin, Positioned DEF SlotAts
<1>3. IsFiniteSet(task.A[q])
  BY EntriesOfA
<1>4. cells = [k \in 1 .. n |-> SlotCell(q, slot[k])]
  OBVIOUS
<1> HIDE DEF slot, S
<1>5. n \in Nat /\ \A k \in 1 .. n : slot[k] \in S
  BY <1>1 DEF Enumerates
<1>6. \A e \in S : \E k \in 1 .. n : slot[k] = e
  BY <1>1 DEF Enumerates
<1>7. \A j, k \in 1 .. n : slot[j] = slot[k] => j = k
  BY <1>1 DEF Enumerates
<1> HIDE DEF n
<1>8. Len(cells) = n
  BY <1>4, <1>5
<1>9. \A k \in 1 .. n : /\ cells[k].pos = slot[k]
                        /\ cells[k].terms = TermsAt(task.A[q], AtPos(slot[k]))
  <2>1. \A k \in 1 .. n : cells[k] = SlotCell(q, slot[k])
    BY <1>4
  <2>2. \A pos : /\ SlotCell(q, pos).pos = pos
                 /\ SlotCell(q, pos).terms = TermsAt(task.A[q], AtPos(pos))
    BY DEF SlotCell
  <2>3. QED
    BY <2>1, <2>2
<1>10. ASSUME NEW k \in 1 .. n
       PROVE  AtPos(slot[k]) \in SlotAts(q, v) /\ Pos(AtPos(slot[k])) = slot[k]
  <2>1. PICK at \in SlotAts(q, v) : slot[k] = Pos(at)
    BY <1>5 DEF S
  <2>2. QED
    BY <1>2, <2>1
<1>11. ASSUME NEW k \in 1 .. n
       PROVE  Enumerates(cells[k].terms, TermsIn(task.A[q], AtPos(cells[k].pos)))
  BY <1>3, <1>9, TermsAtEnumerates
<1>12. ASSUME NEW at \in SlotAts(q, v)
       PROVE  \E k \in 1 .. n : AtPos(cells[k].pos) = at
  <2>1. Pos(at) \in S
    BY DEF S
  <2>2. PICK k \in 1 .. n : slot[k] = Pos(at)
    BY <1>6, <2>1
  <2>3. QED
    BY <1>2, <1>9, <2>2
<1>13. ASSUME NEW j \in 1 .. n, NEW k \in 1 .. n,
              AtPos(cells[j].pos) = AtPos(cells[k].pos)
       PROVE  j = k
  <2>1. slot[j] = slot[k]
    BY <1>9, <1>10, <1>13
  <2>2. QED
    BY <1>7, <2>1
<1>14. cells = [k \in 1 .. n |-> cells[k]]
  BY <1>4
<1>15. \A k \in 1 .. n : AtPos(cells[k].pos) \in SlotAts(q, v)
  BY <1>9, <1>10
<1>16. QED
  BY <1>5, <1>8, <1>11, <1>12, <1>13, <1>14, <1>15 DEF Carry

(* One process more.                                                       *)
LEMMA FirstMore ==
  ASSUME TaskOK, task.input # S_S, NEW n \in 0 .. P - 1, NEW at
  PROVE  /\ TermsIn(First(n + 1), at) =
              TermsIn(First(n), at) \cup TermsIn(task.A[Process(n)], at)
         /\ TermsIn(First(n), at) \cap TermsIn(task.A[Process(n)], at) = {}
<1>1. First(n + 1) = First(n) \cup task.A[Process(n)]
  BY FirstAll
<1>2. TermsIn(First(n) \cup task.A[Process(n)], at) =
        TermsIn(First(n), at) \cup TermsIn(task.A[Process(n)], at)
  BY DEF TermsIn
<1>3. P \in Nat \ {0}
  BY TaskNumbers
<1>4. n + 1 \in 1 .. P /\ (n + 1) - 1 = n /\ n \in 0 .. P
  BY <1>3
<1>5. First(n) \cap task.A[Process(n)] = {}
  <2> SUFFICES ASSUME NEW e \in First(n), e \in task.A[Process(n)] PROVE FALSE
    OBVIOUS
  <2>1. PICK v \in 1 .. n : e \in task.A[Process(v - 1)]
    BY DEF First
  <2>2. v \in 1 .. P /\ v # n + 1
    BY <1>3
  <2>3. task.A[Process(v - 1)] \cap task.A[Process((n + 1) - 1)] = {}
    BY <1>4, <2>2, OthersApart
  <2>4. QED
    BY <1>4, <2>1, <2>3
<1>6. First(n) \subseteq All /\ task.A[Process(n)] \subseteq All
  <2>1. Process(n) \in Rank
    BY Numbered
  <2>2. QED
    BY <1>4, <2>1, FirstAll DEF All
<1>7. TermsIn(First(n), at) \cap TermsIn(task.A[Process(n)], at) = {}
  BY <1>5, <1>6, TermsApart
<1>8. QED
  BY <1>1, <1>2, <1>7

(* UpdateLocal with what the next process sends.                           *)
LEMMA UpdatedMore ==
  ASSUME TaskOK, task.input # S_S, Method = "window", NEW p \in Rank,
         NEW n \in 0 .. P - 1, NEW cells,
         Carry(cells, Process(n), Number(task.grid, p)),
         NEW held, DOMAIN held = task.SA[p],
         \A at \in DOMAIN held : Enumerates(held[at], TermsIn(First(n), at))
  PROVE  /\ DOMAIN UpdatedBy(cells, held) = task.SA[p]
         /\ \A at \in task.SA[p] :
               Enumerates(UpdatedBy(cells, held)[at], TermsIn(First(n + 1), at))
<1>1. DOMAIN UpdatedBy(cells, held) = task.SA[p]
  BY DEF UpdatedBy
<1>2. ASSUME NEW at \in task.SA[p]
      PROVE  Enumerates(UpdatedBy(cells, held)[at], TermsIn(First(n + 1), at))
  <2> DEFINE q == Process(n)
             m == Len(cells)
             T == TermsIn(task.A[q], at)
             W == [k \in 1 .. m |-> IF AtPos(cells[k].pos) = at THEN T ELSE {}]
             l == [k \in 1 .. m |-> IF AtPos(cells[k].pos) = at
                                    THEN cells[k].terms ELSE << >>]
             V0 == {l[k] : k \in 1 .. m}
  <2>1. q \in Rank
    BY Numbered
  <2>2. m \in Nat /\ DOMAIN cells = 1 .. m
    BY DEF Carry
  <2>3. UpdatedBy(cells, held)[at] = held[at] \o FlattenSeq(l)
    BY <2>2 DEF UpdatedBy
  <2>4. \A k \in 1 .. m : Enumerates(l[k], W[k])
    BY EnumeratesNothing DEF Carry
  <2>5. \A i, j \in 1 .. m : i # j => W[i] \cap W[j] = {}
    BY DEF Carry
  <2>6. l \in [1 .. m -> V0]
    OBVIOUS
  <2>7. Together(m, W) = T
    <3>1. Together(m, W) \subseteq T
      BY DEF Together
    <3>2. ASSUME NEW t \in T PROVE t \in Together(m, W)
      <4>1. at \in Ats(q)
        BY <2>1, AtsWithin
      <4>2. at \in Positions(SHeight, SWidth)
        BY SketchParts
      <4>3. Owner(at[1], at[2]) = Number(task.grid, p)
        BY <4>2, OwnerHolds
      <4>4. at \in SlotAts(q, Number(task.grid, p))
        BY <4>1, <4>3 DEF SlotAts
      <4>5. PICK k \in 1 .. m : AtPos(cells[k].pos) = at
        BY <4>4 DEF Carry
      <4>6. W[k] = T
        BY <4>5
      <4>7. QED
        BY <4>6 DEF Together
    <3>3. QED
      BY <3>1, <3>2
  <2> HIDE DEF W, l, V0, T, m
  <2>8. Enumerates(FlattenSeq(l), Together(m, W))
    BY <2>2, <2>4, <2>5, <2>6, EnumeratesAll
  <2>9. Enumerates(held[at], TermsIn(First(n), at))
    OBVIOUS
  <2>10. /\ TermsIn(First(n + 1), at) = TermsIn(First(n), at) \cup T
         /\ TermsIn(First(n), at) \cap T = {}
    BY FirstMore DEF T
  <2>11. Enumerates(held[at] \o FlattenSeq(l), TermsIn(First(n), at) \cup T)
    BY <2>7, <2>8, <2>9, <2>10, EnumeratesBoth
  <2>12. QED
    BY <2>3, <2>10, <2>11
<1>3. QED
  BY <1>1, <1>2

(***************************************************************************)
(* The tuples of a sparse sketch.                                          *)
(***************************************************************************)
LEMMA Appended ==
  ASSUME NEW s, Len(s) \in Nat, s = [k \in 1 .. Len(s) |-> s[k]], NEW e
  PROVE  /\ Append(s, e) = [k \in 1 .. Len(s) + 1 |-> Append(s, e)[k]]
         /\ Len(Append(s, e)) = Len(s) + 1 /\ Append(s, e)[Len(s) + 1] = e
         /\ \A k \in 1 .. Len(s) : Append(s, e)[k] = s[k]
<1> DEFINE R == {s[k] : k \in 1 .. Len(s)} \cup {e}
<1>1. s \in Seq(R)
  <2>1. \A k \in 1 .. Len(s) : s[k] \in R
    OBVIOUS
  <2> HIDE DEF R
  <2>2. QED
    BY <2>1
<1>2. e \in R
  OBVIOUS
<1> HIDE DEF R
<1>3. Append(s, e) \in Seq(R) /\ Len(Append(s, e)) = Len(s) + 1
  BY <1>1, <1>2
<1>4. Append(s, e) = [k \in 1 .. Len(Append(s, e)) |-> Append(s, e)[k]]
  <2> DEFINE t == Append(s, e)
  <2>1. t \in Seq(R)
    BY <1>3
  <2> HIDE DEF t
  <2>2. t = [k \in 1 .. Len(t) |-> t[k]]
    BY <2>1
  <2>3. QED
    BY <2>2 DEF t
<1>5. QED
  BY <1>1, <1>2, <1>3, <1>4

LEMMA OneMore ==
  ASSUME NEW n \in Nat, NEW k \in 1 .. n + 1
  PROVE  k = n + 1 \/ k \in 1 .. n
OBVIOUS

(* A sum is added to that of its position, or to the tuples.               *)
LEMMA OneTuple ==
  ASSUME NEW list, NEW shift, shift[1] \in Int, shift[2] \in Int,
         NEW W, DOMAIN W \subseteq Nat \X Nat, Listed(list, shift, W),
         NEW at \in DOMAIN W, NEW terms, NEW T, Enumerates(terms, T), T # {},
         W[at] \cap T = {},
         NEW X, DOMAIN X = DOMAIN W, X[at] = W[at] \cup T,
         \A bt \in DOMAIN W : bt # at => X[bt] = W[bt]
  PROVE  Listed(AddTuple(list, Less(at, shift), terms), shift, X)
<1> DEFINE n == Len(list)
           L == Less(at, shift)
           new == AddTuple(list, L, terms)
<1>1. \A bt \in DOMAIN W : Less(bt, shift) = L => bt = at
  BY DEF Less
<1>2. /\ n \in Nat /\ list = [k \in 1 .. n |-> list[k]]
      /\ \A k \in 1 .. n : list[k] = [at |-> list[k].at, terms |-> list[k].terms]
  BY DEF Listed
<1>3. \A k \in 1 .. n : \E bt \in DOMAIN W :
        /\ list[k].at = Less(bt, shift) /\ W[bt] # {}
        /\ Enumerates(list[k].terms, W[bt])
  BY DEF Listed
<1>4. \A bt \in DOMAIN W : W[bt] # {} =>
        \E k \in 1 .. n : list[k].at = Less(bt, shift)
  BY DEF Listed
<1>5. \A j, k \in 1 .. n : list[j].at = list[k].at => j = k
  BY DEF Listed
<1>6. DOMAIN list = 1 .. n
  BY <1>2
<1> HIDE DEF n, L, new
<1>7. CASE \E k \in 1 .. n : list[k].at = L
  <2>1. PICK i \in 1 .. n : list[i].at = L
    BY <1>7
  <2>2. new = [k \in 1 .. n |->
                 IF list[k].at = L THEN [list[k] EXCEPT !.terms = @ \o terms]
                 ELSE list[k]]
    BY <1>6, <2>1 DEF new, AddTuple
  <2>3. ASSUME NEW k \in 1 .. n
        PROVE  /\ new[k].at = list[k].at
               /\ new[k] = [at |-> new[k].at, terms |-> new[k].terms]
               /\ list[k].at = L => new[k].terms = list[k].terms \o terms
               /\ list[k].at # L => new[k].terms = list[k].terms
    <3>1. list[k] = [at |-> list[k].at, terms |-> list[k].terms]
      BY <1>2
    <3>2. CASE list[k].at = L
      <4> DEFINE l == list[k]
                 a == l.at
                 t == l.terms
      <4>1. new[k] = [l EXCEPT !.terms = @ \o terms] /\ l = [at |-> a, terms |-> t]
        BY <2>2, <3>1, <3>2
      <4> HIDE DEF l, a, t
      <4>2. new[k] = [at |-> a, terms |-> t \o terms]
        BY <4>1
      <4>3. QED
        BY <3>2, <4>2 DEF l, a, t
    <3>3. CASE list[k].at # L
      BY <2>2, <3>1, <3>3
    <3>4. QED
      BY <3>2, <3>3
  <2>4. Len(new) = n /\ new = [k \in 1 .. n |-> new[k]]
    BY <1>2, <2>2
  <2>5. ASSUME NEW k \in 1 .. n
        PROVE  \E bt \in DOMAIN X : /\ new[k].at = Less(bt, shift) /\ X[bt] # {}
                                   /\ Enumerates(new[k].terms, X[bt])
    <3>1. PICK bt \in DOMAIN W : /\ list[k].at = Less(bt, shift) /\ W[bt] # {}
                                 /\ Enumerates(list[k].terms, W[bt])
      BY <1>3
    <3>2. CASE list[k].at = L
      <4>1. bt = at
        BY <1>1, <3>1, <3>2
      <4>2. Enumerates(list[k].terms \o terms, W[at] \cup T)
        BY <3>1, <4>1, EnumeratesBoth
      <4>3. QED
        BY <2>3, <3>1, <3>2, <4>1, <4>2
    <3>3. CASE list[k].at # L
      <4>1. bt # at
        BY <3>1, <3>3 DEF L
      <4>2. QED
        BY <2>3, <3>1, <3>3, <4>1
    <3>4. QED
      BY <3>2, <3>3
  <2>6. ASSUME NEW bt \in DOMAIN X, X[bt] # {}
        PROVE  \E k \in 1 .. n : new[k].at = Less(bt, shift)
    <3>1. CASE bt = at
      BY <2>1, <2>3, <3>1 DEF L
    <3>2. CASE bt # at
      <4>1. W[bt] # {}
        BY <2>6, <3>2
      <4>2. QED
        BY <1>4, <2>3, <4>1
    <3>3. QED
      BY <3>1, <3>2
  <2>7. \A j, k \in 1 .. n : new[j].at = new[k].at => j = k
    BY <1>5, <2>3
  <2>8. QED
    BY <1>2, <2>3, <2>4, <2>5, <2>6, <2>7 DEF Listed, new, L
<1>8. CASE ~ \E k \in 1 .. n : list[k].at = L
  <2> DEFINE r == [at |-> L, terms |-> terms]
  <2>1. new = Append(list, r)
    BY <1>6, <1>8 DEF new, AddTuple
  <2>2. r = [at |-> r.at, terms |-> r.terms] /\ r.at = L /\ r.terms = terms
    OBVIOUS
  <2> HIDE DEF r
  <2>3. /\ Len(new) = n + 1 /\ new = [k \in 1 .. n + 1 |-> new[k]]
        /\ new[n + 1] = r /\ \A k \in 1 .. n : new[k] = list[k]
    <3>1. Len(list) \in Nat /\ list = [k \in 1 .. Len(list) |-> list[k]]
      BY <1>2 DEF n
    <3> DEFINE longer == Append(list, r)
    <3>2. /\ longer = [k \in 1 .. Len(list) + 1 |-> longer[k]]
          /\ Len(longer) = Len(list) + 1 /\ longer[Len(list) + 1] = r
          /\ \A k \in 1 .. Len(list) : longer[k] = list[k]
      BY <3>1, Appended
    <3>3. longer = new
      BY <2>1
    <3> HIDE DEF longer
    <3>4. QED
      BY <3>2, <3>3 DEF n
  <2>4. W[at] = {} /\ X[at] = T
    BY <1>4, <1>8 DEF L
  <2>5. \A k \in 1 .. n + 1 : k = n + 1 \/ k \in 1 .. n
    BY <1>2, OneMore
  <2>6. n + 1 \in 1 .. n + 1 /\ \A k \in 1 .. n : k \in 1 .. n + 1
    BY <1>2
  <2>7. ASSUME NEW k \in 1 .. n + 1
        PROVE  \E bt \in DOMAIN X : /\ new[k].at = Less(bt, shift) /\ X[bt] # {}
                                   /\ Enumerates(new[k].terms, X[bt])
    <3>1. CASE k = n + 1
      BY <2>2, <2>3, <2>4, <3>1 DEF L
    <3>2. CASE k \in 1 .. n
      <4>1. PICK bt \in DOMAIN W : /\ list[k].at = Less(bt, shift) /\ W[bt] # {}
                                   /\ Enumerates(list[k].terms, W[bt])
        BY <1>3, <3>2
      <4>2. bt # at
        BY <2>4, <4>1
      <4>3. QED
        BY <2>3, <3>2, <4>1, <4>2
    <3>3. QED
      BY <2>5, <3>1, <3>2
  <2>8. ASSUME NEW bt \in DOMAIN X, X[bt] # {}
        PROVE  \E k \in 1 .. n + 1 : new[k].at = Less(bt, shift)
    <3>1. CASE bt = at
      BY <2>2, <2>3, <2>6, <3>1 DEF L
    <3>2. CASE bt # at
      <4>1. PICK k \in 1 .. n : list[k].at = Less(bt, shift)
        BY <1>4, <2>8, <3>2
      <4>2. QED
        BY <2>3, <2>6, <4>1
    <3>3. QED
      BY <3>1, <3>2
  <2>9. ASSUME NEW j \in 1 .. n + 1, NEW k \in 1 .. n + 1, new[j].at = new[k].at
        PROVE  j = k
    <3>1. \A i \in 1 .. n : new[i].at # L
      BY <1>8, <2>3
    <3>2. new[n + 1].at = L
      BY <2>2, <2>3
    <3>3. CASE j \in 1 .. n /\ k \in 1 .. n
      BY <1>5, <2>3, <2>9, <3>3
    <3>4. QED
      BY <2>5, <2>9, <3>1, <3>2, <3>3
  <2>10. \A k \in 1 .. n + 1 : new[k] = [at |-> new[k].at, terms |-> new[k].terms]
    BY <1>2, <2>2, <2>3, <2>5
  <2>11. n + 1 \in Nat
    BY <1>2
  <2>12. QED
    BY <2>3, <2>7, <2>8, <2>9, <2>10, <2>11 DEF Listed, new, L
<1>9. QED
  BY <1>7, <1>8

Adds(s, start, cells, p, c) ==
  \E f : /\ s = f[c]
         /\ f[0] = start
         /\ \A n \in 0 .. c : n < c =>
              f[n + 1] = AddTuple(f[n], Less(AtPos(cells[n + 1].pos), OffsetOf(p)),
                                  cells[n + 1].terms)

(* So are those of a list of cells, one after the other.                   *)
LEMMA Adding ==
  ASSUME NEW p, NEW cells, NEW c \in Nat, c = Len(cells)
  PROVE  Adds(TuplesBy(cells, p), out[p], cells, p, c)
<1> DEFINE Step(f, n) == IF n = 0 THEN out[p]
                         ELSE AddTuple(f[n - 1],
                                       Less(AtPos(cells[n].pos), OffsetOf(p)),
                                       cells[n].terms)
           Is(f, m) == f = [n \in 0 .. m |-> Step(f, n)]
           Fine == {m \in 0 .. c : \E f : Is(f, m)}
<1>1. Is([n \in 0 .. 0 |-> out[p]], 0)
  <2>1. \A n \in 0 .. 0 : n = 0
    OBVIOUS
  <2>2. [n \in 0 .. 0 |-> out[p]]
          = [n \in 0 .. 0 |-> Step([i \in 0 .. 0 |-> out[p]], n)]
    BY <2>1
  <2>3. QED
    BY <2>2
<1>2. ASSUME NEW l \in 0 .. c, NEW g, Is(g, l), l < c
      PROVE  \E f : Is(f, l + 1)
  <2> DEFINE m == l + 1
             f == [n \in 0 .. m |-> IF n = m THEN Step(g, m) ELSE g[n]]
  <2>1. m \in 1 .. c /\ l \in 0 .. m /\ l # m /\ l = m - 1
    BY <1>2
  <2> HIDE DEF m
  <2>2. ASSUME NEW n \in 0 .. m
        PROVE  f[n] = Step(f, n)
    <3>1. CASE n = m
      <4>0. m \in 0 .. m /\ m - 1 \in 0 .. m /\ m - 1 # m /\ m # 0
        BY <2>1
      <4>1. f[m - 1] = g[m - 1] /\ f[m] = Step(g, m)
        BY <4>0
      <4>2. Step(f, m) = Step(g, m)
        BY <4>0, <4>1
      <4>3. QED
        BY <3>1, <4>1, <4>2
    <3>2. CASE n # m /\ n = 0
      <4>1. 0 \in 0 .. l /\ f[0] = g[0]
        BY <2>1, <3>2
      <4>2. g[0] = out[p]
        BY <1>2, <4>1
      <4>3. QED
        BY <3>2, <4>1, <4>2
    <3>3. CASE n # m /\ n # 0
      <4>1. n \in 0 .. l /\ n - 1 \in 0 .. m /\ n - 1 # m
        BY <2>1, <3>3
      <4>2. f[n] = g[n] /\ f[n - 1] = g[n - 1]
        BY <3>3, <4>1
      <4>3. g[n] = Step(g, n)
        BY <1>2, <3>3, <4>1
      <4>4. Step(g, n) = Step(f, n)
        BY <3>3, <4>2
      <4> HIDE DEF Step, f
      <4>5. QED
        BY <4>2, <4>3, <4>4
    <3>4. QED
      BY <3>1, <3>2, <3>3
  <2>3. f = [n \in 0 .. m |-> f[n]]
    OBVIOUS
  <2> HIDE DEF f, Step
  <2>4. Is(f, m)
    BY <2>2, <2>3
  <2>5. QED
    BY <2>4 DEF m
<1>3. \E f : Is(f, c)
  <2> HIDE DEF Is
  <2>1. 0 \in Nat /\ 0 \in Fine
    BY <1>1
  <2>2. ASSUME NEW l \in 0 .. c, l \in Fine, l < c PROVE l + 1 \in Fine
    <3>1. PICK g : Is(g, l)
      BY <2>2
    <3>2. \E f : Is(f, l + 1)
      BY <1>2, <2>2, <3>1
    <3>3. QED
      BY <2>2, <3>2
  <2> HIDE DEF Fine
  <2>3. \A l \in 0 .. c : l \in Fine
    BY <2>1, <2>2, UpTo
  <2>4. c \in Fine
    BY <2>3
  <2>5. QED
    BY <2>4 DEF Fine
<1> DEFINE f == CHOOSE g : Is(g, c)
<1>4. Is(f, c)
  <2> HIDE DEF Is
  <2>1. QED
    BY <1>3
<1>5. TuplesBy(cells, p) = f[c]
  BY DEF TuplesBy, Less
<1> HIDE DEF f
<1>6. \A n \in 0 .. c : f[n] = Step(f, n)
  BY <1>4
<1>7. f[0] = out[p]
  BY <1>6
<1>8. ASSUME NEW n \in 0 .. c, n < c
      PROVE  f[n + 1] = AddTuple(f[n], Less(AtPos(cells[n + 1].pos), OffsetOf(p)),
                               cells[n + 1].terms)
  <2>1. n + 1 \in 0 .. c /\ n + 1 # 0 /\ (n + 1) - 1 = n
    BY <1>8
  <2>2. f[n + 1] = Step(f, n + 1)
    BY <1>6, <2>1
  <2>3. QED
    BY <2>1, <2>2
<1>9. QED
  BY <1>5, <1>7, <1>8 DEF Adds

LEMMA OffsetsNatural ==
  ASSUME TaskOK, task.grid[1] = task.grid[2], NEW p \in Rank
  PROVE  OffsetOf(p)[1] \in Nat /\ OffsetOf(p)[2] \in Nat
<1> DEFINE h == task.grid[1]
           a == SHeight \div h
           b == SWidth \div h
           i == Place(task.grid, p)[1]
           j == Place(task.grid, p)[2]
<1>1. h \in Nat \ {0}
  BY TaskNumbers
<1>2. a \in Nat /\ b \in Nat
  BY <1>1, SketchSizes, DivMod
<1>3. i \in 0 .. h - 1 /\ j \in 0 .. h - 1
  BY Placed
<1>4. OffsetOf(p) = <<a * i, b * j>>
  BY DEF OffsetOf
<1> HIDE DEF h, a, b, i, j
<1>5. i \in Nat /\ j \in Nat
  BY <1>1, <1>3
<1>6. a * i \in Nat /\ b * j \in Nat
  BY <1>2, <1>5
<1>7. QED
  BY <1>4, <1>6

(* The tuples, with what the next process sends.                           *)
LEMMA TuplesMore ==
  ASSUME TaskOK, task.input # S_S, Method = "window", task.grid[1] = task.grid[2],
         NEW p \in Rank, NEW n \in 0 .. P - 1, NEW cells,
         Carry(cells, Process(n), Number(task.grid, p)),
         Listed(out[p], OffsetOf(p), [at \in task.SA[p] |-> TermsIn(First(n), at)])
  PROVE  Listed(TuplesBy(cells, p), OffsetOf(p),
                [at \in task.SA[p] |-> TermsIn(First(n + 1), at)])
<1> DEFINE q == Process(n)
           m == Len(cells)
           at(k) == AtPos(cells[k].pos)
           shift == OffsetOf(p)
           Seen(c) == {at(k) : k \in 1 .. c}
           W(c) == [bt \in task.SA[p] |->
                      IF bt \in Seen(c)
                      THEN TermsIn(First(n), bt) \cup TermsIn(task.A[q], bt)
                      ELSE TermsIn(First(n), bt)]
           s == TuplesBy(cells, p)
<1>1. q \in Rank
  BY Numbered
<1>2. m \in Nat
  BY DEF Carry
<1>3. Adds(s, out[p], cells, p, m)
  BY <1>2, Adding
<1>4. PICK f : /\ s = f[m]
               /\ f[0] = out[p]
               /\ \A c \in 0 .. m : c < m =>
                    f[c + 1] = AddTuple(f[c], Less(at(c + 1), shift),
                                        cells[c + 1].terms)
  BY <1>3 DEF Adds
<1>5. \A k \in 1 .. m : /\ at(k) \in SlotAts(q, Number(task.grid, p))
                        /\ Enumerates(cells[k].terms, TermsIn(task.A[q], at(k)))
  BY DEF Carry
<1>6. \A bt \in task.SA[p] : bt \in Positions(SHeight, SWidth)
  BY SketchParts
<1>7. ASSUME NEW bt \in Ats(q)
      PROVE  bt \in SlotAts(q, Number(task.grid, p)) <=> bt \in task.SA[p]
  <2>1. bt \in Positions(SHeight, SWidth)
    BY <1>1, AtsWithin
  <2>2. Owner(bt[1], bt[2]) = Number(task.grid, p) <=> bt \in task.SA[p]
    BY <2>1, OwnerHolds
  <2>3. QED
    BY <2>2 DEF SlotAts
<1>8. \A k \in 1 .. m : at(k) \in task.SA[p] /\ TermsIn(task.A[q], at(k)) # {}
  <2> SUFFICES ASSUME NEW k \in 1 .. m
               PROVE  at(k) \in task.SA[p] /\ TermsIn(task.A[q], at(k)) # {}
    OBVIOUS
  <2>1. at(k) \in Ats(q)
    BY <1>5 DEF SlotAts
  <2>2. QED
    BY <1>1, <1>5, <1>7, <2>1, AtsWithin
<1>9. \A bt : TermsIn(First(n), bt) \cap TermsIn(task.A[q], bt) = {}
  BY FirstMore
<1>10. \A j, k \in 1 .. m : at(j) = at(k) => j = k
  BY DEF Carry
<1>11. shift[1] \in Int /\ shift[2] \in Int
  BY OffsetsNatural
<1>12. task.SA[p] \subseteq Nat \X Nat
  BY <1>6, SketchSizes DEF Positions
<1> DEFINE T == {c \in 0 .. m : Listed(f[c], shift, W(c))}
<1>13. 0 \in T /\ 0 \in Nat
  <2>1. \A bt : bt \notin Seen(0)
    OBVIOUS
  <2> HIDE DEF Seen
  <2>2. W(0) = [bt \in task.SA[p] |-> TermsIn(First(n), bt)]
    BY <2>1
  <2>3. 0 \in 0 .. m
    BY <1>2
  <2> HIDE DEF W
  <2>4. QED
    BY <1>4, <2>2, <2>3
<1>14. ASSUME NEW c \in 0 .. m, c \in T, c < m PROVE c + 1 \in T
  <2> DEFINE k == c + 1
             a == at(k)
             terms == cells[k].terms
             N == TermsIn(task.A[q], a)
             Wc == W(c)
             Wk == W(k)
  <2>1. k \in 1 .. m /\ k \in 0 .. m /\ c \in Nat
    BY <1>2, <1>14
  <2>2. f[k] = AddTuple(f[c], Less(a, shift), terms)
    BY <1>4, <1>14
  <2>3. a \in task.SA[p] /\ N # {} /\ Enumerates(terms, N)
    BY <1>5, <1>8, <2>1
  <2>4. a \notin Seen(c)
    <3>1. \A j \in 1 .. c : j \in 1 .. m /\ j # k
      BY <1>2, <1>14
    <3>2. QED
      BY <1>10, <2>1, <3>1
  <2>5. \A bt : bt \in Seen(k) <=> bt \in Seen(c) \/ bt = a
    <3>1. \A j \in 1 .. k : j = k \/ j \in 1 .. c
      BY <2>1
    <3>2. k \in 1 .. k /\ \A j \in 1 .. c : j \in 1 .. k
      BY <2>1
    <3> HIDE DEF k
    <3>3. QED
      BY <3>1, <3>2
  <2>6. Listed(f[c], shift, Wc)
    BY <1>14
  <2>7. DOMAIN Wc = task.SA[p] /\ DOMAIN Wk = task.SA[p]
    OBVIOUS
  <2> HIDE DEF Seen, N, k
  <2>8. Wc[a] = TermsIn(First(n), a) /\ Wk[a] = TermsIn(First(n), a) \cup N
    BY <2>3, <2>4, <2>5 DEF N
  <2>9. \A bt \in task.SA[p] : bt # a => Wk[bt] = Wc[bt]
    BY <2>5
  <2>10. Wc[a] \cap N = {}
    BY <1>9, <2>8 DEF N
  <2> HIDE DEF Wc, Wk, terms, shift, a
  <2>14. /\ a \in DOMAIN Wc /\ DOMAIN Wc \subseteq Nat \X Nat
         /\ DOMAIN Wk = DOMAIN Wc /\ Wk[a] = Wc[a] \cup N
         /\ \A bt \in DOMAIN Wc : bt # a => Wk[bt] = Wc[bt]
    BY <1>12, <2>3, <2>7, <2>8, <2>9
  <2> DEFINE fc == f[c]
  <2>15. Listed(fc, shift, Wc)
    BY <2>6
  <2> HIDE DEF fc
  <2>16. Listed(AddTuple(fc, Less(a, shift), terms), shift, Wk)
    BY <1>11, <2>3, <2>10, <2>14, <2>15, OneTuple
  <2>11. Listed(AddTuple(f[c], Less(a, shift), terms), shift, Wk)
    BY <2>16 DEF fc
  <2>12. Listed(f[k], shift, W(k))
    BY <2>2, <2>11 DEF Wk
  <2>13. QED
    BY <2>1, <2>12 DEF k
<1> HIDE DEF T
<1>15. \A c \in 0 .. m : c \in T
  BY <1>2, <1>13, <1>14, UpTo
<1>16. Listed(s, shift, W(m))
  <2>1. m \in 0 .. m
    BY <1>2
  <2>2. QED
    BY <1>4, <1>15, <2>1 DEF T
<1>17. W(m) = [bt \in task.SA[p] |-> TermsIn(First(n + 1), bt)]
  <2> SUFFICES ASSUME NEW bt \in task.SA[p]
               PROVE  W(m)[bt] = TermsIn(First(n + 1), bt)
    OBVIOUS
  <2>1. TermsIn(First(n + 1), bt) = TermsIn(First(n), bt) \cup TermsIn(task.A[q], bt)
    BY FirstMore
  <2>2. CASE bt \in Ats(q)
    <3>1. bt \in SlotAts(q, Number(task.grid, p))
      BY <1>7, <2>2
    <3>2. bt \in Seen(m)
      BY <3>1 DEF Carry
    <3> HIDE DEF Seen
    <3>3. QED
      BY <2>1, <3>2
  <2>3. CASE bt \notin Ats(q)
    <3>1. TermsIn(task.A[q], bt) = {}
      BY <1>1, <2>3, AtsWithin
    <3> HIDE DEF Seen
    <3>2. QED
      BY <2>1, <3>1
  <2>4. QED
    BY <2>2, <2>3
<1> HIDE DEF W, s, shift
<1>18. Listed(s, shift, [bt \in task.SA[p] |-> TermsIn(First(n + 1), bt)])
  BY <1>16, <1>17
<1>19. QED
  BY <1>18 DEF s, shift
-----------------------------------------------------------------------------
(***************************************************************************)
(* Step by step: what a process has in the sketch after so many of its     *)
(* calls.  By Passes(s) it has read the cells of so many ranks.            *)
(***************************************************************************)
Passes(s) == IF s < 2 THEN 0 ELSE IF s <= 2 * P + 1 THEN (s - 2) \div 2 ELSE P

Contribution(p) ==
  CASE Method \in {"reduce", "all_reduce", "vectors"} -> SA_part(p)
    [] Method \in {"gather", "all_gather"} -> ColValues(p)
    [] Method = "window" -> ArraysOf(p)
    [] Method = "redistribute" -> << >>

Contributes == Method \notin {"local", "compress"}

ReadSoFar(p, s) == [at \in task.SA[p] |-> TermsIn(First(Passes(s)), at)]

(* All of its part of the sketch, and of each entry all that is owed.      *)
ShiftOf(p) == IF task.output = SpParMat THEN OffsetOf(p) ELSE <<0, 0>>

Right(p, o) ==
  IF Sparse THEN Listed(o, ShiftOf(p), OwedIn(task.SA[p]))
  ELSE \A at \in task.SA[p] : Enumerates(o[at], Owed(at))

(* Where the cells it reads next begin and end.                            *)
Slotted(p, s, off) ==
  LET from == ArraysOf(Process(Passes(s))).proc_start_idx
      v == Number(task.grid, p)
  IN  off = <<from[v + 1], from[v + 2]>>

Gathering(p, s, o) ==
  Method \in {"gather", "all_gather"} /\ ~ Sparse /\ s < 2 =>
    \A at \in task.SA[p] : o[at] = << >>

VectorsDone(p, s, o) ==
  Method = "vectors" =>
    \A at \in task.SA[p] : at[2] < s - 1 => Enumerates(o[at], Owed(at))

CellsTaken(p, s, o) ==
  Method = "window" =>
    /\ ~ Sparse => \A at \in task.SA[p] : Enumerates(o[at], ReadSoFar(p, s)[at])
    /\ Sparse /\ s >= 2 => Listed(o, OffsetOf(p), ReadSoFar(p, s))

OffsetsTaken(p, s, off) ==
  /\ off \in Nat \X Nat /\ off[1] <= off[2]
  /\ Method = "window" /\ s \in 2 .. 2 * P + 1 /\ s % 2 = 1 => Slotted(p, s, off)

Has(p, s, off, o) ==
  /\ s \in 0 .. Final
  /\ ~ Sparse => DOMAIN o = task.SA[p]
  /\ OffsetsTaken(p, s, off)
  /\ Gathering(p, s, o) /\ VectorsDone(p, s, o) /\ CellsTaken(p, s, o)
  /\ s = Final /\ Agreed /\ (Sparse => task.SA[p] # {}) => Right(p, o)

Inv == /\ TaskOK
       /\ step = [p \in Rank |-> step[p]] /\ sums = [p \in Rank |-> sums[p]]
       /\ offset = [p \in Rank |-> offset[p]] /\ out = [p \in Rank |-> out[p]]
       /\ \A p \in Rank : Contributes /\ step[p] > 0 => sums[p] = Contribution(p)
       /\ \A p \in Rank : Has(p, step[p], offset[p], out[p])

KeyAt(ats, key) == CHOOSE at \in ats : Key(at) = key

Keys(ats) == {Key(at) : at \in ats}

Valued(p, key) == TermsAt(task.A[p], KeyAt(Ats(p), key))

(* What does not change because the task does not.                         *)
LEMMA TaskStays ==
  ASSUME task' = task
  PROVE  /\ Rank' = Rank /\ TaskOK' = TaskOK /\ Contributes' = Contributes
         /\ \A p : Contribution(p)' = Contribution(p)
         /\ \A p, s, off, o : Has(p, s, off, o)' = Has(p, s, off, o)
<1>1. /\ Rank' = Rank /\ P' = P /\ Columnwise' = Columnwise /\ SHeight' = SHeight
      /\ SWidth' = SWidth /\ Extents' = Extents /\ Method' = Method
      /\ Sparse' = Sparse
  BY DEF Rank, P, Columnwise, SHeight, SWidth, Extents, Method, Sparse
<1>2. TaskOK' = TaskOK
  BY <1>1 DEF TaskOK
<1>3. Contributes' = Contributes /\ Final' = Final /\ Agreed' = Agreed
  BY <1>1 DEF Contributes, Final, Agreed, Spacious
<1>4. /\ \A e : FinalPos(e)' = FinalPos(e) /\ Term(e)' = Term(e)
      /\ \A v : Process(v)' = Process(v)
      /\ \A s : Passes(s)' = Passes(s)
      /\ \A at : Pos(at)' = Pos(at) /\ AtPos(at)' = AtPos(at) /\ Key(at)' = Key(at)
      /\ \A p : OffsetOf(p)' = OffsetOf(p)
      /\ \A i, j : Owner(i, j)' = Owner(i, j)
  BY <1>1 DEF FinalPos, Term, Process, Passes, Pos, AtPos, Key, OffsetOf, Owner
<1>5. /\ \A E, at : TermsIn(E, at)' = TermsIn(E, at)
      /\ \A E, at : TermsAt(E, at)' = TermsAt(E, at)
      /\ All' = All /\ \A n : First(n)' = First(n)
  BY <1>1, <1>4 DEF TermsIn, TermsAt, All, First
<1>6. /\ \A at : Owed(at)' = Owed(at)
      /\ \A part : OwedIn(part)' = OwedIn(part)
      /\ \A p, s : ReadSoFar(p, s)' = ReadSoFar(p, s)
      /\ \A p : ShiftOf(p)' = ShiftOf(p)
  BY <1>1, <1>4, <1>5 DEF Owed, OwedIn, ReadSoFar, ShiftOf
<1>7. /\ \A p : SA_part(p)' = SA_part(p)
      /\ \A p : ColValues(p)' = ColValues(p)
  <2>1. \A E, part : SumsOver(E, part)' = SumsOver(E, part)
    BY <1>5 DEF SumsOver
  <2>2. \A p : SA_part(p)' = SA_part(p)
    BY <1>1, <2>1 DEF SA_part
  <2>3. \A ats, key : KeyAt(ats, key)' = KeyAt(ats, key)
    BY <1>4 DEF KeyAt
  <2>a. \A p : Ats(p)' = Ats(p)
    BY <1>4 DEF Ats
  <2>b. \A p, key : Valued(p, key)' = Valued(p, key)
    BY <1>5, <2>3, <2>a DEF Valued
  <2>c. \A ats : Keys(ats)' = Keys(ats)
    BY <1>4 DEF Keys
  <2>d. \A p : ColValues(p) = [key \in Keys(Ats(p)) |-> Valued(p, key)]
    BY DEF ColValues, Valued, Keys, KeyAt, Ats
  <2>e. \A p : ColValues(p)' = [key \in Keys(Ats(p)) |-> Valued(p, key)]'
    BY DEF ColValues, Valued, Keys, KeyAt, Ats
  <2>4. \A p : ColValues(p)' = ColValues(p)
    BY <2>a, <2>b, <2>c, <2>d, <2>e
  <2>5. QED
    BY <2>2, <2>4
<1>8. \A p : ArraysOf(p)' = ArraysOf(p)
  <2>1. \A positions, v : Slots(positions, v)' = Slots(positions, v)
    BY <1>4 DEF Slots
  <2>2. \A slots : StartIdx(slots)' = StartIdx(slots)
    BY <1>1 DEF StartIdx
  <2>3. \A p, indices : Cells(p, indices)' = Cells(p, indices)
    BY <1>4, <1>5 DEF Cells
  <2>4. \A p : ArraysOf(p)' = ArraysOf(p)
    BY <1>1, <1>4, <2>1, <2>2, <2>3 DEF ArraysOf, Arrays, Targets
  <2>5. QED
    BY <2>4
<1>9. \A p : Contribution(p)' = Contribution(p)
  BY <1>1, <1>7, <1>8 DEF Contribution
<1>10. /\ \A p, o : Right(p, o)' = Right(p, o)
       /\ \A p, s, o : Gathering(p, s, o)' = Gathering(p, s, o)
       /\ \A p, s, o : VectorsDone(p, s, o)' = VectorsDone(p, s, o)
       /\ \A p, s, o : CellsTaken(p, s, o)' = CellsTaken(p, s, o)
  BY <1>1, <1>4, <1>6 DEF Right, Gathering, VectorsDone, CellsTaken
<1>11. \A p, s, off : OffsetsTaken(p, s, off)' = OffsetsTaken(p, s, off)
  BY <1>1, <1>4, <1>8 DEF OffsetsTaken, Slotted
<1>12. \A p, s, off, o : Has(p, s, off, o)' = Has(p, s, off, o)
  BY <1>1, <1>3, <1>10, <1>11 DEF Has
<1>13. QED
  BY <1>1, <1>2, <1>3, <1>9, <1>12

LEMMA Finals ==
  ASSUME TaskOK
  PROVE  /\ Final \in Nat \ {0}
         /\ Method \in {"local", "compress"} => Final = 1
         /\ Method \in {"reduce", "all_reduce", "gather", "all_gather"} => Final = 2
         /\ Method = "redistribute" => Final = 3
         /\ Method = "vectors" => Final = IF task.sized THEN task.size[2] + 1 ELSE 1
         /\ Method = "window" => Final = 2 * P + 4
<1>1. Method \in {"local", "compress"} => Final = 1
  BY DEF Final
<1>2. Method \in {"reduce", "all_reduce", "gather", "all_gather"} => Final = 2
  BY DEF Final
<1>3. Method = "redistribute" => Final = 3
  BY DEF Final
<1>4. Method = "vectors" => Final = IF task.sized THEN task.size[2] + 1 ELSE 1
  BY DEF Final
<1>5. Method = "window" => Final = 2 * P + 4
  BY DEF Final
<1>6. Method \in Methods
  BY MethodTypes
<1>7. P \in Nat /\ task.size[2] \in Nat
  BY TaskNumbers
<1>8. Final \in Nat \ {0}
  <2>1. CASE Method \in {"local", "compress", "reduce", "all_reduce", "gather",
                         "all_gather", "redistribute"}
    BY <1>1, <1>2, <1>3, <2>1
  <2>2. CASE Method = "vectors"
    <3> DEFINE n == task.size[2]
    <3>1. Final \in {n + 1, 1} /\ n \in Nat
      BY <1>4, <1>7, <2>2
    <3> HIDE DEF n
    <3>2. QED
      BY <3>1
  <2>3. CASE Method = "window"
    BY <1>5, <1>7, <2>3
  <2>4. QED
    BY <1>6, <2>1, <2>2, <2>3 DEF Methods
<1>9. QED
  BY <1>1, <1>2, <1>3, <1>4, <1>5, <1>8

(* Which sketches are sparse, and where the entries of A may be copies.    *)
LEMMA MethodKinds ==
  ASSUME TaskOK
  PROVE  /\ Method \in {"local", "reduce", "all_reduce", "redistribute",
                        "all_gather", "vectors"} => ~ Sparse
         /\ Method = "compress" => /\ Sparse /\ task.output # SpParMat
                                   /\ task.output \in Whole /\ Rank = {Root}
         /\ Method = "gather" => /\ task.output # SpParMat /\ task.output \in Whole
                                 /\ Sparse <=> task.output = SparseMatrix
                                 /\ Sparse <=> task.output # Matrix
         /\ Method = "window" => (Sparse <=> task.output = SpParMat)
         /\ Method \in {"reduce", "gather", "all_gather", "vectors", "window"} =>
              task.input # S_S
         /\ task.output = SpParMat => task.grid[1] = task.grid[2]
         /\ Method = "local" => Alone
<1>1. \A d \in Gridded : d \notin {SparseMatrix, SpParMat}
  BY KindsOfTypes DEF Whole
<1>2. Matrix \notin {SparseMatrix, SpParMat} /\ MultiVec \notin {SparseMatrix, SpParMat}
      /\ SparseMatrix # SpParMat
  BY KindsOfTypes DEF Whole
<1>3. Distributed \subseteq Gridded /\ ColDists \subseteq Gridded
      /\ RowDists \subseteq Gridded /\ S_S \in Gridded /\ CIRC_CIRC \in Gridded
      /\ MC_MR \in Gridded
  BY DEF Gridded, Distributed
<1>4. S_S \notin Distributed /\ S_S # SpParMat /\ S_S # MultiVec /\ S_S # VCStar
  <2>1. S_S \notin Distributed
    BY KindsOfTypes DEF S_S
  <2>2. QED
    BY <1>3, <2>1, KindsOfTypes
<1>5. Method \in {"local", "reduce", "all_reduce", "redistribute", "all_gather",
                  "vectors"} => ~ Sparse
  <2>1. Method = "local" => ~ Sparse
    BY <1>1, <1>2, <1>3, MethodTypes DEF Sparse
  <2>2. Method \in {"reduce", "all_reduce", "all_gather", "vectors"} => ~ Sparse
    BY <1>1, <1>2, <1>3, MethodTypes DEF Sparse
  <2>3. Method = "redistribute" => ~ Sparse
    BY <1>1, <1>3, MethodTypes DEF Sparse
  <2>4. QED
    BY <2>1, <2>2, <2>3
<1>6. Method = "compress" => /\ Sparse /\ task.output # SpParMat
                             /\ task.output \in Whole /\ Rank = {Root}
  BY <1>2, MethodTypes, InputTypes DEF Sparse, Whole
<1>7. Method = "gather" => /\ task.output # SpParMat /\ task.output \in Whole
                           /\ Sparse <=> task.output = SparseMatrix
                           /\ Sparse <=> task.output # Matrix
  BY <1>2, MethodTypes DEF Sparse, Whole
<1>8. Method = "window" => (Sparse <=> task.output = SpParMat)
  BY <1>1, <1>3, MethodTypes DEF Sparse
<1>9. Method \in {"reduce", "gather", "all_gather", "vectors", "window"} =>
        task.input # S_S
  BY <1>4, MethodTypes
<1>10. task.output = SpParMat => task.grid[1] = task.grid[2]
  BY InputTypes
<1>11. Method = "local" => Alone
  BY MethodTypes DEF Alone
<1>12. QED
  BY <1>5, <1>6, <1>7, <1>8, <1>9, <1>10, <1>11

(* Reading the offsets and then the cells makes a pass.                    *)
LEMMA PassSteps ==
  ASSUME TaskOK
  PROVE  /\ Passes(0) = 0 /\ Passes(1) = 0 /\ Passes(2) = 0
         /\ Passes(2 * P + 2) = P /\ Passes(2 * P + 3) = P /\ Passes(2 * P + 4) = P
         /\ \A s \in 2 .. 2 * P + 1 :
              /\ Passes(s) \in 0 .. P - 1 /\ Passes(s) = (s - 2) \div 2
              /\ s % 2 = 0 => (s + 1) % 2 = 1 /\ Passes(s + 1) = Passes(s)
              /\ s % 2 = 1 => (s + 1) % 2 = 0 /\ Passes(s + 1) = Passes(s) + 1
<1>1. P \in Nat \ {0}
  BY TaskNumbers
<1> DEFINE n == P
<1>2. n \in Nat /\ n >= 1
  BY <1>1
<1>3. \A s : Passes(s) = IF s < 2 THEN 0
                         ELSE IF s <= 2 * n + 1 THEN (s - 2) \div 2 ELSE n
  BY DEF Passes
<1> HIDE DEF n
<1>4. Passes(0) = 0 /\ Passes(1) = 0 /\ Passes(2) = 0
  BY <1>2, <1>3
<1>5. Passes(2 * n + 2) = n /\ Passes(2 * n + 3) = n /\ Passes(2 * n + 4) = n
  BY <1>2, <1>3
<1>6. ASSUME NEW s \in 2 .. 2 * n + 1
      PROVE  /\ Passes(s) \in 0 .. n - 1 /\ Passes(s) = (s - 2) \div 2
             /\ s % 2 = 0 => (s + 1) % 2 = 1 /\ Passes(s + 1) = Passes(s)
             /\ s % 2 = 1 => (s + 1) % 2 = 0 /\ Passes(s + 1) = Passes(s) + 1
  <2>1. Passes(s) = (s - 2) \div 2
    BY <1>2, <1>3
  <2>2. s + 1 <= 2 * n + 1 => Passes(s + 1) = ((s + 1) - 2) \div 2
    BY <1>2, <1>3
  <2>3. s = 2 * n + 1 => Passes(s + 1) = n
    BY <1>2, <1>5
  <2>4. Passes(s) \in 0 .. n - 1
    BY <1>2, <2>1
  <2>5. s % 2 = 0 => (s + 1) % 2 = 1 /\ Passes(s + 1) = Passes(s)
    BY <1>2, <2>1, <2>2
  <2>6. s % 2 = 1 => (s + 1) % 2 = 0 /\ Passes(s + 1) = Passes(s) + 1
    BY <1>2, <2>1, <2>2, <2>3
  <2>7. QED
    BY <2>1, <2>4, <2>5, <2>6
<1>7. QED
  BY <1>4, <1>5, <1>6 DEF n

LEMMA SketchEntry ==
  ASSUME TaskOK, NEW p \in Rank, NEW at \in task.SA[p]
  PROVE  /\ at \in Positions(SHeight, SWidth) /\ at[1] \in Nat
         /\ at[2] \in 0 .. SWidth - 1 /\ at[2] \in Nat
<1>1. at \in Positions(SHeight, SWidth)
  BY SketchParts
<1>2. SHeight \in Nat /\ SWidth \in Nat
  BY SketchSizes
<1>3. QED
  BY <1>1, <1>2 DEF Positions

(* Before its first call, a process has what it was given.                 *)
LEMMA HasGiven ==
  ASSUME TaskOK, NEW p \in Rank, NEW o,
         o = IF Sparse THEN Junk
             ELSE [at \in task.SA[p] |-> IF Accumulates THEN << >> ELSE Junk]
  PROVE  Has(p, 0, <<0, 0>>, o)
<1>1. 0 \in 0 .. Final /\ 0 # Final
  BY Finals
<1>2. ~ Sparse => DOMAIN o = task.SA[p]
  OBVIOUS
<1>3. OffsetsTaken(p, 0, <<0, 0>>)
  BY DEF OffsetsTaken
<1>4. Gathering(p, 0, o)
  <2>1. Method \in {"gather", "all_gather"} /\ ~ Sparse => Accumulates
    BY MethodKinds DEF Accumulates
  <2>2. QED
    BY <2>1 DEF Gathering
<1>5. VectorsDone(p, 0, o)
  <2>1. \A at \in task.SA[p] : ~ (at[2] < 0 - 1)
    BY SketchEntry
  <2>2. QED
    BY <2>1 DEF VectorsDone
<1>6. CellsTaken(p, 0, o)
  <2>1. Method = "window" /\ ~ Sparse => Accumulates
    BY MethodKinds DEF Accumulates
  <2>2. \A at \in task.SA[p] : ReadSoFar(p, 0)[at] = {}
    BY PassSteps, FirstAll DEF ReadSoFar, TermsIn
  <2>3. ~ (0 >= 2)
    OBVIOUS
  <2>4. QED
    BY <2>1, <2>2, <2>3, EnumeratesNothing DEF CellsTaken
<1>7. QED
  BY <1>1, <1>2, <1>3, <1>4, <1>5, <1>6 DEF Has

(* Entering the first collective leaves the sketch alone.                  *)
LEMMA HasEntered ==
  ASSUME TaskOK, Contributes, NEW p \in Rank, NEW off, NEW o, Has(p, 0, off, o)
  PROVE  Has(p, 1, off, o)
<1>1. 1 \in 0 .. Final /\ (Agreed => 1 # Final)
  <2>1. Method \in Methods /\ task.size[2] \in Nat \ {0} /\ P \in Nat
    BY MethodTypes, TaskNumbers
  <2>2. QED
    BY <2>1, Finals DEF Contributes, Methods, Agreed
<1>2. OffsetsTaken(p, 1, off)
  BY DEF Has, OffsetsTaken
<1>3. Gathering(p, 1, o)
  BY DEF Has, Gathering
<1>4. VectorsDone(p, 1, o)
  <2>1. \A at \in task.SA[p] : ~ (at[2] < 1 - 1)
    BY SketchEntry
  <2>2. QED
    BY <2>1 DEF VectorsDone
<1>5. CellsTaken(p, 1, o)
  <2>1. ReadSoFar(p, 1) = ReadSoFar(p, 0)
    BY PassSteps DEF ReadSoFar
  <2>2. ~ (1 >= 2)
    OBVIOUS
  <2>3. QED
    BY <2>1, <2>2 DEF Has, CellsTaken
<1>6. QED
  BY <1>1, <1>2, <1>3, <1>4, <1>5 DEF Has

(* At its last call, unless it has gone on step by step.                   *)
LEMMA HasFinal ==
  ASSUME TaskOK, Method \notin {"vectors", "window"}, NEW p \in Rank, NEW off, NEW o,
         off \in Nat \X Nat, off[1] <= off[2],
         ~ Sparse => DOMAIN o = task.SA[p],
         Agreed /\ (Sparse => task.SA[p] # {}) => Right(p, o)
  PROVE  Has(p, Final, off, o)
<1>1. Final \in 0 .. Final
  BY Finals
<1>2. Gathering(p, Final, o)
  BY Finals DEF Gathering
<1>3. QED
  BY <1>1, <1>2 DEF Has, OffsetsTaken, VectorsDone, CellsTaken

LEMMA RightLocally ==
  ASSUME TaskOK, Method = "local", NEW p \in Rank
  PROVE  /\ DOMAIN SumsOver(task.A[p], task.SA[p]) = task.SA[p]
         /\ Right(p, SumsOver(task.A[p], task.SA[p]))
<1>1. ~ Sparse /\ Alone
  BY MethodKinds
<1>2. ASSUME NEW at \in task.SA[p]
      PROVE  Enumerates(SumsOver(task.A[p], task.SA[p])[at], Owed(at))
  <2>1. IsFiniteSet(task.A[p])
    BY EntriesOfA
  <2>2. Enumerates(TermsAt(task.A[p], at), TermsIn(task.A[p], at))
    BY <2>1, TermsAtEnumerates
  <2>3. TermsIn(task.A[p], at) = Owed(at)
    BY <1>1, AloneHasAll
  <2>4. SumsOver(task.A[p], task.SA[p])[at] = TermsAt(task.A[p], at)
    BY DEF SumsOver
  <2>5. QED
    BY <2>2, <2>3, <2>4
<1>3. DOMAIN SumsOver(task.A[p], task.SA[p]) = task.SA[p]
  BY DEF SumsOver
<1>4. QED
  BY <1>1, <1>2, <1>3 DEF Right

LEMMA RightCompressed ==
  ASSUME TaskOK, Method = "compress", NEW p \in Rank
  PROVE  Right(p, Compress(MetLocally))
<1>1. Sparse /\ task.output # SpParMat /\ task.output \in Whole /\ Rank = {Root}
  BY MethodKinds
<1>2. task.SA[p] = Positions(SHeight, SWidth)
  BY <1>1, SketchParts
<1>3. QED
  BY <1>1, <1>2, CompressedLocally DEF Right, ShiftOf

LEMMA RightAtRoot ==
  ASSUME TaskOK, Method = "reduce", \A p \in Rank : sums[p] = SA_part(p)
  PROVE  /\ DOMAIN ReducedAtRoot = task.SA[Root]
         /\ Agreed => Right(Root, ReducedAtRoot)
<1>1. ~ Sparse
  BY MethodKinds
<1>2. Agreed => \A at \in task.SA[Root] : Enumerates(ReducedAtRoot[at], Owed(at))
  BY RootReduces
<1>3. DOMAIN ReducedAtRoot = task.SA[Root]
  BY DEF ReducedAtRoot
<1>4. QED
  BY <1>1, <1>2, <1>3 DEF Right

(* The others have no part of what goes to the root.                       *)
LEMMA RightElsewhere ==
  ASSUME TaskOK, Method \in {"reduce", "gather"}, NEW p \in Rank, p # Root, NEW o,
         Sparse => task.SA[p] # {}
  PROVE  Right(p, o)
<1>1. task.SA[p] = {}
  <2>1. CASE Method = "reduce"
    <3>1. task.output = CIRC_CIRC /\ task.output \in Gridded
      BY <2>1, MethodTypes DEF Gridded
    <3>2. task.output[1] = "CIRC"
      BY <3>1 DEF CIRC_CIRC
    <3>3. \A at \in Positions(SHeight, SWidth) : at[1] \in Nat
      BY SketchSizes DEF Positions
    <3>4. \A at \in Positions(SHeight, SWidth) : ~ Holds("CIRC", at[1], p)
      BY <3>3, Places
    <3>5. QED
      BY <3>1, <3>2, <3>4, SketchParts
  <2>2. CASE Method = "gather"
    BY <2>2, MethodKinds, SketchParts
  <2>3. QED
    BY <2>1, <2>2
<1>2. ~ Sparse
  BY <1>1
<1>3. QED
  BY <1>1, <1>2 DEF Right

LEMMA RightGathered ==
  ASSUME TaskOK, Method \in {"gather", "all_gather"}, ~ Sparse, NEW p \in Rank,
         \A q \in Rank : sums[q] = ColValues(q),
         NEW held, DOMAIN held = task.SA[p],
         \A at \in task.SA[p] : held[at] = << >>
  PROVE  DOMAIN Updated(held) = task.SA[p] /\ Right(p, Updated(held))
<1>1. task.input # S_S
  BY MethodKinds
<1>2. DOMAIN held \subseteq Positions(SHeight, SWidth)
  BY SketchParts
<1>3. /\ DOMAIN Updated(held) = DOMAIN held
      /\ \A at \in DOMAIN held : Enumerates(Updated(held)[at], Owed(at))
  BY <1>1, <1>2, GatherUpdates
<1>4. QED
  BY <1>3 DEF Right

LEMMA RightGatheredSparse ==
  ASSUME TaskOK, Method = "gather", Sparse, \A q \in Rank : sums[q] = ColValues(q)
  PROVE  Right(Root, Compress(MetInMaps))
<1>1. task.input # S_S /\ task.output # SpParMat /\ task.output \in Whole
  BY MethodKinds
<1>2. Root \in Rank
  BY TaskNumbers
<1>3. task.SA[Root] = Positions(SHeight, SWidth)
  BY <1>1, <1>2, SketchParts
<1>4. Listed(Compress(MetInMaps), <<0, 0>>, OwedIn(Positions(SHeight, SWidth)))
  BY <1>1, CompressedMaps
<1>5. QED
  BY <1>1, <1>3, <1>4 DEF Right, ShiftOf

LEMMA RightEverywhere ==
  ASSUME TaskOK, Method = "all_reduce", NEW p \in Rank, NEW group, NEW o,
         group = IF task.input = S_S THEN <<p>> ELSE Everyone,
         o = [at \in task.SA[p] |-> Reduced(group, at)],
         sums[p] = SA_part(p),
         task.input # S_S => \A q \in Rank : sums[q] = SA_part(q)
  PROVE  DOMAIN o = task.SA[p] /\ Right(p, o)
<1>1. ~ Sparse
  BY MethodKinds
<1>2. ASSUME NEW at \in task.SA[p] PROVE Enumerates(o[at], Owed(at))
  <2>1. at \in Positions(SHeight, SWidth)
    BY SketchEntry
  <2>2. CASE task.input = S_S
    <3>1. Enumerates(Reduced(<<p>>, at), TermsIn(task.A[p], at))
      BY <2>1, ReducesAlone
    <3>2. TermsIn(task.A[p], at) = Owed(at)
      BY <2>2, AloneHasAll DEF Alone
    <3>3. QED
      BY <2>2, <3>1, <3>2
  <2>3. CASE task.input # S_S
    <3>1. Enumerates(Reduced(Everyone, at), Owed(at))
      BY <2>1, <2>3, ReducesEverybody
    <3>2. QED
      BY <2>3, <3>1
  <2>4. QED
    BY <2>2, <2>3
<1>3. QED
  BY <1>1, <1>2 DEF Right

LEMMA RightRedistributed ==
  ASSUME TaskOK, Method = "redistribute", NEW p \in Rank
  PROVE  DOMAIN MovedBack(p) = task.SA[p] /\ Right(p, MovedBack(p))
<1>1. ~ Sparse
  BY MethodKinds
<1>2. \A at \in task.SA[p] : Enumerates(MovedBack(p)[at], Owed(at))
  BY RedistributedAll
<1>3. DOMAIN MovedBack(p) = task.SA[p]
  BY DEF MovedBack
<1>4. QED
  BY <1>1, <1>2, <1>3 DEF Right

LEMMA HasRedistributed ==
  ASSUME TaskOK, Method = "redistribute", NEW p \in Rank, NEW off, NEW o,
         Has(p, 1, off, o)
  PROVE  Has(p, 2, off, o)
<1>1. 2 \in 0 .. Final /\ 2 # Final
  BY Finals
<1>2. QED
  BY <1>1 DEF Has, OffsetsTaken, Gathering, VectorsDone, CellsTaken

(* The columns up to the last one.                                         *)
LEMMA HasVector ==
  ASSUME TaskOK, Method = "vectors", task.sized, NEW p \in Rank, NEW s \in 1 .. task.size[2],
         NEW off, NEW o, Has(p, s, off, o), \A q \in Rank : sums[q] = SA_part(q),
         NEW o2, o2 = [at \in task.SA[p] |-> IF at[2] = s - 1
                                             THEN Reduced(Everyone, at) ELSE o[at]]
  PROVE  Has(p, s + 1, off, o2)
<1> DEFINE n == task.size[2]
<1>1. n \in Nat /\ Final = n + 1 /\ s \in 1 .. n
  BY TaskNumbers, Finals
<1>2. ~ Sparse /\ task.input # S_S /\ Columnwise
  BY MethodKinds, MethodTypes
<1>3. SWidth = n
  BY <1>2, TaskNumbers
<1> HIDE DEF n
<1>4. s + 1 \in 0 .. Final /\ s \in Nat
  BY <1>1
<1>5. DOMAIN o2 = task.SA[p]
  OBVIOUS
<1>6. ASSUME NEW at \in task.SA[p], at[2] < (s + 1) - 1
      PROVE  Enumerates(o2[at], Owed(at))
  <2>1. at \in Positions(SHeight, SWidth) /\ at[2] \in Nat
    BY SketchEntry
  <2>2. CASE at[2] = s - 1
    BY <1>2, <2>1, <2>2, ReducesEverybody
  <2>3. CASE at[2] # s - 1
    <3>1. at[2] < s - 1
      <4> DEFINE c == at[2]
      <4>1. c \in Nat /\ c < (s + 1) - 1 /\ c # s - 1
        BY <1>6, <2>1, <2>3
      <4> HIDE DEF c
      <4>2. c < s - 1
        BY <1>4, <4>1
      <4>3. QED
        BY <4>2 DEF c
    <3>2. QED
      BY <2>3, <3>1 DEF Has, VectorsDone
  <2>4. QED
    BY <2>2, <2>3
<1>7. VectorsDone(p, s + 1, o2)
  BY <1>6 DEF VectorsDone
<1>8. OffsetsTaken(p, s + 1, off) /\ Gathering(p, s + 1, o2) /\ CellsTaken(p, s + 1, o2)
  BY DEF Has, OffsetsTaken, Gathering, CellsTaken
<1>9. s + 1 = Final => Right(p, o2)
  <2> SUFFICES ASSUME s + 1 = Final PROVE Right(p, o2)
    OBVIOUS
  <2>1. \A at \in task.SA[p] : at[2] < (s + 1) - 1
    <3>1. \A c \in 0 .. n - 1 : c < (s + 1) - 1
      BY <1>1
    <3>2. QED
      BY <1>3, <3>1, SketchEntry
  <2>2. QED
    BY <1>2, <1>6, <2>1 DEF Right
<1>10. QED
  BY <1>4, <1>5, <1>7, <1>8, <1>9 DEF Has

(* In the window method, only the last of the calls makes demands.         *)
LEMMA HasInWindow ==
  ASSUME TaskOK, Method = "window", NEW p \in Rank, NEW s \in 1 .. Final, NEW off,
         NEW o, ~ Sparse => DOMAIN o = task.SA[p],
         OffsetsTaken(p, s, off), CellsTaken(p, s, o)
  PROVE  Has(p, s, off, o)
<1>1. P \in Nat /\ Final = 2 * P + 4 /\ Final \in Nat
  BY TaskNumbers, Finals
<1>2. s \in 0 .. Final
  BY <1>1
<1>3. Gathering(p, s, o) /\ VectorsDone(p, s, o)
  BY DEF Gathering, VectorsDone
<1>4. s = Final => Right(p, o)
  <2> SUFFICES ASSUME s = Final PROVE Right(p, o)
    OBVIOUS
  <2>1. Passes(s) = P /\ s >= 2
    BY <1>1, PassSteps
  <2>2. First(P) = All
    BY FirstAll
  <2>3. \A at : TermsIn(First(Passes(s)), at) = Owed(at)
    BY <2>1, <2>2 DEF Owed
  <2>4. ReadSoFar(p, s) = OwedIn(task.SA[p])
    BY <2>3 DEF ReadSoFar, OwedIn
  <2>5. \A at \in task.SA[p] : ReadSoFar(p, s)[at] = Owed(at)
    BY <2>3 DEF ReadSoFar
  <2>6. CASE Sparse
    <3>1. task.output = SpParMat
      BY <2>6, MethodKinds
    <3>2. Listed(o, OffsetOf(p), OwedIn(task.SA[p]))
      BY <2>1, <2>4, <2>6 DEF CellsTaken
    <3>3. QED
      BY <2>6, <3>1, <3>2 DEF Right, ShiftOf
  <2>7. CASE ~ Sparse
    BY <2>5, <2>7 DEF CellsTaken, Right
  <2>8. QED
    BY <2>6, <2>7
<1>5. QED
  BY <1>2, <1>3, <1>4 DEF Has

LEMMA HasWindows ==
  ASSUME TaskOK, Method = "window", NEW p \in Rank, NEW off, NEW o, Has(p, 1, off, o),
         NEW o2, o2 = IF task.output = SpParMat THEN << >> ELSE o
  PROVE  Has(p, 2, off, o2)
<1>1. P \in Nat \ {0} /\ Final = 2 * P + 4 /\ (Sparse <=> task.output = SpParMat)
  BY TaskNumbers, Finals, MethodKinds
<1>2. 2 \in 1 .. Final /\ 2 % 2 # 1
  BY <1>1
<1>3. OffsetsTaken(p, 2, off)
  BY <1>2 DEF Has, OffsetsTaken
<1>4. ~ Sparse => DOMAIN o2 = task.SA[p]
  BY <1>1 DEF Has
<1>5. CellsTaken(p, 2, o2)
  <2>1. \A at \in task.SA[p] : ReadSoFar(p, 2)[at] = {}
    BY PassSteps, FirstAll DEF ReadSoFar, TermsIn
  <2>2. ReadSoFar(p, 2) = ReadSoFar(p, 1)
    BY PassSteps DEF ReadSoFar
  <2>3. DOMAIN ReadSoFar(p, 2) = task.SA[p]
    BY DEF ReadSoFar
  <2>4. Sparse => Listed(o2, OffsetOf(p), ReadSoFar(p, 2))
    <3> SUFFICES ASSUME Sparse PROVE Listed(o2, OffsetOf(p), ReadSoFar(p, 2))
      OBVIOUS
    <3>1. o2 = << >>
      BY <1>1
    <3>2. o2 = [k \in 1 .. Len(o2) |-> o2[k]] /\ Len(o2) \in Nat /\ Len(o2) = 0
      BY <3>1
    <3>3. \A k \in 1 .. Len(o2) : FALSE
      BY <3>2
    <3>4. QED
      BY <2>1, <2>3, <3>2, <3>3 DEF Listed
  <2>5. ~ Sparse => \A at \in task.SA[p] : Enumerates(o2[at], ReadSoFar(p, 2)[at])
    BY <1>1, <2>2 DEF Has, CellsTaken
  <2>6. QED
    BY <2>4, <2>5 DEF CellsTaken
<1>6. QED
  BY <1>2, <1>3, <1>4, <1>5, HasInWindow

LEMMA HasClosed ==
  ASSUME TaskOK, Method = "window", NEW p \in Rank,
         NEW s \in {2 * P + 2, 2 * P + 3}, NEW off, NEW o, Has(p, s, off, o)
  PROVE  Has(p, s + 1, off, o)
<1>1. P \in Nat \ {0} /\ Final = 2 * P + 4
  BY TaskNumbers, Finals
<1>2. s + 1 \in 1 .. Final /\ s + 1 \notin 2 .. 2 * P + 1 /\ s >= 2
  BY <1>1
<1>3. Passes(s + 1) = Passes(s)
  <2>1. (2 * P + 2) + 1 = 2 * P + 3 /\ (2 * P + 3) + 1 = 2 * P + 4
    BY <1>1
  <2>2. QED
    BY <2>1, PassSteps
<1>4. ReadSoFar(p, s + 1) = ReadSoFar(p, s)
  BY <1>3 DEF ReadSoFar
<1>5. OffsetsTaken(p, s + 1, off)
  BY <1>2 DEF Has, OffsetsTaken
<1>6. CellsTaken(p, s + 1, o)
  BY <1>2, <1>4 DEF Has, CellsTaken
<1>7. ~ Sparse => DOMAIN o = task.SA[p]
  BY DEF Has
<1>8. QED
  BY <1>2, <1>5, <1>6, <1>7, HasInWindow

LEMMA HasOffsets ==
  ASSUME TaskOK, Method = "window", NEW p \in Rank, NEW s \in 2 .. 2 * P + 1,
         s % 2 = 0, NEW off, NEW o, Has(p, s, off, o),
         NEW off2, Slotted(p, s, off2)
  PROVE  Has(p, s + 1, off2, o)
<1>1. P \in Nat \ {0} /\ Final = 2 * P + 4
  BY TaskNumbers, Finals
<1>2. s + 1 \in 1 .. Final /\ s >= 2 /\ s + 1 >= 2
  BY <1>1
<1>3. Passes(s + 1) = Passes(s) /\ Passes(s) \in 0 .. P - 1
  BY PassSteps
<1> DEFINE q == Process(Passes(s))
           v == Number(task.grid, p)
           from == ArraysOf(q).proc_start_idx[v + 1]
           to == ArraysOf(q).proc_start_idx[v + 2]
<1>4. q \in Rank /\ v \in 0 .. P - 1
  BY <1>3, Numbered
<1>5. off2 = <<from, to>>
  BY DEF Slotted
<1> HIDE DEF q, v
<1>6. from \in Nat /\ to \in Nat /\ from <= to
  BY <1>4, CellsBetween DEF Between
<1> HIDE DEF from, to
<1>7. off2 \in Nat \X Nat /\ off2[1] <= off2[2]
  BY <1>5, <1>6
<1>8. Slotted(p, s + 1, off2)
  BY <1>3 DEF Slotted
<1>9. OffsetsTaken(p, s + 1, off2)
  BY <1>7, <1>8 DEF OffsetsTaken
<1>10. ReadSoFar(p, s + 1) = ReadSoFar(p, s)
  BY <1>3 DEF ReadSoFar
<1>11. CellsTaken(p, s + 1, o)
  BY <1>2, <1>10 DEF Has, CellsTaken
<1>12. ~ Sparse => DOMAIN o = task.SA[p]
  BY DEF Has
<1>13. QED
  BY <1>2, <1>9, <1>11, <1>12, HasInWindow

(* The cells of one process more.                                          *)
LEMMA HasCells ==
  ASSUME TaskOK, Method = "window", NEW p \in Rank, NEW s \in 2 .. 2 * P + 1,
         s % 2 = 1, NEW off, Has(p, s, off, out[p]), NEW o2, NEW cells,
         cells = SubSeq(ArraysOf(Process(Passes(s))).cells, off[1] + 1, off[2]),
         o2 = IF task.output = SpParMat THEN TuplesBy(cells, p)
              ELSE UpdatedBy(cells, out[p])
  PROVE  Has(p, s + 1, off, o2)
<1>1. P \in Nat \ {0} /\ Final = 2 * P + 4 /\ (Sparse <=> task.output = SpParMat)
  BY TaskNumbers, Finals, MethodKinds
<1>2. s + 1 \in 1 .. Final /\ s >= 2 /\ s + 1 >= 2
  BY <1>1
<1> DEFINE n == Passes(s)
           q == Process(n)
           v == Number(task.grid, p)
           from == ArraysOf(q).proc_start_idx[v + 1]
           to == ArraysOf(q).proc_start_idx[v + 2]
<1>3. n \in 0 .. P - 1 /\ Passes(s + 1) = n + 1 /\ (s + 1) % 2 = 0
  BY PassSteps
<1>4. q \in Rank /\ v \in 0 .. P - 1
  BY <1>3, Numbered
<1>5. OffsetsTaken(p, s, off)
  BY DEF Has
<1>6. off = <<from, to>>
  BY <1>5 DEF OffsetsTaken, Slotted
<1> HIDE DEF q, v
<1>12. from = ArraysOf(q).proc_start_idx[v + 1] /\ to = ArraysOf(q).proc_start_idx[v + 2]
  OBVIOUS
<1> HIDE DEF from, to
<1>7. SubSeq(ArraysOf(q).cells, from + 1, to) =
        [k \in 1 .. Len(SlotOf(q, v)) |-> SlotCell(q, SlotOf(q, v)[k])]
  <2>1. Between(q, v, from, to)
    BY <1>4, <1>12, CellsBetween
  <2>2. QED
    BY <2>1 DEF Between
<1>8. cells = [k \in 1 .. Len(SlotOf(q, v)) |-> SlotCell(q, SlotOf(q, v)[k])]
  BY <1>6, <1>7 DEF q
<1>9. Carry(cells, q, v)
  BY <1>4, <1>8, CellsCarry
<1>10. Carry(cells, Process(n), Number(task.grid, p))
  BY <1>9 DEF q, v
<1> HIDE DEF n
<1>11. task.input # S_S
  BY MethodKinds
<1>13. /\ ReadSoFar(p, s) = [at \in task.SA[p] |-> TermsIn(First(n), at)]
       /\ ReadSoFar(p, s + 1) = [at \in task.SA[p] |-> TermsIn(First(n + 1), at)]
  BY <1>3 DEF ReadSoFar, n
<1>14. OffsetsTaken(p, s + 1, off)
  BY <1>3, <1>5 DEF OffsetsTaken
<1>15. CASE Sparse
  <2>1. task.grid[1] = task.grid[2] /\ task.output = SpParMat
    BY <1>1, <1>15, MethodKinds
  <2>2. Listed(out[p], OffsetOf(p), [at \in task.SA[p] |-> TermsIn(First(n), at)])
    BY <1>2, <1>13, <1>15 DEF Has, CellsTaken
  <2>3. Listed(TuplesBy(cells, p), OffsetOf(p),
               [at \in task.SA[p] |-> TermsIn(First(n + 1), at)])
    BY <1>3, <1>10, <1>11, <2>1, <2>2, TuplesMore
  <2>4. CellsTaken(p, s + 1, o2)
    BY <1>13, <1>15, <2>1, <2>3 DEF CellsTaken
  <2>5. QED
    BY <1>2, <1>14, <1>15, <2>4, HasInWindow
<1>16. CASE ~ Sparse
  <2> DEFINE held == out[p]
  <2>1. DOMAIN held = task.SA[p]
    BY <1>16 DEF Has
  <2>2. \A at \in DOMAIN held : Enumerates(held[at], TermsIn(First(n), at))
    BY <1>13, <1>16, <2>1 DEF Has, CellsTaken
  <2> HIDE DEF held
  <2>3. /\ DOMAIN UpdatedBy(cells, held) = task.SA[p]
        /\ \A at \in task.SA[p] :
              Enumerates(UpdatedBy(cells, held)[at], TermsIn(First(n + 1), at))
    BY <1>3, <1>10, <1>11, <2>1, <2>2, UpdatedMore
  <2>4. o2 = UpdatedBy(cells, held)
    BY <1>1, <1>16 DEF held
  <2>5. DOMAIN o2 = task.SA[p]
    BY <2>3, <2>4
  <2>6. CellsTaken(p, s + 1, o2)
    BY <1>13, <1>16, <2>3, <2>4 DEF CellsTaken
  <2>7. QED
    BY <1>2, <1>14, <2>5, <2>6, HasInWindow
<1>17. QED
  BY <1>15, <1>16

(***************************************************************************)
(* Every step of a process takes it to what it has after one call more.    *)
(***************************************************************************)
Keeps(p) ==
  /\ task' = task /\ step' = [step EXCEPT ![p] = @ + 1]
  /\ sums' = IF Contributes /\ step[p] = 0
             THEN [sums EXCEPT ![p] = Contribution(p)] ELSE sums
  /\ offset' = [offset EXCEPT ![p] = offset'[p]]
  /\ out' = [out EXCEPT ![p] = out'[p]]
  /\ Has(p, step[p] + 1, offset'[p], out'[p])

LEMMA Contributed ==
  \A p : /\ Method \in {"reduce", "all_reduce", "vectors"} =>
              Contribution(p) = SA_part(p)
         /\ Method \in {"gather", "all_gather"} => Contribution(p) = ColValues(p)
         /\ Method = "window" => Contribution(p) = ArraysOf(p)
BY DEF Contribution

LEMMA ProcessHas ==
  ASSUME Inv, NEW p \in Rank
  PROVE  /\ TaskOK /\ step[p] \in Nat /\ Final \in Nat
         /\ Has(p, step[p], offset[p], out[p])
         /\ offset[p] \in Nat \X Nat /\ offset[p][1] <= offset[p][2]
         /\ ~ Sparse => DOMAIN out[p] = task.SA[p]
<1>1. TaskOK /\ Has(p, step[p], offset[p], out[p])
  BY DEF Inv
<1>2. Final \in Nat /\ step[p] \in 0 .. Final
  BY <1>1, Finals DEF Has
<1>3. QED
  BY <1>1, <1>2 DEF Has, OffsetsTaken

(* Whoever is through a collective has everybody's contribution.           *)
LEMMA EverybodyIn ==
  ASSUME Inv, Contributes, NEW p \in Rank, step[p] > 0, AllIn(p), Group(p) = Rank
  PROVE  \A q \in Rank : sums[q] = Contribution(q)
<1> SUFFICES ASSUME NEW q \in Rank PROVE sums[q] = Contribution(q)
  OBVIOUS
<1>1. step[p] \in Nat /\ step[q] \in Nat /\ step[q] >= step[p]
  BY ProcessHas DEF AllIn
<1>2. QED
  BY <1>1 DEF Inv

LEMMA Untouched ==
  ASSUME Inv, NEW p \in Rank
  PROVE  offset = [offset EXCEPT ![p] = offset[p]] /\ out = [out EXCEPT ![p] = out[p]]
BY DEF Inv

LEMMA Replaced ==
  ASSUME Inv, NEW p \in Rank, NEW o
  PROVE  /\ [out EXCEPT ![p] = o][p] = o /\ [offset EXCEPT ![p] = o][p] = o
BY DEF Inv

LEMMA BecomeKeeps ==
  ASSUME Inv, NEW p \in Rank, NEW o, NEW off,
         task' = task, step' = [step EXCEPT ![p] = @ + 1],
         sums' = IF Contributes /\ step[p] = 0
                 THEN [sums EXCEPT ![p] = Contribution(p)] ELSE sums,
         offset' = [offset EXCEPT ![p] = off], out' = [out EXCEPT ![p] = o],
         Has(p, step[p] + 1, off, o)
  PROVE  Keeps(p)
<1>1. out'[p] = o /\ offset'[p] = off
  BY Replaced
<1>2. out' = [out EXCEPT ![p] = out'[p]]
  BY <1>1
<1>3. offset' = [offset EXCEPT ![p] = offset'[p]]
  BY <1>1
<1>4. Has(p, step[p] + 1, offset'[p], out'[p])
  BY <1>1
<1>5. QED
  BY <1>2, <1>3, <1>4 DEF Keeps

LEMMA ApplyLocallyKeeps ==
  ASSUME Inv, NEW p \in Rank, ApplyLocally(p)
  PROVE  Keeps(p)
<1>1. /\ step[p] = 0 /\ Method \in {"local", "compress"}
      /\ UNCHANGED <<task, sums, offset>> /\ step' = [step EXCEPT ![p] = @ + 1]
  BY DEF ApplyLocally, Advance
<1>2. PICK o : Become(p, o) /\ Has(p, 1, offset[p], o)
  <2>1. Final = 1 /\ Method \notin {"vectors", "window"}
    BY <1>1, ProcessHas, Finals
  <2>2. CASE Method = "local"
    <3>1. Become(p, SumsOver(task.A[p], task.SA[p]))
      BY <2>2 DEF ApplyLocally
    <3>2. /\ DOMAIN SumsOver(task.A[p], task.SA[p]) = task.SA[p]
          /\ Right(p, SumsOver(task.A[p], task.SA[p]))
      BY <2>2, ProcessHas, RightLocally
    <3>3. Has(p, Final, offset[p], SumsOver(task.A[p], task.SA[p]))
      BY <2>1, <3>2, ProcessHas, HasFinal
    <3>4. QED
      BY <2>1, <3>1, <3>3
  <2>3. CASE Method = "compress"
    <3>1. Become(p, Compress(MetLocally))
      BY <2>3 DEF ApplyLocally
    <3>2. Right(p, Compress(MetLocally)) /\ Sparse
      BY <2>3, ProcessHas, RightCompressed, MethodKinds
    <3>3. Has(p, Final, offset[p], Compress(MetLocally))
      BY <2>1, <3>2, ProcessHas, HasFinal
    <3>4. QED
      BY <2>1, <3>1, <3>3
  <2>4. QED
    BY <1>1, <2>2, <2>3
<1>3. out' = [out EXCEPT ![p] = o] /\ out'[p] = o
  BY <1>2, Replaced DEF Become
<1>4. ~ Contributes /\ step[p] + 1 = 1
  BY <1>1 DEF Contributes
<1>5. QED
  BY <1>1, <1>2, <1>3, <1>4, Untouched DEF Keeps

LEMMA EnterKeeps ==
  ASSUME Inv, NEW p \in Rank, Enter(p)
  PROVE  Keeps(p)
<1>1. /\ step[p] = 0 /\ Contributes /\ sums' = [sums EXCEPT ![p] = Contribution(p)]
      /\ UNCHANGED <<task, offset, out>> /\ step' = [step EXCEPT ![p] = @ + 1]
  <2>1. /\ step[p] = 0 /\ Contributes
        /\ UNCHANGED <<task, offset, out>> /\ step' = [step EXCEPT ![p] = @ + 1]
    BY DEF Enter, Advance, Contributes
  <2>2. CASE Method = "window"
    <3>1. sums' = [sums EXCEPT ![p] = ArraysOf(p)]
      BY <2>2 DEF Enter, ArraysOf
    <3>2. Contribution(p) = ArraysOf(p)
      BY <2>2 DEF Contribution
    <3>3. QED
      BY <2>1, <3>1, <3>2
  <2>3. CASE Method # "window"
    <3>1. sums' = [sums EXCEPT ![p] =
                     CASE Method \in {"reduce", "all_reduce", "vectors"} -> SA_part(p)
                       [] Method \in {"gather", "all_gather"} -> ColValues(p)
                       [] Method = "redistribute" -> << >>]
      BY <2>3 DEF Enter
    <3>2. Contribution(p) = CASE Method \in {"reduce", "all_reduce", "vectors"} -> SA_part(p)
                       [] Method \in {"gather", "all_gather"} -> ColValues(p)
                       [] Method = "redistribute" -> << >>
      BY <2>1, <2>3, MethodKinds, ProcessHas DEF Contribution, Contributes
    <3>3. QED
      BY <2>1, <3>1, <3>2
  <2>4. QED
    BY <2>2, <2>3
<1>2. Has(p, 1, offset[p], out[p])
  BY <1>1, ProcessHas, HasEntered
<1>3. QED
  BY <1>1, <1>2, Untouched DEF Keeps

LEMMA LeaveRootedKeeps ==
  ASSUME Inv, NEW p \in Rank, LeaveRooted(p)
  PROVE  Keeps(p)
<1>1. /\ step[p] = 1 /\ Method \in {"reduce", "gather"}
      /\ UNCHANGED <<task, sums, offset>> /\ step' = [step EXCEPT ![p] = @ + 1]
      /\ IF p = Root THEN AllIn(p) /\ AtRoot ELSE UNCHANGED out
  BY DEF LeaveRooted, Advance
<1>2. TaskOK /\ Final = 2 /\ Contributes /\ Method \notin {"vectors", "window"}
  BY <1>1, ProcessHas, Finals DEF Contributes
<1>3. CASE p # Root
  <2>1. (Sparse => task.SA[p] # {}) => Right(p, out[p])
    BY <1>1, <1>2, <1>3, RightElsewhere
  <2>2. Has(p, Final, offset[p], out[p])
    BY <1>2, <2>1, ProcessHas, HasFinal
  <2>3. QED
    BY <1>1, <1>2, <1>3, <2>2, Untouched DEF Keeps
<1>4. CASE p = Root
  <2>1. \A q \in Rank : sums[q] = Contribution(q)
    <3>1. Group(p) = Rank
      BY <1>1 DEF Group
    <3>2. QED
      BY <1>1, <1>2, <1>4, <3>1, EverybodyIn
  <2>2. PICK o : /\ Become(p, o) /\ (Agreed => Right(p, o))
                 /\ ~ Sparse => DOMAIN o = task.SA[p]
    <3>1. CASE Method = "reduce"
      <4>1. Become(p, ReducedAtRoot)
        BY <1>1, <1>4, <3>1 DEF AtRoot
      <4>2. \A q \in Rank : sums[q] = SA_part(q)
        BY <2>1, <3>1, Contributed
      <4>3. DOMAIN ReducedAtRoot = task.SA[p] /\ (Agreed => Right(p, ReducedAtRoot))
        BY <1>2, <1>4, <3>1, <4>2, RightAtRoot
      <4>4. QED
        BY <4>1, <4>3
    <3>2. CASE Method = "gather" /\ ~ Sparse
      <4>1. task.output = Matrix
        BY <1>2, <3>2, MethodKinds
      <4>2. Become(p, Updated(out[p]))
        <5>1. task.output # SparseMatrix
          BY <3>2 DEF Sparse
        <5>2. QED
          BY <1>1, <1>4, <3>2, <5>1 DEF AtRoot
      <4>3. \A q \in Rank : sums[q] = ColValues(q)
        BY <2>1, <3>2, Contributed
      <4>4. \A at \in task.SA[p] : out[p][at] = << >>
        BY <1>1, <3>2, ProcessHas DEF Has, Gathering
      <4>5. DOMAIN out[p] = task.SA[p]
        BY <3>2, ProcessHas
      <4> DEFINE held == out[p]
      <4>6. DOMAIN held = task.SA[p] /\ \A at \in task.SA[p] : held[at] = << >>
        BY <4>4, <4>5
      <4> HIDE DEF held
      <4>7. DOMAIN Updated(held) = task.SA[p] /\ Right(p, Updated(held))
        BY <1>1, <1>2, <3>2, <4>3, <4>6, RightGathered
      <4>8. QED
        BY <4>2, <4>7 DEF held
    <3>3. CASE Method = "gather" /\ Sparse
      <4>1. task.output = SparseMatrix /\ task.output # Matrix
        BY <1>2, <3>3, MethodKinds
      <4>2. Become(p, Compress(MetInMaps))
        BY <1>1, <1>4, <3>3, <4>1 DEF AtRoot
      <4>3. \A q \in Rank : sums[q] = ColValues(q)
        BY <2>1, <3>3, Contributed
      <4>4. Right(p, Compress(MetInMaps))
        BY <1>2, <1>4, <3>3, <4>3, RightGatheredSparse
      <4>5. QED
        BY <3>3, <4>2, <4>4
    <3>4. QED
      BY <1>1, <3>1, <3>2, <3>3
  <2>3. Has(p, Final, offset[p], o)
    BY <1>2, <2>2, ProcessHas, HasFinal
  <2>4. /\ out' = [out EXCEPT ![p] = o] /\ offset' = [offset EXCEPT ![p] = offset[p]]
        /\ sums' = sums /\ step[p] # 0 /\ step[p] + 1 = Final
    BY <1>1, <1>2, <2>2, Untouched DEF Become
  <2>5. QED
    BY <1>1, <2>3, <2>4, BecomeKeeps
<1>5. QED
  BY <1>3, <1>4

LEMMA LeaveAllKeeps ==
  ASSUME Inv, NEW p \in Rank, LeaveAll(p)
  PROVE  Keeps(p)
<1> DEFINE group == IF task.input = S_S THEN <<p>> ELSE Everyone
           o == IF Method = "all_gather" THEN Updated(out[p])
                ELSE [at \in task.SA[p] |-> Reduced(group, at)]
<1>1. /\ step[p] = 1 /\ Method \in {"all_reduce", "all_gather"} /\ AllIn(p)
      /\ Become(p, o)
      /\ UNCHANGED <<task, sums, offset>> /\ step' = [step EXCEPT ![p] = @ + 1]
  BY DEF LeaveAll, Advance
<1>2. TaskOK /\ Final = 2 /\ Contributes /\ Method \notin {"vectors", "window"}
      /\ ~ Sparse
  BY <1>1, ProcessHas, Finals, MethodKinds DEF Contributes
<1>3. sums[p] = Contribution(p)
  BY <1>1, <1>2 DEF Inv
<1>4. Group(p) = Rank => \A q \in Rank : sums[q] = Contribution(q)
  BY <1>1, <1>2, EverybodyIn
<1>5. DOMAIN o = task.SA[p] /\ Right(p, o)
  <2>1. CASE Method = "all_gather"
    <3>1. Group(p) = Rank
      BY <2>1 DEF Group
    <3>2. \A q \in Rank : sums[q] = ColValues(q)
      BY <1>4, <2>1, <3>1, Contributed
    <3> DEFINE held == out[p]
    <3>3. DOMAIN held = task.SA[p] /\ \A at \in task.SA[p] : held[at] = << >>
      BY <1>1, <1>2, <2>1, ProcessHas DEF Has, Gathering
    <3> HIDE DEF held
    <3>4. DOMAIN Updated(held) = task.SA[p] /\ Right(p, Updated(held))
      <4>1. Method \in {"gather", "all_gather"}
        BY <2>1
      <4>2. QED
        BY <1>2, <3>2, <3>3, <4>1, RightGathered
    <3>5. QED
      BY <2>1, <3>4 DEF held
  <2>2. CASE Method = "all_reduce"
    <3>1. sums[p] = SA_part(p)
      BY <1>3, <2>2, Contributed
    <3>2. task.input # S_S => \A q \in Rank : sums[q] = SA_part(q)
      BY <1>4, <2>2, Contributed DEF Group
    <3>3. o = [at \in task.SA[p] |-> Reduced(group, at)]
      BY <2>2
    <3> HIDE DEF o
    <3>4. QED
      BY <1>2, <2>2, <3>1, <3>2, <3>3, RightEverywhere
  <2>3. QED
    BY <1>1, <2>1, <2>2
<1> HIDE DEF o, group
<1>6. Has(p, Final, offset[p], o)
  BY <1>2, <1>5, ProcessHas, HasFinal
<1>7. out' = [out EXCEPT ![p] = o] /\ out'[p] = o
  BY <1>1, Replaced DEF Become
<1>8. QED
  <2>1. /\ offset' = [offset EXCEPT ![p] = offset[p]]
        /\ sums' = sums /\ step[p] # 0 /\ step[p] + 1 = Final
    BY <1>1, <1>2, Untouched
  <2>2. QED
    BY <1>1, <1>6, <1>7, <2>1, BecomeKeeps

LEMMA RedistributeKeeps ==
  ASSUME Inv, NEW p \in Rank, Redistribute(p)
  PROVE  Keeps(p)
<1>1. /\ step[p] \in {1, 2} /\ Method = "redistribute"
      /\ IF step[p] = 2 THEN Become(p, MovedBack(p)) ELSE UNCHANGED out
      /\ UNCHANGED <<task, sums, offset>> /\ step' = [step EXCEPT ![p] = @ + 1]
  BY DEF Redistribute, Advance
<1>2. TaskOK /\ Final = 3 /\ ~ Sparse
  BY <1>1, ProcessHas, Finals, MethodKinds
<1>3. CASE step[p] = 1
  <2>1. Has(p, 2, offset[p], out[p])
    BY <1>1, <1>2, <1>3, ProcessHas, HasRedistributed
  <2>2. QED
    BY <1>1, <1>3, <2>1, Untouched DEF Keeps
<1>4. CASE step[p] = 2
  <2>1. DOMAIN MovedBack(p) = task.SA[p] /\ Right(p, MovedBack(p))
    BY <1>1, <1>2, RightRedistributed
  <2>2. Has(p, Final, offset[p], MovedBack(p))
    BY <1>1, <1>2, <2>1, ProcessHas, HasFinal
  <2>3. out' = [out EXCEPT ![p] = MovedBack(p)] /\ out'[p] = MovedBack(p)
    BY <1>1, <1>4, Replaced DEF Become
  <2>4. QED
    <3>1. /\ offset' = [offset EXCEPT ![p] = offset[p]]
          /\ sums' = sums /\ step[p] # 0 /\ step[p] + 1 = Final
      BY <1>1, <1>2, <1>4, Untouched
    <3>2. QED
      BY <1>1, <2>2, <2>3, <3>1, BecomeKeeps
<1>5. QED
  BY <1>1, <1>3, <1>4

LEMMA NextVectorKeeps ==
  ASSUME Inv, NEW p \in Rank, NextVector(p)
  PROVE  Keeps(p)
<1> DEFINE s == step[p]
           h == out[p]
           o == [at \in task.SA[p] |-> IF at[2] = s - 1 THEN Reduced(Everyone, at)
                                       ELSE h[at]]
<1>1. /\ s \in 1 .. task.size[2] /\ Method = "vectors" /\ task.sized /\ AllIn(p) /\ Become(p, o)
      /\ UNCHANGED <<task, sums, offset>> /\ step' = [step EXCEPT ![p] = @ + 1]
  BY DEF NextVector, Advance
<1>2. TaskOK /\ Contributes /\ s \in Nat /\ Has(p, s, offset[p], h)
  BY <1>1, ProcessHas DEF Contributes
<1>3. s > 0
  BY <1>1, <1>2
<1>4. \A q \in Rank : sums[q] = SA_part(q)
  <2>1. Group(p) = Rank
    BY <1>1 DEF Group
  <2>2. QED
    BY <1>1, <1>2, <1>3, <2>1, EverybodyIn, Contributed
<1>5. o = [at \in task.SA[p] |-> IF at[2] = s - 1 THEN Reduced(Everyone, at) ELSE h[at]]
  OBVIOUS
<1> HIDE DEF o, h
<1>6. Has(p, s + 1, offset[p], o)
  <2> HIDE DEF s
  <2>1. QED
    BY <1>1, <1>2, <1>4, <1>5, HasVector
<1>7. out' = [out EXCEPT ![p] = o] /\ out'[p] = o
  BY <1>1, Replaced DEF Become
<1>8. QED
  <2>1. /\ offset' = [offset EXCEPT ![p] = offset[p]]
        /\ sums' = sums /\ step[p] # 0
    BY <1>1, <1>3, Untouched
  <2>2. QED
    BY <1>1, <1>6, <1>7, <2>1, BecomeKeeps

LEMMA WindowsCreatedKeeps ==
  ASSUME Inv, NEW p \in Rank, WindowsCreated(p)
  PROVE  Keeps(p)
<1> DEFINE h == out[p]
           o == IF task.output = SpParMat THEN << >> ELSE h
<1>1. /\ step[p] = 1 /\ Method = "window"
      /\ IF task.output = SpParMat THEN Become(p, << >>) ELSE UNCHANGED out
      /\ UNCHANGED <<task, sums, offset>> /\ step' = [step EXCEPT ![p] = @ + 1]
  BY DEF WindowsCreated, Advance
<1>2. Has(p, 1, offset[p], h) /\ TaskOK
  BY <1>1, ProcessHas
<1>3. o = IF task.output = SpParMat THEN << >> ELSE h
  OBVIOUS
<1>4. out' = [out EXCEPT ![p] = o] /\ out'[p] = o
  <2>1. CASE task.output = SpParMat
    <3>1. out' = [out EXCEPT ![p] = << >>]
      BY <1>1, <2>1 DEF Become
    <3>2. out'[p] = << >>
      BY <3>1, Replaced
    <3>3. QED
      BY <2>1, <3>1, <3>2
  <2>2. CASE task.output # SpParMat
    BY <1>1, <2>2, Untouched
  <2>3. QED
    BY <2>1, <2>2
<1> HIDE DEF o, h
<1>5. Has(p, 2, offset[p], o)
  BY <1>1, <1>2, <1>3, HasWindows
<1>6. QED
  <2>1. /\ offset' = [offset EXCEPT ![p] = offset[p]]
        /\ sums' = sums /\ step[p] # 0 /\ step[p] + 1 = 2
    BY <1>1, Untouched
  <2>2. QED
    BY <1>1, <1>4, <1>5, <2>1, BecomeKeeps

(* What p reads from another is what that one has exposed.                 *)
LEMMA SourceExposes ==
  ASSUME Inv, NEW p \in Rank, Reads(p), AllIn(p)
  PROVE  /\ TaskOK /\ Method = "window" /\ step[p] \in 2 .. 2 * P + 1
         /\ step[p] \in Nat /\ step[p] > 0
         /\ Pass(p) = Passes(step[p]) /\ Source(p) = ArraysOf(Process(Passes(step[p])))
<1>1. TaskOK /\ Method = "window" /\ step[p] \in 2 .. 2 * P + 1 /\ step[p] \in Nat
      /\ step[p] > 0 /\ Contributes
  <2>1. TaskOK /\ Method = "window" /\ step[p] \in 2 .. 2 * P + 1 /\ step[p] \in Nat
    BY ProcessHas DEF Reads
  <2>2. P \in Nat
    BY <2>1, TaskNumbers
  <2>3. QED
    BY <2>1, <2>2 DEF Contributes
<1>2. Pass(p) = Passes(step[p]) /\ Pass(p) \in 0 .. P - 1
  BY <1>1, PassSteps DEF Pass
<1>3. Process(Pass(p)) \in Rank
  BY <1>1, <1>2, Numbered
<1>4. Group(p) = Rank
  BY <1>1 DEF Group
<1>5. \A q \in Rank : sums[q] = ArraysOf(q)
  BY <1>1, <1>4, EverybodyIn, Contributed
<1>6. QED
  BY <1>1, <1>2, <1>3, <1>5 DEF Source

LEMMA OffsetsReadKeeps ==
  ASSUME Inv, NEW p \in Rank, OffsetsRead(p)
  PROVE  Keeps(p)
<1> DEFINE s == step[p]
           v == Number(task.grid, p)
           h == out[p]
           off == <<Source(p).proc_start_idx[v + 1], Source(p).proc_start_idx[v + 2]>>
<1>1. /\ Reads(p) /\ s % 2 = 0 /\ AllIn(p) /\ offset' = [offset EXCEPT ![p] = off]
      /\ UNCHANGED <<task, sums, out>> /\ step' = [step EXCEPT ![p] = @ + 1]
  BY DEF OffsetsRead, ReadsOffsets, Advance
<1>2. /\ TaskOK /\ Method = "window" /\ s \in 2 .. 2 * P + 1 /\ s \in Nat /\ s > 0
      /\ Source(p) = ArraysOf(Process(Passes(s)))
  BY <1>1, SourceExposes
<1>3. Slotted(p, s, off)
  BY <1>2 DEF Slotted
<1>4. Has(p, s, offset[p], h)
  BY ProcessHas
<1> HIDE DEF off, h
<1>5. Has(p, s + 1, off, h)
  <2> HIDE DEF s
  <2>1. QED
    BY <1>1, <1>2, <1>3, <1>4, HasOffsets
<1>6. /\ out' = [out EXCEPT ![p] = h] /\ sums' = sums /\ step[p] # 0
  BY <1>1, <1>2, Untouched DEF h
<1>7. QED
  BY <1>1, <1>5, <1>6, BecomeKeeps

LEMMA CellsReadKeeps ==
  ASSUME Inv, NEW p \in Rank, CellsRead(p)
  PROVE  Keeps(p)
<1> DEFINE s == step[p]
           off == offset[p]
           cells == SubSeq(Source(p).cells, off[1] + 1, off[2])
           o == IF task.output = SpParMat THEN TuplesBy(cells, p)
                ELSE UpdatedBy(cells, out[p])
<1>1. /\ Reads(p) /\ s % 2 = 1 /\ AllIn(p) /\ Become(p, o)
      /\ UNCHANGED <<task, sums, offset>> /\ step' = [step EXCEPT ![p] = @ + 1]
  BY DEF CellsRead, ReadsCells, Advance, Take
<1>2. /\ TaskOK /\ Method = "window" /\ s \in 2 .. 2 * P + 1 /\ s \in Nat /\ s > 0
      /\ Source(p) = ArraysOf(Process(Passes(s)))
  BY <1>1, SourceExposes
<1>3. cells = SubSeq(ArraysOf(Process(Passes(s))).cells, off[1] + 1, off[2])
  BY <1>2
<1>4. Has(p, s, off, out[p])
  BY ProcessHas
<1>5. o = IF task.output = SpParMat THEN TuplesBy(cells, p)
          ELSE UpdatedBy(cells, out[p])
  OBVIOUS
<1> HIDE DEF o, cells
<1>6. Has(p, s + 1, off, o)
  <2> HIDE DEF s, off
  <2>1. QED
    BY <1>1, <1>2, <1>3, <1>4, <1>5, HasCells
<1>7. out' = [out EXCEPT ![p] = o] /\ out'[p] = o
  BY <1>1, Replaced DEF Become
<1>8. QED
  <2>1. /\ offset' = [offset EXCEPT ![p] = offset[p]]
        /\ sums' = sums /\ step[p] # 0
    BY <1>1, <1>2, Untouched
  <2>2. QED
    BY <1>1, <1>6, <1>7, <2>1, BecomeKeeps

LEMMA CloseWindowsKeeps ==
  ASSUME Inv, NEW p \in Rank, CloseWindows(p)
  PROVE  Keeps(p)
<1> DEFINE s == step[p]
<1>1. /\ s \in {2 * P + 2, 2 * P + 3} /\ Method = "window"
      /\ UNCHANGED <<task, sums, offset, out>> /\ step' = [step EXCEPT ![p] = @ + 1]
  BY DEF CloseWindows, Advance
<1>2. TaskOK /\ P \in Nat /\ Has(p, s, offset[p], out[p])
  BY ProcessHas, TaskNumbers
<1>3. Has(p, s + 1, offset[p], out[p])
  <2> HIDE DEF s
  <2>1. QED
    BY <1>1, <1>2, HasClosed
<1>4. s # 0
  BY <1>1, <1>2
<1>5. QED
  BY <1>1, <1>3, <1>4, Untouched DEF Keeps

LEMMA InitInv == Init => Inv
<1> SUFFICES ASSUME Init PROVE Inv
  OBVIOUS
<1>1. TaskOK
  BY InitTask
<1>2. /\ step = [p \in Rank |-> 0] /\ sums = [p \in Rank |-> << >>]
      /\ offset = [p \in Rank |-> <<0, 0>>]
      /\ out = [p \in Rank |->
                  IF Sparse THEN Junk
                  ELSE [at \in task.SA[p] |-> IF Accumulates THEN << >> ELSE Junk]]
  BY DEF Init
<1>3. ASSUME NEW p \in Rank PROVE Has(p, step[p], offset[p], out[p])
  <2> DEFINE o == out[p]
  <2>1. o = IF Sparse THEN Junk
            ELSE [at \in task.SA[p] |-> IF Accumulates THEN << >> ELSE Junk]
    BY <1>2
  <2> HIDE DEF o
  <2>2. Has(p, 0, <<0, 0>>, o)
    BY <1>1, <2>1, HasGiven
  <2>3. step[p] = 0 /\ offset[p] = <<0, 0>>
    BY <1>2
  <2>4. QED
    BY <2>2, <2>3 DEF o
<1>4. \A p \in Rank : step[p] = 0
  BY <1>2
<1>5. /\ step = [p \in Rank |-> step[p]] /\ sums = [p \in Rank |-> sums[p]]
      /\ offset = [p \in Rank |-> offset[p]] /\ out = [p \in Rank |-> out[p]]
  BY <1>2
<1>6. QED
  BY <1>1, <1>3, <1>4, <1>5 DEF Inv

LEMMA KeepsInv ==
  ASSUME Inv, NEW p \in Rank, Keeps(p)
  PROVE  Inv'
<1>1. task' = task
  BY DEF Keeps
<1>2. Rank' = Rank /\ TaskOK' /\ Contributes' = Contributes
  BY <1>1, TaskStays DEF Inv
<1>3. /\ step' = [q \in Rank |-> step'[q]] /\ sums' = [q \in Rank |-> sums'[q]]
      /\ offset' = [q \in Rank |-> offset'[q]] /\ out' = [q \in Rank |-> out'[q]]
  BY DEF Inv, Keeps
<1>4. step[p] \in Nat
  BY ProcessHas
<1>5. /\ step'[p] = step[p] + 1
      /\ \A q \in Rank \ {p} : /\ step'[q] = step[q] /\ offset'[q] = offset[q]
                               /\ out'[q] = out[q] /\ sums'[q] = sums[q]
  BY DEF Inv, Keeps
<1>6. Contributes => sums'[p] = Contribution(p)
  <2>1. CASE step[p] = 0
    BY <2>1 DEF Inv, Keeps
  <2>2. CASE step[p] # 0
    BY <1>4, <2>2 DEF Inv, Keeps
  <2>3. QED
    BY <2>1, <2>2
<1>7. ASSUME NEW q \in Rank, Contributes, step'[q] > 0
      PROVE  sums'[q] = Contribution(q)'
  <2>1. sums'[q] = Contribution(q)
    BY <1>5, <1>6, <1>7 DEF Inv
  <2>2. QED
    BY <1>1, <2>1, TaskStays
<1>8. ASSUME NEW q \in Rank
      PROVE  Has(q, step[q], offset[q], out[q])'
  <2>1. Has(q, step'[q], offset'[q], out'[q])
    <3>1. CASE q = p
      BY <1>5, <3>1 DEF Keeps
    <3>2. CASE q # p
      BY <1>5, <3>2 DEF Inv
    <3>3. QED
      BY <3>1, <3>2
  <2>2. \A s, off, o : Has(q, s, off, o)' = Has(q, s, off, o)
    BY <1>1, TaskStays
  <2>3. QED
    BY <2>1, <2>2
<1>9. QED
  BY <1>2, <1>3, <1>7, <1>8 DEF Inv

LEMMA NextKeeps ==
  ASSUME Inv, Next
  PROVE  Inv'
<1> PICK p \in Rank : \/ ApplyLocally(p) \/ Enter(p) \/ LeaveRooted(p) \/ LeaveAll(p)
                      \/ Redistribute(p) \/ NextVector(p) \/ WindowsCreated(p)
                      \/ OffsetsRead(p) \/ CellsRead(p) \/ CloseWindows(p)
  BY DEF Next
<1>1. CASE ApplyLocally(p)
  BY <1>1, ApplyLocallyKeeps, KeepsInv
<1>2. CASE Enter(p)
  BY <1>2, EnterKeeps, KeepsInv
<1>3. CASE LeaveRooted(p)
  BY <1>3, LeaveRootedKeeps, KeepsInv
<1>4. CASE LeaveAll(p)
  BY <1>4, LeaveAllKeeps, KeepsInv
<1>5. CASE Redistribute(p)
  BY <1>5, RedistributeKeeps, KeepsInv
<1>6. CASE NextVector(p)
  BY <1>6, NextVectorKeeps, KeepsInv
<1>7. CASE WindowsCreated(p)
  BY <1>7, WindowsCreatedKeeps, KeepsInv
<1>8. CASE OffsetsRead(p)
  BY <1>8, OffsetsReadKeeps, KeepsInv
<1>9. CASE CellsRead(p)
  BY <1>9, CellsReadKeeps, KeepsInv
<1>10. CASE CloseWindows(p)
  BY <1>10, CloseWindowsKeeps, KeepsInv
<1>11. QED
  BY <1>1, <1>2, <1>3, <1>4, <1>5, <1>6, <1>7, <1>8, <1>9, <1>10

LEMMA StepInv == Inv /\ [Next]_vars => Inv'
<1> SUFFICES ASSUME Inv, [Next]_vars PROVE Inv'
  OBVIOUS
<1>1. CASE UNCHANGED vars
  <2>1. task' = task /\ step' = step /\ sums' = sums /\ offset' = offset /\ out' = out
    BY <1>1 DEF vars
  <2>2. /\ Rank' = Rank /\ TaskOK' = TaskOK /\ Contributes' = Contributes
        /\ \A p : Contribution(p)' = Contribution(p)
        /\ \A p, s, off, o : Has(p, s, off, o)' = Has(p, s, off, o)
    BY <2>1, TaskStays
  <2>3. ASSUME NEW p \in Rank PROVE Has(p, step[p], offset[p], out[p])'
    <3>1. Has(p, step'[p], offset'[p], out'[p])
      BY <2>1 DEF Inv
    <3>2. QED
      BY <2>2, <3>1
  <2>4. QED
    BY <2>1, <2>2, <2>3 DEF Inv
<1>2. CASE Next
  BY <1>2, NextKeeps
<1>3. QED
  BY <1>1, <1>2

LEMMA InvTypeOK == Inv => TypeOK
<1> SUFFICES ASSUME Inv PROVE TypeOK
  OBVIOUS
<1>1. \A p \in Rank : step[p] \in 0 .. Final
  BY DEF Inv, Has
<1>2. step \in [Rank -> 0 .. Final]
  BY <1>1 DEF Inv
<1>3. QED
  BY <1>2, ProcessHas DEF TypeOK

LEMMA SparseTypes ==
  ASSUME TaskOK, Sparse
  PROVE  task.output # CIRC_CIRC /\ task.input # MultiVec
<1>1. task.output = SparseMatrix \/ task.output = SpParMat
  BY DEF Sparse
<1>2. task.output # CIRC_CIRC
  BY <1>1 DEF SparseMatrix, SpParMat, CIRC_CIRC
<1>3. <<task.input, task.output>> \in Types
  BY DEF TaskOK
<1>4. CASE task.input = MultiVec
  <2>1. task.input \notin Distributed /\ task.output # MultiVec
    BY <1>1, <1>4
    DEF Distributed, ColDists, RowDists, MC_MR, MultiVec, SparseMatrix, SpParMat
  <2>2. FALSE
    BY <1>3, <1>4, <2>1
    DEF Types, MultiVec, Matrix, SparseMatrix, SpParMat, VCStar, S_S
  <2>3. QED
    BY <2>2
<1>5. QED
  BY <1>2, <1>4

LEMMA InvNoDuplicates == Inv => NoDuplicates
<1> SUFFICES ASSUME Inv, NEW p \in Rank, Sparse, task.SA[p] # {},
                    Returned(p) \/ Reads(p)
             PROVE  \A j, k \in DOMAIN out[p] : out[p][j].at = out[p][k].at => j = k
  BY DEF NoDuplicates
<1> DEFINE o == out[p]
<1>1. PICK shift, W : Listed(o, shift, W)
  <2>1. CASE Returned(p)
    <3>1. Agreed
      <4>1. TaskOK /\ SHeight \in Nat
        BY ProcessHas, SketchSizes
      <4>2. task.output # CIRC_CIRC /\ task.input # MultiVec
        BY <4>1, SparseTypes
      <4>3. QED
        BY <4>1, <4>2 DEF TaskOK, Agreed, Spacious
    <3>2. Right(p, o)
      BY <2>1, <3>1, ProcessHas DEF Has, Returned
    <3>3. QED
      BY <3>2 DEF Right
  <2>2. CASE Reads(p)
    <3>1. Method = "window" /\ step[p] >= 2
      BY <2>2, ProcessHas, TaskNumbers DEF Reads
    <3>2. Listed(o, OffsetOf(p), ReadSoFar(p, step[p]))
      BY <3>1, ProcessHas DEF Has, CellsTaken
    <3>3. QED
      BY <3>2
  <2>3. QED
    BY <2>1, <2>2
<1> HIDE DEF o
<1>2. DOMAIN o = 1 .. Len(o) /\ \A j, k \in 1 .. Len(o) : o[j].at = o[k].at => j = k
  <2>1. /\ o = [k \in 1 .. Len(o) |-> o[k]]
        /\ \A j, k \in 1 .. Len(o) : o[j].at = o[k].at => j = k
    BY <1>1 DEF Listed
  <2> DEFINE n == Len(o)
  <2>2. o = [k \in 1 .. n |-> o[k]]
    BY <2>1
  <2> HIDE DEF n
  <2>3. DOMAIN o = 1 .. n
    BY <2>2
  <2>4. QED
    BY <2>1, <2>3 DEF n
<1>3. QED
  BY <1>2 DEF o

At(t, shift) == <<t.at[1] + shift[1], t.at[2] + shift[2]>>

PlaceOf(o, at, shift) == CHOOSE k \in DOMAIN o : at = At(o[k], shift)

Found(o, shift, W) ==
  /\ DOMAIN o = 1 .. Len(o)
  /\ {At(t, shift) : t \in Range(o)} = {at \in DOMAIN W : W[at] # {}}
  /\ \A at \in DOMAIN W : W[at] # {} =>
        Enumerates(o[PlaceOf(o, at, shift)].terms, W[at])

(* A list has exactly the entries that have terms, and finds them again.   *)
LEMMA ListedEntries ==
  ASSUME NEW o, NEW shift, shift[1] \in Int, shift[2] \in Int,
         NEW W, DOMAIN W \subseteq Nat \X Nat, Listed(o, shift, W)
  PROVE  Found(o, shift, W)
<1> DEFINE n == Len(o)
           E == {at \in DOMAIN W : W[at] # {}}
           F == {At(t, shift) : t \in Range(o)}
<1>1. /\ o = [k \in 1 .. n |-> o[k]]
      /\ \A k \in 1 .. n : \E at \in DOMAIN W :
            /\ o[k].at = Less(at, shift) /\ W[at] # {}
            /\ Enumerates(o[k].terms, W[at])
      /\ \A at \in DOMAIN W : W[at] # {} => \E k \in 1 .. n : o[k].at = Less(at, shift)
  BY DEF Listed
<1> HIDE DEF n
<1>2. DOMAIN o = 1 .. n
  BY <1>1
<1>3. ASSUME NEW at \in DOMAIN W, NEW t, t.at = Less(at, shift)
      PROVE  At(t, shift) = at
  <2> DEFINE i == at[1]
             j == at[2]
             x == shift[1]
             y == shift[2]
  <2>1. at = <<i, j>> /\ i \in Nat /\ j \in Nat /\ x \in Int /\ y \in Int
    OBVIOUS
  <2>2. At(t, shift) = <<(i - x) + x, (j - y) + y>>
    BY <1>3 DEF At, Less
  <2> HIDE DEF i, j, x, y
  <2>3. (i - x) + x = i /\ (j - y) + y = j
    BY <2>1
  <2>4. QED
    BY <2>1, <2>2, <2>3
<1>4. ASSUME NEW k \in 1 .. n
      PROVE  At(o[k], shift) \in E /\ Enumerates(o[k].terms, W[At(o[k], shift)])
  <2>1. PICK at \in DOMAIN W : /\ o[k].at = Less(at, shift) /\ W[at] # {}
                               /\ Enumerates(o[k].terms, W[at])
    BY <1>1
  <2>2. At(o[k], shift) = at
    BY <1>3, <2>1
  <2>3. QED
    BY <2>1, <2>2
<1>5. ASSUME NEW at \in E PROVE \E k \in 1 .. n : at = At(o[k], shift)
  <2>1. PICK k \in 1 .. n : o[k].at = Less(at, shift)
    BY <1>1
  <2>2. QED
    BY <1>3, <2>1
<1>6. Range(o) = {o[k] : k \in 1 .. n}
  BY <1>2 DEF Range
<1>7. F = E
  <2>1. \A t \in Range(o) : At(t, shift) \in E
    BY <1>4, <1>6
  <2>2. \A at \in E : \E t \in Range(o) : at = At(t, shift)
    BY <1>5, <1>6
  <2> HIDE DEF E
  <2>3. QED
    BY <2>1, <2>2
<1>8. ASSUME NEW at \in E
      PROVE  Enumerates(o[PlaceOf(o, at, shift)].terms, W[at])
  <2> DEFINE k == PlaceOf(o, at, shift)
  <2>1. k \in 1 .. n /\ at = At(o[k], shift)
    BY <1>2, <1>5 DEF PlaceOf
  <2> HIDE DEF k
  <2>2. Enumerates(o[k].terms, W[at])
    BY <1>4, <2>1
  <2>3. QED
    BY <2>2 DEF k
<1>9. QED
  BY <1>2, <1>7, <1>8 DEF n, Found

(* What a process returns in a list or a dense part is what is owed to it. *)
LEMMA InvSketched == Inv /\ Spacious => Sketched
<1> SUFFICES ASSUME Inv, Spacious, NEW p \in Rank, Returned(p), task.sized, Sparse => task.SA[p] # {},
                    NEW terms, terms = [at \in task.SA[p] |-> Owed(at)]
             PROVE  /\ Entries(p) = {at \in task.SA[p] : Sparse => terms[at] # {}}
                    /\ \A at \in Entries(p) :
                          /\ Range(TermsOf(p, at)) = terms[at]
                          /\ Len(TermsOf(p, at)) = Cardinality(terms[at])
  BY DEF Sketched, Owed, TermsIn, All
<1> DEFINE o == out[p]
           shift == ShiftOf(p)
<1>1. TaskOK /\ Right(p, o)
  BY ProcessHas DEF Has, Returned, Agreed
<1>2. Entries(p) = {at \in task.SA[p] : Sparse => terms[at] # {}}
      /\ \A at \in Entries(p) : Enumerates(TermsOf(p, at), terms[at])
  <2>1. CASE ~ Sparse
    <3>1. Entries(p) = task.SA[p]
      BY <2>1, ProcessHas DEF Entries, Sparse
    <3>2. \A at \in task.SA[p] : Enumerates(o[at], Owed(at)) /\ TermsOf(p, at) = o[at]
      BY <1>1, <2>1 DEF Right, TermsOf
    <3>3. QED
      BY <2>1, <3>1, <3>2
  <2>2. CASE Sparse
    <3>1. Listed(o, shift, OwedIn(task.SA[p]))
      BY <1>1, <2>2 DEF Right
    <3>2. OwedIn(task.SA[p]) = terms /\ DOMAIN terms = task.SA[p]
      BY DEF OwedIn
    <3>3. shift[1] \in Int /\ shift[2] \in Int
      BY <1>1, MethodKinds, OffsetsNatural DEF ShiftOf
    <3>4. task.SA[p] \subseteq Nat \X Nat
      BY <1>1, SketchEntry, SketchSizes DEF Positions
    <3> HIDE DEF o, shift
    <3>5. /\ DOMAIN o = 1 .. Len(o)
          /\ {At(t, shift) : t \in Range(o)} = {at \in task.SA[p] : terms[at] # {}}
          /\ \A at \in task.SA[p] : terms[at] # {} =>
                Enumerates(o[PlaceOf(o, at, shift)].terms,
                           terms[at])
      <4>1. Listed(o, shift, terms) /\ DOMAIN terms \subseteq Nat \X Nat
        BY <3>1, <3>2, <3>4
      <4>2. Found(o, shift, terms)
        BY <3>3, <4>1, ListedEntries
      <4>3. QED
        BY <3>2, <4>2 DEF Found
    <3>6. Entries(p) = {At(t, shift) : t \in Range(o)}
      <4>1. CASE task.output = SpParMat
        BY <4>1 DEF Entries, At, o, shift, ShiftOf
      <4>2. CASE task.output # SpParMat
        <5>1. shift = <<0, 0>> /\ Entries(p) = {t.at : t \in Range(o)}
          BY <2>2, <4>2 DEF Entries, o, shift, ShiftOf
        <5>2. ASSUME NEW t \in Range(o) PROVE At(t, shift) = t.at
          <6>1. PICK k \in 1 .. Len(o) : t = o[k]
            BY <3>5 DEF Range
          <6>2. PICK at \in task.SA[p] : o[k].at = Less(at, shift)
            BY <3>1, <3>2 DEF Listed
          <6>3. at = <<at[1], at[2]>> /\ at[1] \in Nat /\ at[2] \in Nat
            BY <3>4
          <6>4. t.at = at
            BY <5>1, <6>1, <6>2, <6>3 DEF Less
          <6>5. QED
            BY <5>1, <6>3, <6>4 DEF At
        <5>3. QED
          BY <5>1, <5>2
      <4>3. QED
        BY <4>1, <4>2
    <3>7. \A at : TermsOf(p, at) =
                    o[PlaceOf(o, at, shift)].terms
      BY <2>2 DEF TermsOf, At, o, shift, ShiftOf, PlaceOf
    <3>8. \A at \in task.SA[p] : terms[at] # {} => Enumerates(TermsOf(p, at), terms[at])
      BY <3>5, <3>7
    <3>9. Entries(p) = {at \in task.SA[p] : terms[at] # {}}
      BY <3>5, <3>6
    <3>10. QED
      BY <2>2, <3>8, <3>9
  <2>3. QED
    BY <2>1, <2>2
<1>3. ASSUME NEW at \in Entries(p)
      PROVE  /\ Range(TermsOf(p, at)) = terms[at]
             /\ Len(TermsOf(p, at)) = Cardinality(terms[at])
  <2> DEFINE s == TermsOf(p, at)
             T == terms[at]
  <2>1. Enumerates(s, T)
    BY <1>2
  <2> HIDE DEF s, T
  <2>2. Range(s) = T /\ Len(s) = Cardinality(T)
    BY <2>1, EnumeratesRange, EnumeratesLength
  <2>3. QED
    BY <2>2 DEF s, T
<1>4. QED
  BY <1>2, <1>3

(* The step counters stay within the calls of the method, the offsets in   *)
(* order, and a dense sketch has the entries of its part.                  *)
THEOREM WellTyped == Spec => []TypeOK
<1>1. Inv /\ [Next]_vars => Inv'
  BY StepInv
<1>2. QED
  BY <1>1, InitInv, InvTypeOK, PTL DEF Spec

LEMMA TaskNeverChanges ==
  ASSUME [Next]_vars
  PROVE  task' = task
<1>1. CASE UNCHANGED vars
  BY <1>1 DEF vars
<1>2. CASE Next
  BY <1>2 DEF Next, ApplyLocally, Enter, LeaveRooted, LeaveAll, Redistribute, NextVector,
              WindowsCreated, OffsetsRead, CellsRead, CloseWindows
<1>3. QED
  BY <1>1, <1>2

(* Whatever the types, the directions, the grid, row_idx and the entries   *)
(* of A: a process that has returned has its part of the sketch, each      *)
(* entry with every term it is owed by any process, once.  Sketches at the *)
(* root have columns one behind the other, or at least twice their height  *)
(* apart (Roomy).                                                          *)
THEOREM SketchesAreRight ==
  ASSUME Roomy
  PROVE  Spec => []Sketched
<1>1. Inv /\ [Next]_vars => Inv'
  BY StepInv
<1>2. Init => Spacious
  BY InitTask
<1>3. Inv /\ Spacious /\ [Next]_vars => Spacious'
  <2>1. Inv /\ [Next]_vars => task' = task
    BY TaskNeverChanges
  <2>2. task' = task /\ Spacious => Spacious'
    BY DEF Spacious, SHeight
  <2>3. QED
    BY <2>1, <2>2
<1>4. QED
  BY <1>1, <1>2, <1>3, InitInv, InvSketched, PTL DEF Spec

(* No position is twice in a sparse sketch, while it is put together by    *)
(* reading from one process after another, or once it is returned.         *)
THEOREM TuplesAreDistinct == Spec => []NoDuplicates
<1>1. Inv /\ [Next]_vars => Inv'
  BY StepInv
<1>2. QED
  BY <1>1, InitInv, InvNoDuplicates, PTL DEF Spec
=============================================================================
