# Formal models of libSkylark

libSkylark is a C++ library of randomized sketching transforms and of the
numerical linear algebra, machine learning and graph algorithms built on them.
It runs as an MPI program over Elemental and CombBLAS matrices, with OpenMP
inside a process. This directory holds TLA+ models of the parts of it where
ordering, replication or interleaving decides whether the result is right,
their TLC configurations, and TLAPS proofs. All paths are below `src/`.

Contents: [the system](#the-system) · [the modules](#the-modules) ·
[the runs](#the-runs) · [findings](#disagreements-between-code-and-documentation) ·
[proofs](#proofs) · [limits](#what-is-not-modelled) · [plan](#plan)

## The system

| component | state it keeps | operations | correct when | status |
|---|---|---|---|---|
| random stream context (`base/context.hpp`, `base/randgen.hpp`) | a seed and a 64-bit counter, one copy per MPI process | allocate or generate an array, draw a value or an integer | no sample is handed out twice; the copies agree although no message is exchanged | modelled: `Context` |
| sketch objects (`sketch/*_data.hpp`, `sketch/sketch_add.hpp`) | sizes, parameters, the context of creation, the arrays drawn | construct, `to_ptree`, `from_ptree`, destroy | parts are independent; an object read back is the one written | modelled: `SketchData` |
| chunked file reading (`utility/io/arc_list.hpp`) | per process: its share, bytes skipped and appended | read a share, tell the predecessor how much completes its last line | every line is read by exactly one process, whole | modelled: `ChunkedRead` |
| arc list and distributed sparse matrix (`utility/io/arc_list.hpp`, `base/sparse_dist_matrix.hpp`) | parsed entries by owner, agreed size, messages, the local part | parse, agree, send, receive, insert, finalize | the parts make up the matrix of the file; everyone returns | partly: `ArcList` |
| asynchronous Gauss-Seidel (`algorithms/asynch/`) | the shared iterate, each thread's step | rounds of lock-free steps, convergence test | no update lost, the report true, the method descends and returns | partly: `AsyRGS` |
| quasi-random sequences, random matrices (`base/`) | none | pure functions of a position | — | not modelled |
| applying dense sketches (`sketch/dense_transform*.hpp`) | the sketch, the current panel and block | panel products over seven matrix distributions | every entry has each term of its sum once, on every distribution | partly: `DenseApply` |
| applying hash sketches (`sketch/hash_transform*.hpp`) | the sketch; one-sided windows | local hashing, reductions, redistribution, remote accumulation between fences | every entry has each term once, no position is twice; windows outlive their epochs | modelled: `HashApply` |
| FFT, feature-map, sampling, polynomial sketches (`sketch/{UST,RFUT,FJLT,FRFT,PPT,RFT,QRFT,RLT,QRLT}*.hpp`) | the sketch, intermediate matrices | transpose or redistribute, nested calls, kernels on whole vectors | every entry is the one the transform defines, on every distribution; apply returns | partly: `FeatureApply` |
| Krylov and regression solvers, NLA | iterates | sequential iterations; one retry loop | stopping logic, independence of retries | not modelled |
| block ADMM and models (`ml/`) | replicated coefficients | reduce/broadcast rounds, validation | collectives match on every rank | not modelled |
| graph analytics (`ml/graph/`) | residuals, a work list | diffusion, local clustering | the list holds exactly the flagged vertices and runs empty | not modelled |
| libsvm, HDF5, HDFS input (`utility/io/`, `ml/io.hpp`) | file position, blocks, shares | rank 0 reads and distributes; writers collect | sends match receives; no example lost or mixed with another; nothing is left for the next call | partly: `ReadExamples` |
| C API and Python (`capi/`, `python-skylark/`) | handles, Python objects, wrappers of arrays | create, apply, serialize, pickle, free | a call does what was asked; every handle has one owner; no exception escapes | partly: `SketchDispatch`, `CApi` |
| BLAS and matrix wrappers, utilities, examples, tests | — | — | — | not modelled |

How they interact. A driver makes one context per process from the same seed.
Every sketch constructor copies the context, draws its parts from the copy, and
assigns what is left to the caller's: replication, not communication, keeps the
processes together, so one missing or additional draw on one process, or one
constructor that forgets to move the context, silently corrupts everything
behind it. Solvers and ML models create sketches; models and the C API write
them to property trees and read them back. Matrices come from the readers, which
do communicate: point-to-point messages in the chunked reader, collectives and
point-to-point messages in the arc list reader.

What is hard here:

* processes that must make the same calls without ever checking that they did
  (context), also when a call fails on one of them;
* chains of messages whose contents depend on where lines end (chunked reader),
  blocking receives against sends, collectives some process may not reach;
* threads reading what others are writing, with only the last step atomic
  (AsyRGS);
* objects rebuilt later from the recipe and not from the numbers (sketches);
* sums whose terms lie on other processes: reduced, redistributed, or read from
  windows that must still be there (hash sketches);
* the same call under 40 pairs of types, each written out by hand, several
  through transposed or redistributed copies of the matrix (sketches on Elemental);
* tables that must agree without the compiler's help: names of types and classes
  in Python, in C and in the dispatchers (C API);
* passes over a file that must stop at the same line, and messages told apart by
  their order alone (readers);
* modular and floating-point arithmetic at boundaries (the end of the stream,
  the end of the last share).

`PROJECT.json` lists these hazards at their lines, with the properties
that cover them and, where none does yet, why.

## The modules

| module | what it is | run by / proved in |
|---|---|---|
| `RandomStream` | the size_t arithmetic of one stream: `Suppliable`, `Advance` | shared by `Context` and `SketchData` |
| `SharedStream` | what a context promises: one stream, fresh reservations | `Context` implements it |
| `Context` | replicated contexts | `MCContext`, `StreamProofs` |
| `SketchData` | creation, serialization, reconstruction of 18 sketch classes | `MCSketchData`, `StreamProofs` |
| `ChunkedRead` | `parallelChunkedRead` | itself, and as part of `ArcList` |
| `ArcList` | `ReadArcList`, extends `ChunkedRead` | `MCArcList`, `InterfaceProofs` (of both) |
| `Elemental` | process grids and distributions, as Elemental defines them (external) | the four below |
| `DenseApply` | dense sketches applied panel by panel | `MCDenseApply`, `DenseApplyProofs` |
| `HashApply` | hash sketches over every pair of types | `MCHashApply`, `HashApplyProofs` |
| `FeatureApply` | sampling, mixing, Fastfood, polynomial and feature sketches | `MCFeatureApply`, `FeatureApplyProofs` |
| `ReadExamples` | readers and writers of libsvm and HDF5 files | `MCReadExamples`, `ReadExamplesProofs` |
| `SketchDispatch` | the tables of types each class can be applied to | used by `CApi` |
| `CApi` | sketches behind the C API, as Python holds them | `MCCApi`, `InterfaceProofs` |
| `AsyRGS` | the asynchronous solver | `MCAsyRGS`, `AsyRGSProofs` |
| `Lemmas` | least numbers, sums, division, enumerations | extended by every proof module |

Definitions marked "mutant" in a comment are deliberate faults used to show
that a property can fail; no specification refers to them.

### Context, RandomStream, SharedStream

`counter[r]` is `_counter` of process `r`'s copy of `context_t`. The program is
a list of calls, chosen as it is made: the first process to reach call `k`
chooses the operation and the size (`calls`), the others follow at their own
pace (`done`). `arrays` holds what each process was given, `thrown` which calls
threw.

| action | code |
|---|---|
| `AllocateArray` | `allocate_random_samples_array`, `allocate_random_array`: a lazy array, then the counter moves |
| `GenerateArray` | `generate_random_samples_array`: the counter has moved before the vector is allocated, and that allocation may fail on one process alone |
| `RandomValue` | `random_value`, `random_int`: an array of one sample |
| `Refuse` | the constructor of `random_array_t` throws; nothing has moved |

`Suppliable` keeps the code's `max - base < size - 1` modulo `Word`: a request
for nothing is refused everywhere but at position 0. Samples are identified with
their positions; the Threefry generator and the distributions are pure functions
of seed and position. A call "global" in the documentation's sense is assumed
to be made by every process with the same arguments; the model is about what
follows from that when they run at different speeds and fail differently.

`SharedStream` is the promise: every call reserves samples disjoint from all
earlier reservations, and a process holds either exactly the reservation of the
call it went through or nothing. `Shared` is the refinement mapping: a call
reserves `[base, base + size)` at the position where its first caller found the
stream, a refused call reserves nothing.

### SketchData

`Layout` lists, class by class, the parts `build()` draws and how many samples
each takes. `moves` records whether the context that draws the next part is
behind this one, which it is not after `RFUT_data_t`. `Walk`, `Built`, `BuildEnd`
are `build()`: fold the parts over a copy of the context. `Create` is the public
constructor, `ToPtree` and `FromPtree` the serialization, with `Relayout` for the
constructors from a ptree, `TypeReloaded` for the names they set, and `Dispatch`
for the two `from_ptree` chains (the C API and Python use the one of
`sketch_transform_data_t`, the models the one of `sketch_transform_t`).
`FromPtreeThrows` is the unknown type, `Destroy` the destructor: ptrees outlive
objects.

Dimensions, parameters and the numbers drawn are abstracted to what they
determine: how many samples are taken. A created and a reloaded object are the
same iff they are of one class and hold the same samples in the same parts.

### ChunkedRead

A file is its size, the set of positions of its newlines, and the byte at which
the last process takes it to end (the code multiplies doubles there; `Short`
names the pairs of process count and size for which that loses a byte). Process
`r` is in `scan` (read the share, post the receive, look for a newline), `wait`
(wait for the successor's number, then read that many bytes more), `relay` (the
share holds no newline: add it to what the successor said, and pass it on),
`flush` (complete the send). `Text(r)` is what is left in its stream, `Pieces`
what `getline` makes of it. `tellg()` returns -1 after a failed `getline`; `Tell(r, -1)` is what the
last process then sends. A process refuses a share beyond `INT_MAX` (`MaxShare`, in `Refuse`), and its
reads may fail (`ReadFails`, `ExtendFails`, of the processes in `Failing`): it throws and leaves, and
whoever waits for its number waits for ever. `LinesWhole` and `NoLineLost` hold in that case too.

### ArcList

After `parse`, entries wait in `outbox` by the owner of their row (VC/STAR
distribution: `row % P`), as a set: an entry carries the reader and the line it is from, which
is all that tells two equal arcs apart. `Agree` is the two `all_reduce` and the `all_gather`:
nobody leaves before everybody has arrived. `Send` posts all messages, `Receive`
blocks for one sender at a time in the order of ranks, `WaitAll` waits for all
requests *but the last*, as the half-open range in the code does, `Insert` is
`queue_update` and the summation in `finalize`, `Return` the `all_reduce` at its
end. `ParseThrows` is a malformed line, `SendThrows` a buffer that is not to be had: the process leaves, and the others wait.
Weights are counted in halves, because the symmetric matrix is (A + A')/2.

The bytes of the model are coarser than those of a file: a line of one byte is
empty, a longer one may be an arc, a comment or malformed.

### DenseApply

A dense sketch is a matrix R that no process ever holds: each computes the entries it
needs from their positions. `task` says what is applied to what. `Choose` is
`apply_impl`: by the shape of the matrices it picks one of the strategies of the class for
these distributions (`Plans`), the 18 functions `*_gemm` written as records: which
dimension is cut into panels, how R and A are distributed in the product, and what becomes
of the product (written, added, or contracted over the processes). `Panel` and
`Block` are one pass of a loop, `MultiplyOnce` the strategies without one, `Copy` the
assignment to a STAR/STAR or CIRC/CIRC sketch. In a pass each process realizes its part of
the panel (`Realized`, which is `realize_matrix_view`), takes the part of A it has
after redistribution (`Local`) and multiplies the two by position (`Product`).

An entry of the sketch is the list of the terms added up in it, a term being the
indices of its two factors. So an index computed wrongly, a process that multiplies
other columns than it realized, a term added twice or left out all show in
`Sketched`. The processes of a pass are in step, as collectives keep them; what one
computes between two collectives does not depend on the others.
Rowwise and columnwise products share their
definitions: dimensions are named by role (`m` kept, `n` summed, `s` of the sketch).

### HashApply

Every process has all of `row_idx` and `row_value`; what differs with the types of A and of
the sketch (`Types`, `Method`) is who adds up what and how it gets to the process that holds
the entry. `ApplyLocally` is the hashing of a local matrix; `Enter`, `LeaveRooted` and
`LeaveAll` a collective call (a reduction, a gather), which a process enters alone and
leaves when those it needs have entered; `Redistribute` an Elemental assignment before or
after; `NextVector` the loop over the vectors of a multi-vector, which is not entered, and no error
given, when sizes do not agree (`~ task.sized`). `CopiedUp` is the `memcpy` that spreads columns to the leading
dimension at the root: where a column is copied onto a part of itself the outcome is undefined (`Junk`). The mixed version (CombBLAS
in, Elemental out) goes through `WindowsCreated`, `OffsetsRead`, `CellsRead` and
`CloseWindows`: each process exposes its sums in windows and reads its own entries from
those of the others one window after the other, between fences. `step` counts the
collectives a process has entered, so processes run ahead of each other as far as the calls
let them. Memory that has not been written is a term that belongs nowhere (`Junk`).

Entries are lists of terms `<<i, j, k>>`, entry `(i, j)` of A times `row_value[k]`, as in
`DenseApply`. Sparse outputs are lists of tuples with positions, so that a duplicate shows.

### FeatureApply

`calls` is the stack of `apply` calls that have not returned. `WayOf` says for each class,
distribution and dimension what the overload does (one definition for each overload): apply
a kernel to whole local vectors (`ApplyLocally`, `ApplyAtRoot`), transpose or redistribute and call
`apply` again (`ApplyToTransposed`, `ApplyRedistributed`, `TakeResult`), mix and sample
(`Rearrange`, `MixInPlace`, `Sample`, `CopyOut`), apply the underlying dense sketch and change
its entries (`Underlying`, `Elementwise`), or refuse (`Refused`). Values are terms: which
operation, with which of the sketch's parameters, of which values; `Strided`, the blocks of
Fastfood, scales and shifts are computed with the indices of the code. The processes are in
step between redistributions. The FFT is an uninterpreted operation on a whole vector. Columnwise PPT takes a
view of `A.Height()` rows of a sketch that has S (`PPT_view`), of which it uses only where it begins: a build
of Elemental that checks its views refuses it when S is less (`ViewsChecked`, `ViewRefused`), one that does not, the
release build of the run, writes S values and the sketch is right. The proofs are about both.

### ReadExamples

A case is a session (calls every process makes at its own pace), a file, a grid, the limits
`max_n` and `min_d`, and whether MPI buffers messages (`eager`); if it does not, a send
returns only when its message is received (`Sent`). `me[p]` is where a process is in its call, `mail` the
messages under way: those of a pair of processes keep their order within a tag, and
collectives are apart from them.

| actions | code |
|---|---|
| `ReadAlone`, `WriteAlone` | readers and writers of local matrices |
| `FirstPassAt`, `Broadcast`, `OpenHDF5` | the root counts examples, features and targets (`DistPass`, `DirDistPass`, `HdfsDistPass`, `VcStarPass`, `MlDensePass`, `MlSparsePass`, one per reader) and tells the others |
| `DistBlock`, `DirDistBlock`, `HdfsDistBlock`, `MlDenseBlock`, `MlHDF5DenseBlock`, `HDF5DistBlock`, `TakeBlock` | block after block: the root reads, Elemental scatters |
| `ReadUpdates`, `SendList`, `ScatterLabels`, `ReceiveList` | sparse VC/STAR: three lists of updates for each process and block |
| `AllReady`, `KeepShare`, `SendShare`, `ReceiveShare`, `AfterShares`, `Leave` | `ml/io.hpp`: a share of consecutive examples in seven messages |
| `Width`, `Summed`, `SendPart`, `CollectPart`, `AfterCollecting` | `write_hdf5` |
| `OpenToWrite`, `GatherBlock`, `AfterGathering` | distributed `WriteLIBSVM`: every process opens the file, the root gathers, and alone calls the collective `Get` for every entry (`Gets`) |

A file is one or more texts of lines; a line is an example, a comment or blank. Values are
what they came from (example and feature number in one), so that mixing shows. The two compressed
layouts are built and taken apart again (`Compressed`, `Uncompressed`) as `sparse_matrix_t`
does. The odd ends of the code are in the model: sizes are taken from the feature before the last colon
(`FinalFeatures`), sparse matrices by rows count further targets as features (`TargetsCounted`),
a directory read by columns does not start its count of entries again and an HDFS line without a colon is read
beyond its end (`Garbage`), and what the first entry of `write_hdf5`'s `mstart` holds, which is never set, is a choice of the call
(`Unwritable`). Which of these the run leaves out, `MCReadExamples` says.

### SketchDispatch, CApi

`SketchDispatch` has the three tables, written out by hand in the code for each of 17 classes:
the pairs of types `sl_supported_sketch_transforms` lists, those `sl_apply_sketch_transform`
dispatches, and those of the type-erased classes. In `CApi` a handle has a type tag and the
object behind it a class; Python objects have a type and a handle; a matrix is its adapter, its C++ type and the
order of its entries. `Create`, `CreateFails`, `Deserialize`, `Unpickle`, `Delete`, `Apply`,
`ApplyRefused`, `ApplyFails`, `AnyApply`, `initialize` and `finalize` are the calls. An
address read as another type than it was written is `"undefined"` (`Cast`), and so is what
is done with it: `DoneAsAsked` compares what a successful call did with what was asked, in Python's terms.

A sketch that is read back is tagged by the name its own constructor gives it (`Respelt`), not by the name it was
written with. A name the table of types does not know makes a handle without a tag (`NoTag`): applying it does nothing and
returns 0, freeing it deletes no transform (`leaked`), and the name it is written with cannot be read.
`Pickled` says for which classes a program serializes and pickles at all. `Exceptions` is what
constructors and transforms throw: `skylark_exception` is caught and becomes an error code, any other leaves C (`Caught`).

### AsyRGS

One right-hand-side block, `K` columns wide. `Draw` draws the coordinates of a
round, `Begin` gives a thread the next iteration (any sequence may have been
drawn, so taking them in order covers every schedule of the loop). `Load` reads
*one* entry of the iterate, as it is at that moment; `Add` is *one* `omp atomic`
addition; so the step of one thread interleaves with those of others at the grain
of the memory accesses. `Test` waits for the loop's implicit barrier, takes off
the sweeps and tests; `GiveUp` is the way out without convergence. `start`,
`moved`, `stale` are history variables: the iterate at the beginning of the
round, the corrections decided on since, and the columns each thread has read
entries of that were changed afterwards.

Numbers are integers in a unit so small that every division in the run comes out even: its
data are multiples of 64, and six steps halve at most six times. Floating-point rounding is not
modelled; where a division left a remainder the model would drop it. With one right-hand
side the code updates the caller's `X` in place; the model, and the run, are those of the
block version, whose working copy is copied back on both ways out.

## The runs

| run | instance | states | shows |
|---|---|---|---|
| `context` | 2 processes, stream of 8, sizes 0, 1, 3, 7, 4 calls | 244,268 | types, `Disjoint`, `Synchronized`; `Context` implements `SharedStream` |
| `sketch_data` | 5 classes, 2 shapes, 3 sketches, stream of 40 | 311,984 | `Independent`, `ReloadedSame` |
| `arc_list` | 3 processes, every file of 0, 2, 5, 6, 7 bytes ending in a newline, 3 arcs, comments, invalid lines, shares of up to 2 bytes, failures on one process | 112,709 | `FullLines`, `AllRead`, `Assembled`, `SendsLanded`, and `Returns` under fairness |
| `dense_apply` | 18 pairs of distributions, both directions, 5 grids of up to 6 processes, extents 1 to 5, block sizes 0, 1, 2 | 99,240 | `Sketched`, `FinishedKept`, and `Returns` under fairness |
| `asy_rgs` | 2 threads, a 3×3 system, 2 right-hand sides, 2 rounds of 3 steps | 414,588 | `NoneLost`, `ReportTrue`, `FixedPoint`, `FreshDescends`, and `Returns` under fairness |
| `hash_apply` | 34 pairs of types, both dimensions, grids of 1, 2 and 4 processes, 2 shapes, up to 5 hash functions | 107,144 | `Sketched`, `NoDuplicates`, `ReadsExposed`, and `Returns` under fairness |
| `capi` | 16 classes, 11 of them pickled, 9 kinds of matrices, 3 handles, 2 Python objects | 16,885 | `DoneAsAsked`, `Owned`, `Survives` |
| `feature_apply` | 11 transforms, every distribution, 5 grids of up to 6 processes, 5 shapes | 84,590 | `Sketched`, and `Returns` under fairness |
| `read_examples` | 115 cases of up to 3 calls, 1 to 4 processes, blocks of 2, buffered or not | 21,881 | `Delivered`, `Unmixed`, `NoneLeft`, and `Returns` under fairness |
| `sketch_fjlt`, `sketch_wzt`, `chunked_tail` | see below | — | violations |

Why the bounds are enough:

* *Stream of 8* (`Word`, 2^64 in the code). Sizes 0, 1, 3 and 7 give every case
  of the exhaustion test: refused at zero size, fits, fits with one sample left, does not fit.
  Four calls let three be made, one of them refused or failed, and
  a fourth show the consequence. `MayExhaust = FALSE` excludes a call that takes
  exactly what is left: the counter is then 0 and the stream starts again. With
  2^64 samples no program gets there; `StreamsDisjoint` states the assumption.
* *Stream of 40*, wide enough for three of the larger sketches; the classes of the run
  stand for one way of drawing each (hash, with or without
  replacement, nested sketches, blocks, dense), and the shapes for `S` below and
  above `N`. The remaining classes compose the same parts; `Reconstructed` is
  proved for all of them.
* *Files of 0, 2, 5, 6 and 7 bytes for 3 processes*: an empty file, fewer bytes than
  processes, equal and unequal shares, and lines that span one share, two shares and the
  whole file; at 7 bytes the last share is one byte larger than a process may read (`MaxShare = 2`). Every placement of newlines is explored.
* *Grids up to 2×3, extents up to 5*: fewer rows than processes, as many, and
  more; both strides different, so that VC and VR order differ; with block sizes 1
  and 2 panels that divide the extent and panels that do not; every strategy is chosen
  with several of them. `Factor = 1` puts all three cases of the choice among these sizes.
* *Hash sketches of 2 or 3 to 3 or 2*: two rows to one place, a place without a row, more
  and fewer rows than processes, and a leading dimension that is larger than the height (`Paddings`);
  sparse matrices with and without absent entries. Rows differ only in their
  index, so the hash functions are taken up to symmetry.
* *Feature sketches, N, S and M up to 5*: a sketch shorter and longer than the vectors, a
  last Fastfood block that is cut, fewer vectors than processes. `MaxCalls = 3` is one call more
  than the deepest nesting; `TypeOK` and `Returns` would show a fourth.
* *Three handles, two Python objects*: a handle that is freed and used again while another is alive.
  The program uses sketches of one class; classes do not meet in the code.
* *Files of 0 to 5 examples, blocks of 2, up to 4 processes*: full and partial last
  blocks, shares that differ by one, processes without a share, two calls in a row so
  that the first can leave messages for the second, and files written and read again.
* *Two rounds of three steps*: the loop with steps left in the second round,
  overtaking in both, convergence after the first, and neither. The three-by-three
  matrix has two coupled unknowns and an empty column; the initial iterates are
  zero and the solution.

Fairness. `ArcSpec` and the `Spec` of `AsyRGS`, `DenseApply`, `HashApply` and `FeatureApply` assume
`WF_vars` of the whole next-state relation, `ReadExamples` that of each process: some process or thread that can take a step takes one. It is what MPI
processes and OpenMP threads that run give; no fairness *between* processes is
needed, because each waits for others without spinning. A process blocked in a
receive or in a collective cannot take a step, so a deadlock would violate
`Returns`. `ParseThrows`, `Refuse`, `ReadFails`, `ExtendFails` and `SendThrows` leave the others blocked, which is why `Returns` is about valid
files that are read without failure. The other specifications state no fairness and no liveness: nothing obliges a
program to make a further call.

`CHECK_DEADLOCK FALSE` is set where the program may end (all calls made, all processes
returned), which is everywhere but in `capi` and `feature_apply`; where there is `Returns`, it takes its place.

## Disagreements between code and documentation

| run | what TLC finds |
|---|---|
| `sketch_fjlt` | `RFUT_data_t`'s constructor drops the context `build()` returns, so an FJLT draws its row samples from the positions its diagonal was drawn from (`sketch/RFUT_data.hpp:30`), against "ensuring the independence of successive samples" (`base/context.hpp:85`). |
| `sketch_wzt` | Reading a WZT calls the base class's `build()` (`sketch/WZT_data.hpp:75`): the signs are not drawn and the values are others than those written. |
| `chunked_tail` | When the file does not end in a newline and the last share lies within the last line, the last process sends -1 (`utility/io/arc_list.hpp:252`) and the end of the line is lost. |

`sketch_data` leaves the classes concerned out (`FJLT`, `RFUT`, `WZT`) and
`arc_list` the files concerned (`FinalNewline = TRUE`, `Short = {}`): what they show is that
everything else is right.

The other runs leave out inputs for which the code cannot do what its callers expect, or ends
the process; the models have them all the same, and TLC finds the property in parentheses violated when they are
added to the run's constants:

* rowwise `apply` of Fastfood and PPT to STAR/VC and STAR/VR matrices transposes and calls itself
  with the same tag, for ever (`sketch/FRFT_Elemental.hpp:563`, `sketch/PPT_Elemental.hpp:783`;
  `Returns`; `MCLeft`);
* `ReadDirLIBSVM` for local matrices advances the example counter before using it
  (`utility/io/libsvm_io.hpp:1046`; `Delivered`); the distributed HDFS reader reads
  the first block again and again (line 1939); everything after a comment or empty
  line is dropped (line 64); sizes are broadcast within one process for STAR/STAR and
  CIRC/CIRC matrices (line 225); dense local matrices are not set to zero (line 100); a sparse local matrix by rows counts
  the targets after the first as features (line 391);
* the root alone calls `Get` on the gathered matrices of a distributed `WriteLIBSVM` (`utility/io/libsvm_io.hpp:889`),
  which is collective: its broadcasts wait for the others to make a collective call of their own (`NoneLeft`; `Matched`);
* `write_hdf5` never sets the first entry of the array its root adds up (`ml/io.hpp:52`; `Returns`; `Cleared`);
* `read_hdf5` sends seven messages to processes whose share is empty, which do not receive
  them (`ml/io.hpp:338`; `NoneLeft`);
* hash sketches of an Elemental matrix into its own distribution are listed as
  supported and dispatched nowhere, so that the call returns success and does nothing
  (`capi/csketch.cpp:132`); a CombBLAS matrix sketched into a csr matrix is
  transposed; the type-erased rowwise FJLT is empty (`sketch/FJLT.hpp:205`) (`DoneAsAsked`;
  `MCExcluded`); names Python and C disagree about (`lib.py:280`, `capi/matrix_types.cpp:10`);
  LaplacianQRFT is tagged GaussianQRFT (`capi/csketch.cpp:469`);
* one dispatcher spells `FastMaternRFT` with three n (`sketch/sketch_add.hpp:42`), and none knows `ExpSemigroupQRLT`:
  neither can be read back, and the exception leaves the C API (`Survives`; `MCPickled`);
* a reloaded `ExpSemigroupRLT` is named `ExpSemiGroupRLT` (`sketch/RLT_data.hpp:135`), which has no tag and
  no loader: applying it does nothing and reports success, freeing it leaks the
  transform, reading it a second time ends the process (`DoneAsAsked`, `Owned`, `Survives`; `MCPickled`);
* a reloaded `GaussianQRFT` is one over another class of sequences than its tag is cast to (`Survives`; `MCPickled`);
* exceptions of Elemental and of the standard library are not caught in C (`capi/csketch.cpp:629`; `Survives`; `MCExceptions`);
* a padding smaller than the height makes `memcpy` copy columns onto themselves
  (`sketch/hash_transform_Elemental.hpp:370`, `419`; `Sketched`; `Paddings`);
* FastMaternRFT reads scales past the end of the array when `S` is no multiple of the block size:
  in the model it reads `Wild` values, which never reach the sketch;
* eleven processes and a file of 15 bytes: the rounded product loses the last byte
  (`utility/io/arc_list.hpp:175`; `FullLines` with `Short = {<<11, 15>>}`);
* block size 0, which is to mean no blocks (`sketch/sketch_params.hpp:8`), means blocks of the sketch's smaller extent in
  the inner strategies of `DenseApply`; the result is right;
* hash sketches with fewer rows than the grid divide by zero (`utility/external/combblas_comm_grid.hpp:77`; `Fits` in `HashApply` leaves them out).

## Proofs

Checked by `tlapm` from nothing; the assumptions are the `ASSUME`s on the
constants in the modules, all of which TLC evaluates on the instances above.

* `StreamProofs`, of `Context` (`TypeCorrect`, `ContextsAgree`, `StreamsDisjoint`), for any
  number of processes, any stream length, sizes and number of calls. The
  properties are not inductive: what a process will be given depends on where
  *another* process found the stream when it made that call. `ContextInv` adds that
  each call found the stream where the one before left it (`Chain`), that a process
  that made `k` calls stands where call `k` ended (`Positions`), and that arrays
  and refusals are those of the calls (`Holdings`, `Refusals`). The lemmas
  `SuppliableSizes` and `AdvanceSizes` say what the modular arithmetic comes to.
  All four actions are cases of two, `Granted` and `Refuse`. `StreamsDisjoint`
  assumes `~ MayExhaust` and adds `Ordered`: calls follow one another in the stream.
* `StreamProofs`, the refinement (`ContextImplements`): every step of `Context` is one of
  `SharedStream`, or changes nothing it speaks of. A call's first caller makes the
  abstract reservation, which is fresh because of `Ordered`; those who follow
  receive the one that was made, because of `Positions`. Also under `~ MayExhaust`.
* `StreamProofs`, of `SketchData`, for any classes, shapes, stream length and number of sketches.
  `StaysInStream` (`TypeOK`): no part of an object, created or reloaded, reaches past the end of the stream.
  `Reconstructed`: without WZT, two objects of one creation are of
  the same class and hold the same samples, at any remove of writing, destroying and
  reading, and under either spelling of their type. The invariant relates live
  objects *and* stored ptrees, as the original may be gone when its ptree is read.
  `SamplesServeOnce` (`Independent`): with classes all of whose parts move the context (`AllMove`:
  all but RFUT and FJLT, the two the finding is about), no sample is in two parts. `WalkMonotone` gives it within
  a sketch (a part begins where the one before it ends, for a layout of any length), and the order of creations between sketches.
* `InterfaceProofs`, of `ChunkedRead` and `ArcList`, for any number of processes and any file that ends in a newline and whose last share is not
  rounded down (`Exact`: the two exceptions are the finding and the remark on eleven processes above).
  `LinesWhole` and `NoLineLost` (`FullLines`, `AllRead`): the invariant says where the lines left to a process
  begin, after the first newline that is not in an earlier share (`Cut`), and that what a process tells its predecessor is
  how far that place is from the beginning of its share (`Bytes`), through any chain of shares without a newline.
  `LinesStayWhole` carries it over to `ReadArcList`, where processes read, exchange and
  insert at the same time. `InsertedWithin` (`TypeOK`): what is inserted is within the agreed size and at its owner.
  `MatrixOfFile` (`Assembled`): the parts are the matrix, by what is in the outboxes, under way and
  taken, and by counting entries, not positions, when weights are added up. `NoneInFlight` (`SendsLanded`): although `WaitAll`
  leaves out the last request of everyone, its receiver has to have taken it before it gets to the collective
  in `finalize`, which the sender must pass in order to return.
* `DenseApplyProofs`, for any grid, extents, pair of distributions, block size and factor.
  `EveryTermOnce` (`Sketched`): when the strategy chosen is done, every process
  has its part of the sketch, and each entry has each term of its sum once. The proof has four layers:
  `RealizedIsLocal`, that the shifts, strides and local lengths `realize_matrix_view` computes give
  exactly the indices of the window a process has in the distribution, neither fewer nor
  others (hence the entries of R meet the entries of A they belong with); `OneHolder`, that in every distribution
  an index is with exactly one of the processes a contraction adds up over; `ChosenSound`, that each of the 18 strategies can be chosen only with
  distributions of R and A that fit (`SoundPlan`); and the invariant `Inv`, in which an entry before the current panel and block
  is complete, and one that is added up has the terms of the panels that are done (`Made`).
  `StaysInMatrix` (`TypeOK`) and `FinishedStays` (`FinishedKept`, an action property) follow from the same invariant.
* `AsyRGSProofs`, for any number of threads and any matrix and right-hand side of integers. `ReportedTruly` (`ReportTrue`):
  -1 is returned only with an `X` that passes the convergence
  test and -6 only with one that fails it. The argument is that no
  thread is in a step outside a round (`Parked`), so the iterate does not change between
  the test and the return, and that a solver about to start another round has just
  failed the test (`Failed`). `SweepsLim > 0` is needed for the second half: without a
  round nothing is ever tested. `WellTyped` is `TypeOK`.
  `UpdatesArrive` (`NoneLost`): at any time the iterate is what it was at the
  beginning of the round, plus the corrections decided on, less those still to be added by
  the threads. That is a sum over the threads, which changes by what one of them adds: `Lemmas` has sums
  as ledgers, functions on the subsets of a finite set, and `SumIsLedger` says that `SumFunction` is one.
  `SolutionKept` (`FixedPoint`): as long as the iterate is a solution, what a thread has left of its right-hand
  side is the sum over the entries it has still to read, which is 0 when it has read them all,
  so every correction is 0 and the iterate remains a solution whoever overtakes whom.
* `HashApplyProofs`, for every pair of types `hash_transform_t` is specialized for (`Types`), any grid and sizes that fit it (`Fits`), any
  number and choice of hash functions and any entries of A. `ReadsAreOfExposedArrays` (`ReadsExposed`): no
  process reads a window that is not there yet or no longer. The invariant (`Lockstep`) bounds how far
  processes can be apart: whoever has left a collective call has seen all others in it, so nobody
  is more than one call ahead, and nobody frees a window while another reads.
  `SketchesAreRight` (`Sketched`): a process that has returned has its part of the sketch, each entry with
  every term any process owes it, once. The invariant `Inv` says of each process what it has after `s` calls (`Has`):
  in the window method the offsets of the segment it reads next and the terms of the first `Passes(s)`
  processes, in the vector method the columns done, at the end everything (`Right`); and of whoever
  has entered, what it has contributed (`Contribution`). `Sketched` alone is not inductive: what a process
  reads was put there by others, which may have gone on since. Under the invariant are
  facts about the data, for all sizes: every entry of A is with one process
  (`HeldApart`), so the terms two processes owe are never the same; the process `Owner` computes is the one
  that holds the place (`OwnerHolds`), though ranks are counted down the columns of the grid, VR distributions along its rows, and
  a CombBLAS block takes in what the division leaves over; the segment between two entries of
  `proc_start_idx` holds the cells of that process and no others (`Segments`, `CellsBetween`); `Compress`
  leaves one piece for each place met, with all its terms (`CompressLists`); and moving columns apart in place in the
  root's buffer never overwrites one that is still to be moved (`Strided`, `SpacedApart`). The theorem assumes `Roomy`:
  there is no padding, or at least a column of it, so that no column is copied onto itself, where `memcpy` is undefined.
  `TuplesAreDistinct` (`NoDuplicates`) and `WellTyped` (`TypeOK`) follow from the same invariant.
* `FeatureApplyProofs`, for any grid, sizes, number of vectors and samples, and every transform, pair of distributions and
  dimension. `SketchesAsDefined` (`Sketched`): a sketch that `apply` returns is, on every
  process its part, what the transform is defined to make of the vectors. The argument is that the matrices passed on
  are always the same vectors, spread by some distribution: transposing changes the
  dimension, redistributing the distribution, and a kernel on whole vectors what
  the vectors are. The invariant `Regular` says that of every call on the stack: it was given such a matrix (`Good`), each
  waits for the next with the way its own types prescribe (`Nest`), and what has come back to it is the sketch of its
  matrix (`Answered`). Under it are facts about the data: what `Elemental` deals out to a process is
  `rank + (l - 1) * stride` (`DealsPlaced`), and the kernels, written with local indices and offsets, compute of a vector what
  the definition does, the blocks of Fastfood included.
  The applications that call themselves for ever (`CallThemselves`) break `Regular`, as a stack of them
  has no bound and its matrices turn at every call; for them the invariant is
  another, `Endless`: nothing is ever returned, so `Sketched` needs no hypothesis. `WellTyped` (`TypeOK`) does: it bounds the depth of the calls, and assumes that
  `Left` includes them, as in the run.
* `ReadExamplesProofs`, for any file, number of processes, block size, limits and number of calls, whether sends are
  buffered or not. `NothingLeft` (`NoneLeft`): when all processes are between two calls, every
  message has been received, so that none is taken for one of the next call. It assumes that the calls of a session match
  (`Matched`) unless there is one process: no `STAR/STAR` or `CIRC/CIRC` matrices, no distributed `WriteLIBSVM`, no HDF5 shares for
  fewer examples than processes (these are in the list above), and no file read that others may
  still be writing; and that the memory `write_hdf5` leaves unset is zero (`Cleared`). TLC evaluates that hypothesis on the run's cases (`CasesMatched`). `NoneLeft` says nothing of a state in which
  somebody is in a call, and processes may be several calls apart, so the
  invariant (`IInv`) counts. Between the root and each other process there are lines of messages, one for each direction and
  tag (`Kinds`). How many messages of a line a process has sent or received is a function
  (`Total`) of the calls it has finished, the sizes of the files those read (`Load`), and where it is in
  the present one (`Part`); what is under way is the difference between the two ends (`Fine`). Processes do not know the
  sizes: they are what the root counted, so they are quantified existentially and fixed when the root
  counts, which nobody can have learnt before (`FirstToKnow`); the broadcast tells everyone the same (`Content`).
  Taking a message of one tag leaves the lines of the others as they were (`OtherTaken`), and the barriers, by
  the number each process has met, bound how far ahead another can be (`MetAre`, `NobodyAhead`).
  When all are between two calls both ends have the same total, and the difference is nothing (`AllTaken`).
* `InterfaceProofs`, of `CApi`, for any number of handles and objects. As long as LaplacianQRFT is not used, the classes that are pickled
  come back as they were written (`Regular`), only the library's exceptions are thrown, and addresses fit a C int (`Assumptions`), `SketchesOwned` (`Owned`): every sketch has one Python object
  of its class, no object holds a stale handle; and `NothingEndsTheProcess` (`Survives`): no call ends the process. `OwnedInv` is
  a bijection between live objects and live sketches (`Held`, `Kept`, `Alone`).
  `CallsDoAsAsked` (`DoneAsAsked`): if moreover the pairs of types in which C and Python are known to disagree are
  not used (`KnownMismatchesAvoided`, which names them: the list above), a call that succeeds has done what was asked. `HandlesWellTyped` (`ApiTypeOK`)
  needs neither hypothesis: it allows for handles without a tag, of sketches that were read back.

`Lemmas` holds what several of these need and the library does not have: that every nonempty set of
natural numbers has a least element, and induction up to a number over the *set* of those for which a fact
holds (`UpTo`). Induction principles that take a formula cannot be instantiated here; a set of
counterexamples and its least element say the same. Further sums as ledgers, division with
remainder, and lists that enumerate a set, each element once: what holds of `Append`, `\o`, `FlattenSeq`, `SetToSeq`.
And what `Elemental` deals out: each index to one process, counted without gaps, and places in a grid numbered one to one.

Only model-checked: liveness (`Returns`, six times), which rests on `ENABLED`;
`FreshDescends`, an inequality of quadratic forms; and of `ReadExamples` the types, as `TypeOK`
bounds the messages under way by what the run's cases can have there, and `Delivered` and `Unmixed`,
which are about what recursive functions make of the lines of a file.

## What is not modelled

* Numerical results: products, FFTs, factorizations, feature maps, rounding. Models
  speak of positions in a stream, of who holds which entry, and of exact arithmetic.
* In `ArcList`: the local-matrix overload, the VR/STAR layout, and the CSC arrays
  `finalize` builds (their content, the summed entries, is modelled).
* In `DenseApply`: matrices that are views (all alignments are 0, as with every caller in
  the repository), grids other than the default one, empty matrices, sparse inputs (a
  single call of the local product), and Elemental itself, whose redistributions are taken to
  give every process the entries its distribution says.
* In `HashApply`: sketches smaller than the grid, grids that are not square for CombBLAS matrices, and the samples
  drawn (`SketchData` has them).
* In `FeatureApply`: the FFT libraries, the arithmetic of the kernels, and processes that are out of step
  between two redistributions (nothing they do there depends on the others).
* In `ReadExamples`: number and token formats, exceptions of the HDF5 library (`write_hdf5`
  returns at the root alone), the buffer of the HDFS line streamer, reading and writing of
  model files, `skylark_convert2hdf5`.
* In `CApi`: least squares, SVD and kernels, contexts and matrices created through the C API, and
  programs that use sketches of several classes at once.
* In `AsyRGS`: the flexible CG around it (`AsyFCG`, `asy_precond_t`).
* MPI failures, crashes of a process, memory exhaustion other than in
  `generate_random_samples_array`: the code handles none of them.
* The components the table above says are not modelled: numerical iterations, thin wrappers, and, of those with
  control worth modelling, the collectives of a block ADMM round (`ml/BlockADMM.hpp:510`), the work list of the
  diffusion (`ml/graph/local_computations.hpp:196`) and the retry loop of the accelerated regression solver.

## Plan

In order of what they would add:

1. `BlockADMM`: the collectives of a training round over ranks with and without
   validation data, whose guard is local (`ml/BlockADMM.hpp:510`).
2. `Diffusion`: the work list of the time-dependent diffusion: flagged iff queued,
   every vertex over its bound is on it, it runs empty.
3. The retry loop of the accelerated regression solver, which draws a fresh sketch at
   each attempt; `AsyFCG`.

Theorems still worth proving: `Delivered` of `ReadExamples`, for which the counts of
`ReadExamplesProofs` would have to say which message is where in its line.
