# PoolPro in TLA+

This directory is a verification development for PoolPro, a header-only C++20
pool allocator (`src/include/PoolPro/`), and for the programs beside it: TLA+
modules translated from the code, TLC configurations that check them on small
instances, and theorems that TLAPS checks for every value of the constants. The
source of truth is the code; `PROJECT.json` names, for every definition, the
lines it stands for.

## 1. The system

| Component | State | Operations |
|---|---|---|
| **Pool, blocks** (`Pool.h`, `Pool.tpp`) | `freeList_`, `watermark_`, `freeBlockCount_`, `stats_`, and the first word of every block, where a freed block keeps the pointer to the next | `allocate`, `deallocate`, `allocateBatch`, `deallocateBatch`, `reset` |
| **Pool, objects** | none of its own; the activations of `create` and `destroy` on the stack | `create` (constructor may throw), `destroy` |
| **Pool, construction and moves** | `memory_`, `memoryEnd_`, `stride_`, `alignment_`, ... and the backing allocation behind them | constructor, destructor, move construction, move assignment |
| **Pool, geometry** | `stride_`, `memoryEnd_`, `strideIsPow2_`, `strideMask_` | argument checks, `alignForward`, `allocateStorage`, `owns` |
| **External locking** (`tests/.../external_locking.cpp`) | a `std::mutex` beside the pool | lock, one call, unlock |
| **Fuzz harness** (`fuzz/fuzz_pool.cpp`) | a shadow of the pool: stack of free indices, watermark, live blocks, counters | one per pool call, and `verify` |
| **Regression tools** (`regression/custom`, `regression/google`) | the folders under `benchmarks/baselines`, the live results, the two sides being compared, the two reports | `list`, `methods`, a comparison with no, one or two tags and perhaps a method or its id |
| **Test runner and example runner** (`tests/custom`, `examples`) | a registry filled before `main()`, one counter per category, the tally of checks | `list`, run everything, run a suite or a category; `RUN`, `CHK` |
| **Benchmark framework**, **release script**, build files | measured samples, package descriptions | sequential numeric or text code |

How they interact. Callers hold raw pointers and write to the blocks behind
them; the pool later loads its own list out of those bytes. `create` and
`destroy` call user code that may call the pool again. A move hands the backing
memory to another object while callers keep their pointers. `Pool` has no
synchronisation; whoever shares one puts a mutex around each call. The fuzz
harness predicts every pointer the pool will return. Benchmark runs write the
files the regression tools read, possibly while they read them; what one call of
a tool printed, the user types into the next.

What is hard, and what would be correct:

* *The list in the callers' memory.* Every block is virgin, on the list, or with
  a caller, and in one of the three only; the list ends.
* *Batches.* They drain the list, then take virgin blocks, and link in a local
  variable; skipped pointers must not show. A batch is short only when nothing
  is left, and never repeats a block.
* *Two accounts of the same thing.* `freeBlockCount_` and the statistics must
  agree with the list and the watermark after any mix of calls, also when a
  counter wraps.
* *`reset()`* leaves stale next pointers everywhere and must never follow them.
* *Callbacks and exceptions.* The block of a running constructor or destructor is
  nobody else's, and a throw leaves the callers with what they had.
* *Moves.* Backing memory has one owner, is deleted once, and blocks issued before
  a move are taken back after it.
* *Arithmetic.* Stride, size and end of memory at the limit of `std::size_t`.
* *Threads.* With the mutex every call is atomic and every thread finishes.
* *Files that change underneath.* A report shows what is stored in the files its
  columns name; an id means what was shown next to it; a failed run leaves the
  earlier reports.
* *Order of initialisation.* Suites register in an order the linker chooses; ids,
  selection and counts must not depend on it.

## 2. The modules

```
BlockPool            what a pool promises, no lists
   ^ implemented by
Pool  <--- EXTENDS --- PoolObjects      create / destroy / callbacks
  ^  ^                 PoolRefinement   Pool => BlockPool, Pool => ShadowPool
  |  |                 PoolCalls        Pool with counts of successful calls
  |  +--- implemented by --- PoolMove      several pools (MCPoolMove)
  +------ implemented by --- PoolLocking   threads and a mutex
ShadowPool           the fuzz harness's model; used by PoolRefinement
FuzzHarness          two pools and two shadows, the run loop (MCFuzzHarness)
PoolGeometry         arithmetic of construction and owns() (MCPoolGeometry)
Selection            the loop that copies what it wants of a vector; used by Regression, Suites,
                     FuzzHarness
Regression           the comparison tools and their files (MCRegression)
Suites               the test and example runners (MCSuites)

PoolProofs (Pool, PoolRefinement, PoolObjects)   SelectionTheorems (Selection)
           <- LockingProofs (PoolLocking)              <- RegressionProofs (Regression)
MoveProofs (PoolMove)                                  <- SuitesProofs (Suites)
                                                       <- FuzzProofs (FuzzHarness)
PoolGeometryProofs (PoolGeometry)
```

**Pool** is one constructed pool. A block is its index, a pointer is a block,
`Null` or a member of `Foreign` (all addresses `owns()` rejects). `mem[b]` is the
first word of block `b`: caller's data, `FreeNode::next`, or garbage, exactly as in
the code. `held` and `ret` are not in the code: what callers have, and what the
last call returned. The helpers `AcquireBlock`, `ReleaseBlock`, `StatAlloc`, ...
and the actions `Allocate`, `Deallocate`, `AllocateBatch`, `DeallocateBatch`,
`Reset` carry the code's names. A loop of the code is described by its result:
`Drained` says what following the links from the head yields, `HeadBefore` is the
local `head` at each position of the span. Both are compared with an independent
account, the stack of ShadowPool. `CallerWrite` lets a caller put anything
into a block it holds, pointers to other blocks included. Callers are bound to
return only what they hold, each block once; null and foreign pointers may
appear anywhere. The memory's initial content is arbitrary.

**BlockPool** is the contract written from the public comments: a set of blocks
in use, no lists. **ShadowPool** is `struct Shadow` of the fuzz harness with the
harness's predictions as actions. **PoolRefinement** states that each call of Pool
is a call of both: for BlockPool it issues free blocks, as many as there are, and
takes back what it is given; for the shadow, whose stack it reads off the chain of
next pointers, it returns the same pointers in the same order, with the same
statistics and the same bytes in live blocks. The shadow admits any order of the
blocks in a returned span; `ReturnsPileUpInOrder` says that it is the span's own.

**FuzzHarness** has the two harnesses of `run()`, each a pool and its shadow, and one
disjunct of `OneOperation` per `case` of the loop. An operation is an operator on
the harness's state, as the member function is, so that `fill`, `reset` or
`rejectForeign` compose the same parts as in the code; `ok` records a failed
`FUZZ_CHECK`, and the process then aborts. Loops whose turns depend on one another are
recursive functions of the number of turns (`upTo`); those whose turns do not, like the destruction of all
objects, are written as what they come to. Of `verify()`, the stride and alignment getters
and the statistics are left out: a pool is its number of blocks here, PoolMove moves `stride_` and
`alignment_`, and PoolRefinement compares the statistics. It asks the question a fuzzer
is rarely asked: can its own checks fire when the pool is right?

**PoolObjects** splits `create` and `destroy` at the user's constructor or
destructor. `calls` is the stack of running ones; while one runs, every other call
may be made, up to `MaxDepth` deep. `held` of Pool is the union of raw blocks,
objects and blocks under a callback, so the module must show that it never
returns a block that is not held: `UsePoolAsCallers`.

**PoolMove** has several `Pool` objects as records with all fields, and the
addresses of backing allocations, which come back after they were deleted.
`EmptyPool` and `MovedFrom` are what `std::exchange` leaves. Single calls and
`reset` are there on every pool, empty ones included; batch calls are not, since
they touch no other field. Callers' stores into their blocks are left to Pool; here the
memory holds links only.

**PoolLocking** takes `allocate`, `deallocate` and `allocateBatch` apart into steps of
at most one store to the shared fields, together with the load just before it
(`freeList_ = freeList_->next` is one step), and interleaves threads between them,
with the mutex of the tests. `settled` is the pool as the last finished call left it.

**PoolGeometry** runs the constructor for all arguments of a `W`-bit `std::size_t`
and asks `owns()` about every address. `AP_PRE` aborts, as it does
without `NDEBUG`. The members are initialised in the order in which `Pool.h` declares them, one phase
each (`Following`): `stride_` before `memoryEnd_`, which is computed from it, and so on; C++ goes by that
order whatever the initialiser list says, and `GarbageNeverReachesNew` depends on it. C++'s `&` is written as a recursive function from the lowest bit up,
because nothing can be proved about the library's; **MCPoolGeometry** has TLC compare
the two on every pair of numbers of the run.

**PoolCalls** counts the successful calls beside Pool, for the comments on `totalAllocated_` and
`deallocations_`.

**Regression** is both comparison tools; `tool` says which one runs. They are copies
of each other that differ in what identifies an entry (operation and number of
iterations, or the name alone) and in which folders count as baselines. A run is
the phases of `main()`, one action each: `Call` reads the command line (up to two
tags, then the words of a method), `LatestBaseline` picks the newest folder when
no tag was given, in whatever order the directory is read, `ResolveMethodId` reads
a file to turn `A2` into a name, `LoadBaseline` and `LoadCurrent` read the two sides,
then come the filter, the rows and the two exports. `PrintList` and `PrintMethods`
are the listings, whose output (`listed`, `screen`) the user carries into the next
call. Between any two phases `RewriteLive` may replace the live results, or leave
them cut short, and `AddBaseline` may add a folder. `pc = "failed"` is an exit with
an error, the exception of a missing `benchmarks/baselines` included (`ScanMayFail`); a report that cannot be
opened is skipped without one, as in the code. `seen`, beside the files in `inputs`, is not in the code: it
keeps every reading the live results ever had, so that a report can be compared with the one it was made of.
A word of the command line or a folder's name is a record that has what the tools
look at: whether it begins with `v`, the rank of its numbers, whether something
follows them.

**Suites** is both runners. `Registrar` is the static initialiser of a suite's file;
the files come in any order, which `category_counters()` must make up for. `main()`
is the argument's interpretation (`PrintUsage`, `PrintSuiteList`, `PrintAllSuites`,
`BeginScan` and the steps of the scan); the tests' scan runs a category's suites as it
meets them, the examples' collects them. `BeginRun`, `Chk`, `EndRun` and `RunThrows`
are the macros: a suite is any sequence of tests, and a test any sequence of checks
that hold or do not, ended by its last statement or by an exception. An exception a suite throws
outside its tests ends the program (`SuiteThrows`). Much of the two runners is the same code twice; the map
then names the lines of one of them.

## 3. The runs

| Run | Module, configuration | Instance | What it shows |
|---|---|---|---|
| `pool` | PoolRefinement | 3 blocks, spans to 3, one foreign pointer, counters mod 4, statistics; callers store pointers and null | partition of the blocks and the list, counts, statistics; issue, write and shortness properties; Pool implements BlockPool and ShadowPool; a returned span piles up in its own order |
| `objects` | PoolObjects | 3 blocks, depth 2 | callbacks and exceptions lose no block and share none |
| `move` | MCPoolMove | 3 objects, 2 arenas, 2 configurations, 2 blocks | one owner, one deletion; moves are invisible to holders of blocks |
| `locking` | PoolLocking | 2 threads, 3 calls each, batches of 2, 2 blocks | atomicity, no lost counter update, all threads finish |
| `geometry` | MCPoolGeometry | W = 6, pointer of 4 bytes, all arguments and addresses | bounds and blocks right as long as the stride is not 0, `owns()` exact; members are initialised in an order that lets no unchecked product reach `new` |
| `fuzz` | MCFuzzHarness | 2 harnesses, pools of 1 or 2 blocks, 3 arenas, two tags | no false alarm; nothing lost across moves, resets and replacements |
| `regression` | MCRegression | 3 methods, 2 contents of a results file, up to 3 tagged folders, 2 calls of a tool, 1 change of the files | reports are true to the files, and one of live results is of a single finished reading of them; ids mean what was shown; filtering changes no row; the newest baseline is the one listed last; failures leave the reports |
| `suites` | MCSuites | 4 files for each runner, 3 tests, 3 checks | ids are distinct in any order of registration; what runs is what was asked for; every category is listed once; the tally is true |
| `geometry_wrap` | PoolGeometry, PoolGeometryWrap.cfg | as `geometry` | **violated**: a stride that wraps to 0 is accepted |
| `calls_counted` | PoolCalls | 3 blocks | **violated**: `totalAllocated_` and `deallocations_` count blocks, not calls |
| `regression_missing` | MCRegression, MCRegressionMissing.cfg | one call | **violated**: a benchmark without a current time counts as won |
| `suites_exit` | MCSuites, MCSuitesExit.cfg | as `suites` | **violated**: `main()` returns 0 after failed checks |

*Why the bounds are enough.* Three blocks are the least for a list with a head, a
middle and an end beside a virgin or a held block; spans of three drain some,
bump some, and come back short, and hold a null or foreign pointer between two
blocks. `SizeMod = 4` is the smallest width above the
number of blocks, so that every counter wraps. Nothing else of the pool is cut
off: the state spaces are finite and explored to the end. Depth 2 is a callback
inside a callback; the theorems lift it. Two arenas and three objects allow a move
between two living pools beside a moved-from one, and a pool built on an address
another had. Two threads race on every pair of accesses; the theorems lift it.
Six bits give every relation between size, alignment, count and the
limit, since the arithmetic compares only these. The pool's geometry does not enter Pool,
where blocks are indices: `OwnsIsExact` and `BlocksAreApart` justify that. Three
arenas of the fuzz harness are two pools' and the one a replacement is built in
before the old is released. The comparison tools need two calls, because the second
one uses what the first showed, and one change of the files, which may fall between
any two phases; the two contents of a file differ in a method that is missing, a tier
that is missing, a time of zero and a time within the noise, and one of the folders
is not a version, has something behind its numbers, or holds no file of the tool.
Two files of one category suffice for an id of 2 and for a category that the order
of registration tears apart; three checks are a test with a passed and a failed check
followed by another test.

*Deadlock* is checked where the program goes on for ever (Pool, PoolObjects,
PoolMove, PoolGeometry, PoolCalls). PoolLocking stops when all threads are joined
(`AllJoin` says that it stops nowhere else); FuzzHarness where the input ends; Regression after `MaxRuns` calls; Suites when
`main()` has returned.

*Fairness* is assumed only in PoolLocking: weak fairness of each thread's steps,
that is, a thread that stays able to run is scheduled. Nothing is assumed about
the order in which the mutex admits those who wait; since calls are finite in
number, none waits for ever. The pool itself has no loop that waits, and the tools are
straight lines of phases, so liveness asks for nothing else.

## 4. What is proved

The proofs about Pool hold for every `BlockCount > 0`, `MaxBatch`, counter width above
`BlockCount`, set of foreign pointers and of data words (`PoolAssumption`).

*The inductive invariant of Pool* is `IInv == TypeOK /\ FreeListOK /\ CountsOK`.
`TypeOK` alone is not inductive: `freeList' = mem[freeList]` may be any caller's
word unless the list is known to hold freed blocks only. `FreeListOK` states the
list by an injective numbering of the freed blocks from the list's end, so that
no recursion is needed; `CountsOK` is needed for the counter to stay at or above zero.
**PoolProofs** begins with the facts on such chains: push, pop, the effect of draining
`k` blocks, of linking a span, and the frame lemma that a store outside the
list leaves it alone (`CallerWrite`). It shows `IInv` inductive, with
one lemma per operation, and concludes `TypeCorrect`, `FreeListCorrect` and
`CountsCorrect`; then it derives the three action properties.
It strengthens it by "peak = watermark" and the balance modulo the
counters' width; the point of the first is that the watermark moves only when
nothing is on the list, so that the number in use equals the watermark then.
For PoolObjects it adds that raw blocks, objects and callbacks' blocks are apart and
make up `held` (`OInv`), and proves that PoolObjects implements Pool
(`ObjectsArePoolCallers`), that callbacks' blocks are private, and that none is
lost, at any depth of nesting. `ThrowCorrect` needs one fact more (`Fresh`): the block a
`create` acquired was not among those callers held when it began, which is
IssuedBlocksWereFree of the step that pushed the call.

*Moves.* **MoveProofs** holds for every set of pools, addresses and configurations and every
number of blocks. Its invariant `MInv` adds to `ArenaHasOneOwner` that an object without memory
is in the state `std::exchange` leaves (`FieldsOK`), that one with memory ends where its
memory does and has its free list in it, that a link never leaves the memory it is stored in
(`LinksOK`; without it a pool could issue a block of another one), and that what callers hold lies in memory that is
allocated. Self-assignment is where the ownership is delicate: the target's allocation goes exactly when no
one else names it, and the guard is what keeps the two apart. It gives
`OwnerCorrect`, `HeldCorrect` and `EmptyCorrect`. `MovesCorrect` is the refinement: for any one
backing allocation (`Watched`), its fields seen through the object that has it now are
a pool of module Pool. One owner at a time makes "the object that has it" well defined
(`OwnerFields`); a move passes the fields on unchanged (`FieldsPassOn`), a call on another
object or a rejected pointer is a call that ignores its argument (`QuietStep`), and the deletion of
the memory is a `reset()` (`ResetStep`), since no one may use its blocks afterwards.

*Locking.* **LockingProofs** holds for any number of threads, calls per thread, blocks and any
length of a batch. `LInv` says that the thread inside a call is the one that has the
mutex (`Exclusive`), that threads hold different blocks (`Apart`), and, for each access a
thread may be about to perform, how the fields now differ from `settled`, the pool as
the last finished call left it (`Stage`): the popped head, the linked block, the part of
the list drained so far. When the thread unlocks, these add up to one call of Pool on
`settled` (`UnlockIsCall`); every other step leaves `settled` alone. The invariant is
inductive only together with Pool's `IInv` of `settled`, which comes from PoolProofs by
instantiation: that a popped or drained block is with nobody else is a fact about
the list. `CallsCorrect` is the refinement of Pool, `CountsCorrect` the absence of lost updates.

*The two refinements of Pool.* **PoolProofs** also concludes that Pool implements BlockPool
(`PromiseKept`): under `IInv` the blocks that are not held are those on the list and those above
the watermark, so that a drained list and a take bounded by the last block hand out the lesser
of the number asked for and the number there is. For `ShadowCorrect` the chain of next pointers
must be a stack. `Visited` follows it from the head, and in a state of `IInv` it meets
the freed blocks in the order of their numbering, each once, and then `Null` (one induction
along the list). So `FreeStack` is a well-defined sequence without repetitions, pushing a block appends to
it, and draining `k` blocks takes its last `k` in reverse. The batch's local head
is followed along the span in the same way, which gives `PileUpCorrect`. `ShadowCorrect` has the hypothesis
`EnableStats`: the shadow counts always, and the harness compares its counters only with those of a
`Pool<true>` (`fuzz_pool.cpp:494`); a `Pool<false>` has none. The run has it too.

*Geometry.* **PoolGeometryProofs** holds for every width `W` and every size of a link. `And` is what a
shift and two remainders say (`AndStep`), and by induction along the shift: `x & (2^k - 1)` is the
remainder by `2^k`, `x & ~(2^k - 1)` is what is left without it, and `x & (x - 1)` is zero for powers of two
and zero only (`PowerTest`). With these `alignForward()` is the least multiple of the alignment at or above the block size unless the sum
wrapped, in which case the stride is 0 (`StrideFacts`); the division in `allocateStorage()` bounds the true product;
and mask and remainder test the same thing. `GeometryInv` says which of these facts hold in which phase.
`NothingWrappedCorrect`, `BlocksApartCorrect`, `OwnsCorrect` and `GarbageCorrect` follow. The stride of 0 is what
they except, and `geometry_wrap` shows.

*The comparison tools.* **RegressionProofs** holds for every set of tools, folders, results files and
command lines and any number of calls and changes. It assumes that a folder's name is a word and
the folders at first are finitely many, that what they hold are results files (`FoldersAssumption`), that
files and command lines are sequences (`SequencesAssumption`), and that no results file has two entries
for one benchmark (`UniqueEntries`); the benchmark programs write one row per
benchmark, and with two `getCns()` would show the first one's time for both. The core of the invariant `RInv` is that a folder, once
there, is never changed (`FoldersGrow`): whatever was loaded from one, shown of one or reported on one
stays what is stored in it, while the live results may be rewritten at any moment. `LoadedOK`, `ReportOK`, `IdsOK`
and `ListedOK` state this for the loaded sides, the report, the method ids and the listing, `SidesOK` that
the sides were there when they were loaded, `RunsOK` which run has written what, and `ReadingOK`
that the loaded live results, and the report made of them, are one finished reading among those there have
been. On this rest: that
the search of `getCns()` finds in a filtered file the same time as in the whole (`TimeIsStored`, `NoTimeIsStored`),
that filtering and comparing commute (`SelectedImage`), that `Newer` orders the tags linearly and every
finite set of them can be sorted (`SortedExists`), and that the loop of `latestBaseline()` ends with the newest in
whatever order it meets them (`NewestIsFound`). Results: `ReportCorrect`, `FilteredCorrect`,
`IdsCorrect`, `FailureCorrect`, `LatestCorrect`. **Selection** is the copying loop as a recursive function of the
set of what is wanted, since SelectSeq takes an operator and no lemma about it could be cited;
**SelectionTheorems** says what it yields.

*The runners.* **SuitesProofs** holds for every tree of files, argument and number of tests and checks,
and for every order of the static initialisers. It assumes of the tree what holds of the two there
are (`SuiteTree`): categories are single words with different first letters, no two files of a tool have names
shown alike, none is shown like a category, an id or a command, and a category's files are linked one after the
other; and that different numbers are written differently (`NumeralAssumption`). `SInv` has five parts. `RegistryOK`
traces every entry to a file, `IdsOK` every id to a number its category's counter has passed, which
is why the order of registration does not matter; `PhaseOK` says that nothing runs before all are
registered. `RunOK` compares what has run and what is still to run with the selection that the argument
means, up to the point the scan has reached: the tests run a category's suites in the middle of the scan, the
examples after it, and the same formula covers both. It needs `AskedFor`: the scan's comparisons recognise what is
asked for, and an exact match is the only suite asked for, so that leaving the scan there loses nothing.
`TallyOK` counts the crosses against the failures before the running test. `GroupedLists` is an induction along
the registry: because a category that has ended does not come again, comparing with the last heading is
enough. Results: `IdsDistinctCorrect`, `RunsCorrect`, `ListedOnceCorrect`, `TallyCorrect`.

*Induction.* The library's induction theorems cannot be used here, and the proofs do without: what is to hold
for all `n` is refuted at its least counterexample (`LeastNatural`), and a recursive function is shown to
satisfy its equation by gluing its finite approximations (`VisitedDef`, `TwoToDef`, `AndDef`). SelectionTheorems
has both once for all, with the induction's predicate given as a set (`SetInduction`, `RangeInduction`) and the
recursion's step as a function (`RangeRecursion`).

*The fuzz harness.* **FuzzProofs** holds for all arenas, block counts above zero, lengths of a batch and numbers of
tags (`FuzzAssumption`; the null pointer and `gForeignWord` are no arena's). `Agree(p, s, m, X)` says that pool `p` and
shadow `s` agree over memory `m` while the blocks `X` are on their way: the same counts; the base, once learned,
is the pool's arena; every block issued so far is free, live or in `X`, in one of them only; the pool's links spell the
shadow's stack; and each live block is as its holder filled it. `X` is there because pool and shadow move
at different times within an operation, and are compared in between. Four moves keep the agreement: a block is
issued (`Issue`), goes back on the list (`Release`), is filled by its new holder (`Hold`), or is given up by it
(`GiveUp`). Every operation is composed of them: `AllocateBatch` is shown to be as many single
calls (`BatchIsCalls`), since the pool hands out the whole span before the shadow looks at the first pointer and
the holders' stores must not have reached a free block; a returned batch, foreign pointers between its blocks, is a
sequence of releases (`BatchIsBacks`); `create()` with a throwing constructor issues and releases the same
block. The outcome of each is `Sound`: no check has failed, the pool has kept its arena, no cell of
another arena has changed, and as many objects were made as there are more in the shadow. `Together` is the inductive
invariant of the loop (`IInv`): both harnesses agree, each allocated arena is one pool's, and the objects alive are those
in the two shadows. What is sound for one harness leaves the other alone (`OneChanges`), because no two pools
share an arena; moves and replacements are treated apart (`MovedOver`, `Replaced`), for the target's
objects must be gone before its arena is. The invariant was checked by TLC on the instance of `fuzz` before it was proved. Results:
`NoneFires`, `BothPass`, `ProbesCounted`, `BaseFollowsArena` and `ArenasHeld`.

*Model-checked only.* Liveness (`AllJoin`) is outside the prover. All other properties of the passing runs are
theorems.

## 5. Findings

* `geometry_wrap`: `alignForward()` (`Pool.tpp:282`) wraps for a `blockSize` within
  `alignment - 1` of the largest `std::size_t`, the stride is 0, and the overflow
  check (`Pool.tpp:298`) excuses a stride of 0. The constructor then builds a
  pool whose blocks have no bytes, against `Pool.h:107-108`.
* `calls_counted`: the comments on `totalAllocated_` (`Pool.h:53-54`) and on `deallocations_`
  (`Pool.h:58-59`) say calls; a batch adds the number of its blocks to either (`Pool.tpp:347`, `356`).
  These are two disagreements. The property says that one statistic at least counts calls, so that the one trace
  has to show both: a batch of two is issued, and returned in one call. `StatsBalance` of the
  run `pool` is about what the code counts: blocks issued less blocks returned are the blocks in use.
* `regression_missing`: `getCns()` returns 0 for a benchmark the current results lack,
  and the division at `helpers.h:634` is guarded against a baseline of zero only. The change
  is +infinity and the row counts as won by the current side, against
  `framework.h:58-59`.
* `suites_exit`: the tests' `main()` returns 0 whatever failed (`test_main.cpp:11`), and CTest
  looks at nothing else, against `tests/custom/README.md:114-116`.

One more disagreement shows in a single step of the model (`ExportJson`) and has no run: `exportJson()` and `exportMarkdown()`
return silently when their file cannot be opened (`export.h:18-21`, `52-54`) and the tool exits with 0, so
that the two reports may be of different runs, where `regression/custom/README.md:103-105` says that
every run writes both.

Three divergences were met that are only about wording, and no run is spent on them:
`examples/.../basic_usage.cpp:46-47` says that a released block is linked "without touching its
contents", where `releaseBlock` stores the next pointer into its first word (`Pool.tpp:328-329`);
`README.md:315-317` describes regression reports with names of their own, where `regression_main.cpp:189-190`
always writes the same two; the README of the custom tool names another results
directory than `export.h:12`.

## 6. What is not modelled

* `reset()` inside a running constructor or destructor, double release, use
  after return: misuse of the interface. The code promises nothing there. The
  assertion in `releaseBlock` cannot fire for callers that keep the rules, by `FreeListOK`.
* `create()` of a type larger, or aligned more strictly, than a block: `AP_PRE` aborts before any
  state changes (`Pool.tpp:182-183`). PoolObjects has objects that fit.
* A static initialiser of a suite that runs out of memory: the program ends before `main()`.
* An alignment below that of a pointer: the misaligned store of a `FreeNode`.
* The rest of a block's bytes behind its first word, prefetching, `noexcept`.
* Of the external-locking tests, the counters and flags they keep to report with;
  `pool_per_thread.cpp` shares nothing.
* Of the regression tools, colours, column widths, the environment's metadata and the
  JSON syntax; units of time, of which the project writes one.
* Of the runners, the bodies of the suites: fixed calls on a pool, instances of
  what the other modules check for all calls.
* The benchmark framework: loops around a clock, calibration and statistics over
  measured times, with no protocol and no state that outlives a measurement.
* The release script: text substitutions in a row. The workflow runs it on a fresh
  checkout and commits only if it succeeded.
* CI, packaging, build files, documents.

## 7. What could come next

1. The harness's statistics together with its moves: ShadowPool has the statistics and one pool, FuzzHarness two pools
   and no statistics.
2. The benchmark framework's calibration loop, should it come to decide anything.
