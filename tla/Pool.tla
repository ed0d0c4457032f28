---------------------------------- MODULE Pool ----------------------------------
(***************************************************************************)
(* One constructed PoolPro::Pool (src/include/PoolPro/Pool.tpp): the       *)
(* intrusive free list, the watermark over virgin blocks, the free-block   *)
(* counter and the optional statistics, with one action per public         *)
(* operation that changes them.                                            *)
(*                                                                         *)
(* A block is named by its index, a pointer is a block, Null, or a member  *)
(* of Foreign (any address owns() rejects: outside the arena or inside a   *)
(* block; PoolGeometry is about that test).  mem[b] is the first word of   *)
(* block b: a FreeNode::next while b is on the free list, the caller's     *)
(* bytes while b is allocated, and whatever operator new left there while  *)
(* b is virgin.  Calls are atomic, as a single thread or an external lock  *)
(* makes them.                                                             *)
(***************************************************************************)
EXTENDS Integers, FiniteSets, FiniteSetsExt, Sequences

CONSTANTS
  BlockCount,    \* blockCount_: number of blocks
  Null,          \* nullptr
  Foreign,       \* pointers this pool does not own
  Data,          \* words a caller may store that are not pointers into the pool
  MaxBatch,      \* longest span passed to allocateBatch / deallocateBatch
  SizeMod,       \* 2^w for the w bits of std::size_t: the counters wrap there
  EnableStats    \* the template parameter

Blocks   == 0 .. BlockCount - 1
Pointers == Blocks \cup {Null} \cup Foreign
Words    == Blocks \cup {Null} \cup Data

ASSUME PoolAssumption ==
  /\ BlockCount \in Nat \ {0}
  /\ MaxBatch \in Nat
  /\ SizeMod \in Nat /\ BlockCount < SizeMod
  /\ EnableStats \in BOOLEAN
  /\ Null \notin Blocks
  /\ Null \notin Foreign
  /\ Foreign \cap Blocks = {}

VARIABLES
  mem,             \* first word of every block
  freeList,        \* freeList_
  watermark,       \* watermark_
  freeBlockCount,  \* freeBlockCount_
  stats,           \* stats_
  held,            \* the blocks callers own: issued and not yet given back
  ret              \* the pointers the last call handed out, in order

arena == <<mem, freeList, watermark, freeBlockCount>>
vars  == <<mem, freeList, watermark, freeBlockCount, stats, held, ret>>

ZeroStats == [totalAllocated |-> 0, peakUsed |-> 0, allocations |-> 0, deallocations |-> 0]

---------------------------------------------------------------------------
(* The pool's helpers.                                                     *)

\* Mutated form: only nullptr is told apart.
OwnsAnyPointer(p) == p # Null

Owns(p) == p \in Blocks

\* Mutated form: read before the block is acquired.
UsedBlocksBeforehand(free) == BlockCount - freeBlockCount

UsedBlocks(free) == BlockCount - free

Plus(x, n) == (x + n) % SizeMod

StatAlloc(usedNow, count) ==
  stats' = IF EnableStats
             THEN [totalAllocated |-> Plus(stats.totalAllocated, count),
                   allocations    |-> Plus(stats.allocations, count),
                   peakUsed       |-> IF usedNow > stats.peakUsed THEN usedNow ELSE stats.peakUsed,
                   deallocations  |-> stats.deallocations]
             ELSE stats

StatDealloc(count) ==
  stats' = IF EnableStats
             THEN [stats EXCEPT !.deallocations = Plus(stats.deallocations, count)]
             ELSE stats

\* The free list is popped before virgin memory is touched; the popped block
\* is read but not written, the virgin one neither read nor written.
PopFreeList(b) ==
  /\ freeList # Null
  /\ b = freeList
  /\ freeList' = mem[freeList]
  /\ UNCHANGED watermark

BumpWatermark(b) ==
  /\ freeList = Null
  /\ watermark < BlockCount
  /\ b = watermark
  /\ watermark' = watermark + 1
  /\ UNCHANGED freeList

\* Mutated form: the next pointer of the block that is handed out is cleared,
\* on the virgin path too.
AcquireBlockClearing(b) ==
  /\ PopFreeList(b) \/ BumpWatermark(b)
  /\ freeBlockCount' = freeBlockCount - 1
  /\ mem' = [mem EXCEPT ![b] = Null]

AcquireBlock(b) ==
  /\ PopFreeList(b) \/ BumpWatermark(b)
  /\ freeBlockCount' = freeBlockCount - 1
  /\ UNCHANGED mem

Exhausted == freeList = Null /\ watermark >= BlockCount

\* Mutated form: the counter is not moved.
ReleaseBlockUncounted(p) ==
  /\ mem' = [mem EXCEPT ![p] = freeList]
  /\ freeList' = p
  /\ UNCHANGED <<watermark, freeBlockCount>>

ReleaseBlock(p) ==
  /\ mem' = [mem EXCEPT ![p] = freeList]
  /\ freeList' = p
  /\ freeBlockCount' = freeBlockCount + 1
  /\ UNCHANGED watermark

\* Mutated form: the watermark restarts, the old free list stays.
InitializeFreeListStale ==
  /\ watermark' = 0
  /\ freeBlockCount' = BlockCount
  /\ UNCHANGED <<mem, freeList>>

InitializeFreeList ==
  /\ freeList' = Null
  /\ watermark' = 0
  /\ freeBlockCount' = BlockCount
  /\ UNCHANGED mem

---------------------------------------------------------------------------
(* allocate() and deallocate().                                            *)

Allocate ==
  \/ \E b \in Blocks :
       /\ AcquireBlock(b)
       /\ StatAlloc(UsedBlocks(freeBlockCount'), 1)
       /\ held' = held \cup {b}
       /\ ret' = <<b>>
  \/ /\ Exhausted
     /\ ret' = <<>>
     /\ UNCHANGED <<arena, stats, held>>

DeallocateOwned(p) ==
  /\ Owns(p)
  /\ ReleaseBlock(p)
  /\ StatDealloc(1)
  /\ held' = held \ {p}
  /\ ret' = <<>>

DeallocateForeign(p) ==
  /\ p = Null \/ ~Owns(p)
  /\ ret' = <<>>
  /\ UNCHANGED <<arena, stats, held>>

Deallocate(p) == DeallocateOwned(p) \/ DeallocateForeign(p)

---------------------------------------------------------------------------
(* allocateBatch().  Draining follows the next pointers from the head and  *)
(* stops at the span's end or at the list's; the rest is bump-allocated.   *)

Drained(out, rest, requested) ==
  /\ \A i \in DOMAIN out : out[i] = IF i = 1 THEN freeList ELSE mem[out[i-1]]
  /\ rest = IF out = <<>> THEN freeList ELSE mem[out[Len(out)]]
  /\ Len(out) = requested \/ rest = Null

\* Mutated form: nothing is bump-allocated once the free list gave something.
TakeVirginWhenNothingDrained(count, requested) ==
  IF count > 0 THEN 0
  ELSE IF requested < BlockCount - watermark THEN requested ELSE BlockCount - watermark

TakeVirgin(count, requested) ==
  IF requested - count < BlockCount - watermark THEN requested - count
                                                ELSE BlockCount - watermark

AllocateBatch(requested) ==
  \E k \in 0 .. requested :
  \E out \in [1 .. k -> Blocks], rest \in Blocks \cup {Null} :
    LET take  == TakeVirgin(k, requested)
        count == k + take
    IN  /\ Drained(out, rest, requested)
        /\ ret' = [i \in 1 .. count |-> IF i <= k THEN out[i] ELSE watermark + (i - k - 1)]
        /\ freeList' = rest
        /\ watermark' = watermark + take
        /\ freeBlockCount' = freeBlockCount - count
        /\ IF count > 0 THEN StatAlloc(UsedBlocks(freeBlockCount'), count)
                        ELSE UNCHANGED stats
        /\ held' = held \cup Range(ret')
        /\ UNCHANGED mem

---------------------------------------------------------------------------
(* deallocateBatch().  OwnedAt are the positions of the span the loop does *)
(* not skip, HeadBefore(ptrs, i) is the loop's local `head` before it      *)
(* reaches position i.                                                     *)

OwnedAt(ptrs) == {i \in DOMAIN ptrs : ptrs[i] # Null /\ Owns(ptrs[i])}

Released(ptrs) == Cardinality(OwnedAt(ptrs))

\* Mutated form: every node is linked to the list's old head.
HeadBeforeStale(ptrs, i) ==
  IF i <= Len(ptrs) \/ OwnedAt(ptrs) = {} THEN freeList ELSE ptrs[Max(OwnedAt(ptrs))]

\* Mutated form: the first pointer of the span ends up as the head.
HeadBeforeReversed(ptrs, i) ==
  LET later == {j \in OwnedAt(ptrs) : i > Len(ptrs) \/ j > i}
  IN  IF later = {} THEN freeList ELSE ptrs[Min(later)]

HeadBefore(ptrs, i) ==
  LET earlier == {j \in OwnedAt(ptrs) : j < i}
  IN  IF earlier = {} THEN freeList ELSE ptrs[Max(earlier)]

DeallocateBatch(ptrs) ==
  LET last(b) == Max({i \in OwnedAt(ptrs) : ptrs[i] = b})
  IN  /\ mem' = [b \in Blocks |-> IF \E i \in OwnedAt(ptrs) : ptrs[i] = b
                                    THEN HeadBefore(ptrs, last(b)) ELSE mem[b]]
      /\ freeList' = HeadBefore(ptrs, Len(ptrs) + 1)
      /\ freeBlockCount' = freeBlockCount + Released(ptrs)
      /\ IF Released(ptrs) > 0 THEN StatDealloc(Released(ptrs)) ELSE UNCHANGED stats
      /\ held' = held \ Range(ptrs)
      /\ ret' = <<>>
      /\ UNCHANGED watermark

---------------------------------------------------------------------------

\* Mutated form: the statistics survive.
ResetKeepingStats ==
  /\ InitializeFreeList
  /\ held' = {}
  /\ ret' = <<>>
  /\ UNCHANGED stats

Reset ==
  /\ InitializeFreeList
  /\ stats' = IF EnableStats THEN ZeroStats ELSE stats
  /\ held' = {}
  /\ ret' = <<>>

(* A caller stores into a block it holds.                                  *)
CallerWrite(b, w) ==
  /\ b \in held
  /\ mem' = [mem EXCEPT ![b] = w]
  /\ ret' = <<>>
  /\ UNCHANGED <<freeList, watermark, freeBlockCount, stats, held>>

---------------------------------------------------------------------------
(* Callers give back only blocks they hold, each once; Null and foreign    *)
(* pointers they may pass as they like.                                    *)

ReturnSpans ==
  {ptrs \in UNION {[1 .. n -> held \cup {Null} \cup Foreign] : n \in 0 .. MaxBatch} :
     \A i, j \in DOMAIN ptrs : i # j /\ ptrs[i] = ptrs[j] => ptrs[i] \notin held}

Init ==
  /\ mem \in [Blocks -> Words]
  /\ freeList = Null
  /\ watermark = 0
  /\ freeBlockCount = BlockCount
  /\ stats = ZeroStats
  /\ held = {}
  /\ ret = <<>>

Next ==
  \/ Allocate
  \/ \E p \in held \cup {Null} \cup Foreign : Deallocate(p)
  \/ \E n \in 0 .. MaxBatch : AllocateBatch(n)
  \/ \E ptrs \in ReturnSpans : DeallocateBatch(ptrs)
  \/ Reset
  \/ \E b \in held, w \in Words : CallerWrite(b, w)

Spec == Init /\ [][Next]_vars

---------------------------------------------------------------------------
(* Properties.                                                             *)

\* Type correctness.  That freeList and the counter stay in range is not a
\* matter of shape: freeList is loaded from memory callers write to.
TypeOK ==
  /\ mem \in [Blocks -> Words]
  /\ freeList \in Blocks \cup {Null}
  /\ watermark \in 0 .. BlockCount
  /\ freeBlockCount \in 0 .. BlockCount
  /\ stats \in [totalAllocated : 0 .. SizeMod - 1, peakUsed : 0 .. BlockCount,
                allocations : 0 .. SizeMod - 1, deallocations : 0 .. SizeMod - 1]
  /\ held \in SUBSET Blocks
  /\ ret \in Seq(Blocks)

\* The blocks that are neither virgin nor with a caller.
FreedBlocks == (0 .. watermark - 1) \ held

\* The chain of next pointers that starts at head, in the words m, visits each
\* block of F exactly once and ends with Null.  pos counts the blocks of the
\* chain from its end: the last has 1, the head as many as there are.
IsChain(m, head, F, pos) ==
  /\ IF head = Null THEN F = {} ELSE head \in F /\ pos[head] = Cardinality(F)
  /\ \A b \in F : IF pos[b] = 1 THEN m[b] = Null
                               ELSE m[b] \in F /\ pos[m[b]] = pos[b] - 1

ChainOK(m, head, F) == \E pos \in Injection(F, 1 .. Cardinality(F)) : IsChain(m, head, F, pos)

\* Every block is virgin, on the free list or with a caller, and in one of the
\* three only (Pool.h:39-43): callers hold no virgin block, and following
\* freeList visits each block below the watermark that no caller holds exactly
\* once and then ends.  A block lost from the list, a cycle, or a list that runs
\* into a caller's bytes breaks it.
FreeListOK ==
  /\ held \subseteq 0 .. watermark - 1
  /\ ChainOK(mem, freeList, FreedBlocks)

\* usedBlocks() is the number of blocks callers hold, whatever mix of single
\* and batch calls with null and foreign pointers led there.
CountsOK == UsedBlocks(freeBlockCount) = Cardinality(held)

\* The peak the statistics report is the watermark: virgin memory is entered
\* only when every block already entered is with a caller (Pool.h:43-45,55).
PeakIsWatermark == EnableStats => stats.peakUsed = watermark

\* The counters count blocks, as statAlloc() and statDealloc() add them
\* (Pool.tpp:344-358): their difference is the number of blocks in use, through
\* batches, resets and a wrap of std::size_t, and the two allocation counters
\* agree (Pool.h:56-57).  The comments on them count calls; see PoolCalls.
StatsBalance ==
  EnableStats =>
    /\ (stats.allocations - stats.deallocations) % SizeMod = UsedBlocks(freeBlockCount)
    /\ stats.totalAllocated = stats.allocations

\* A call never hands out a block that some caller holds, nor the same block
\* twice in one batch.
IssuedBlocksWereFree ==
  [][IsInjective(ret') /\ Range(ret') \cap held = {}]_vars

\* The pool stores into a block only at the moment it is released
\* (Pool.h:67-71): not when issuing it, not into virgin blocks, not on reset,
\* never into a block a caller holds.
WrittenOnlyWhenReleased ==
  [][\A b \in Blocks : mem'[b] # mem[b] =>
       b \in held /\ (b \notin held' \/ \E w \in Words : CallerWrite(b, w))]_vars

\* An allocation comes back short only when no block is left for it, however
\* the free blocks are split between the free list and virgin memory.
ShortOnlyWhenFull ==
  [][/\ Allocate => Len(ret') = 1 \/ held = Blocks
     /\ \A n \in 0 .. MaxBatch : AllocateBatch(n) => Len(ret') = n \/ held' = Blocks]_vars

=============================================================================
