-------------------------------- MODULE PoolMove ---------------------------------
(***************************************************************************)
(* Several pools in one program: construction, destruction, move           *)
(* construction and move assignment, which pass a backing allocation from  *)
(* one Pool object to another while callers hold blocks in it.             *)
(*                                                                         *)
(* A Pool object is a member of Pools, a backing allocation a member of    *)
(* Arenas (the addresses operator new returns: one that was deleted may    *)
(* come back), a block the pair of its arena and its index.  Where module  *)
(* Pool has one fixed arena, here each field of the object is a field of   *)
(* its record, and moves exchange them.  The batch calls and callers'      *)
(* stores, which touch the same fields as the single calls, are left to    *)
(* module Pool.                                                            *)
(***************************************************************************)
EXTENDS Integers, FiniteSets, FiniteSetsExt, Sequences

CONSTANTS
  Pools,        \* storage of Pool objects
  Arenas,       \* addresses of backing allocations
  Configs,      \* blockSize_, stride_, alignment_ and what is cached of them
  BlockCount,   \* the blockCount every pool is constructed with
  Null,         \* nullptr; also the zeroes of an empty pool's configuration
  Dead,         \* storage in which no Pool lives; an address not allocated
  SizeMod,      \* the counters wrap there
  Watched       \* any one of Arenas, the one MovesAreInvisible follows

Index  == 0 .. BlockCount - 1
Blocks == Arenas \X Index

\* The fields of a Pool object.
Objects ==
  [config : Configs \cup {Null}, blockCount : Nat, memory : Arenas \cup {Null},
   memoryEnd : (Arenas \X Nat) \cup {Null}, freeList : Blocks \cup {Null},
   watermark : Nat, freeBlockCount : Int,
   stats : [totalAllocated : Nat, peakUsed : Nat, allocations : Nat, deallocations : Nat]]

ASSUME MoveAssumption ==
  /\ BlockCount \in Nat \ {0}
  /\ SizeMod \in Nat /\ BlockCount < SizeMod
  /\ Null \notin Arenas \cup Configs \cup Index \cup Blocks
  /\ Dead \notin Configs \cup Objects
  /\ Watched \in Arenas

VARIABLES
  pool,   \* pool object -> its fields, or Dead
  heap,   \* arena -> the configuration it was allocated for, or Dead
  mem,    \* block -> its first word
  held,   \* the blocks callers hold
  ret     \* the blocks the last call handed out

vars == <<pool, heap, mem, held, ret>>

ZeroStats == [totalAllocated |-> 0, peakUsed |-> 0, allocations |-> 0, deallocations |-> 0]

---------------------------------------------------------------------------
(* The fields of a pool: just constructed, and empty.                      *)

NewPool(a, c) ==
  [config |-> c, blockCount |-> BlockCount, memory |-> a, memoryEnd |-> <<a, BlockCount>>,
   freeList |-> Null, watermark |-> 0, freeBlockCount |-> BlockCount, stats |-> ZeroStats]

EmptyPool ==
  [config |-> Null, blockCount |-> 0, memory |-> Null, memoryEnd |-> Null,
   freeList |-> Null, watermark |-> 0, freeBlockCount |-> 0, stats |-> ZeroStats]

\* Mutated form: the counter is copied, not exchanged.
MovedFromCounting(s) == [EmptyPool EXCEPT !.freeBlockCount = s.freeBlockCount]

\* What std::exchange leaves of the fields s of a pool that is moved from.
MovedFrom(s) == EmptyPool

Living == {p \in Pools : pool[p] # Dead}

Owns(p, b) == /\ pool[p].memory # Null
              /\ b[1] = pool[p].memory /\ b[2] < pool[p].memoryEnd[2]

InArena(S, a) == {b \in S : b[1] = a}

Used(s) == s.blockCount - s.freeBlockCount

Plus(x, n) == (x + n) % SizeMod

---------------------------------------------------------------------------
(* Construction, destruction, moves.                                       *)

\* operator new throws or returns an address that is not in use; when it throws
\* no Pool comes to life and nothing has changed.
Construct(p, a, c) ==
  /\ pool[p] = Dead /\ heap[a] = Dead
  /\ heap' = [heap EXCEPT ![a] = c]
  /\ pool' = [pool EXCEPT ![p] = NewPool(a, c)]
  /\ ret' = <<>>
  /\ UNCHANGED <<mem, held>>

\* operator delete of the backing memory, if there is any.
DeleteMemory(s) ==
  /\ heap' = IF s.memory = Null THEN heap ELSE [heap EXCEPT ![s.memory] = Dead]
  /\ held' = held \ InArena(held, s.memory)

Destruct(p) ==
  /\ pool[p] # Dead
  /\ DeleteMemory(pool[p])
  /\ pool' = [pool EXCEPT ![p] = Dead]
  /\ ret' = <<>>
  /\ UNCHANGED mem

MoveConstruct(p, q) ==
  /\ pool[p] = Dead /\ pool[q] # Dead
  /\ pool' = [pool EXCEPT ![p] = pool[q], ![q] = MovedFrom(pool[q])]
  /\ ret' = <<>>
  /\ UNCHANGED <<heap, mem, held>>

\* Mutated form: the target's own memory is not deleted first.
MoveAssignLeaking(p, q) ==
  /\ pool[p] # Dead /\ pool[q] # Dead
  /\ pool' = IF p = q THEN pool ELSE [pool EXCEPT ![p] = pool[q], ![q] = MovedFrom(pool[q])]
  /\ ret' = <<>>
  /\ UNCHANGED <<heap, mem, held>>

\* Mutated form: no test for self-assignment.
MoveAssignToSelf(p, q) ==
  /\ pool[p] # Dead /\ pool[q] # Dead
  /\ DeleteMemory(pool[p])
  /\ pool' = [pool EXCEPT ![q] = MovedFrom(pool[q]), ![p] = pool[q]]
  /\ ret' = <<>>
  /\ UNCHANGED mem

MoveAssign(p, q) ==
  /\ pool[p] # Dead /\ pool[q] # Dead
  /\ IF p = q THEN UNCHANGED <<pool, heap, held>>
     ELSE /\ DeleteMemory(pool[p])
          /\ pool' = [pool EXCEPT ![p] = pool[q], ![q] = MovedFrom(pool[q])]
  /\ ret' = <<>>
  /\ UNCHANGED mem

---------------------------------------------------------------------------
(* The calls on one pool, which may be an empty one.                       *)

\* The fields after n = 1 block was taken or n = -1 given back.
Taking(s, list, mark, n) ==
  LET free  == s.freeBlockCount - n
      used  == s.blockCount - free
      stats == IF n = 1
               THEN [s.stats EXCEPT !.totalAllocated = Plus(@, 1), !.allocations = Plus(@, 1),
                                    !.peakUsed = IF used > @ THEN used ELSE @]
               ELSE [s.stats EXCEPT !.deallocations = Plus(@, 1)]
  IN  [s EXCEPT !.freeList = list, !.watermark = mark, !.freeBlockCount = free, !.stats = stats]

Allocate(p) ==
  /\ pool[p] # Dead
  /\ LET s == pool[p]
         fresh == <<s.memory, s.watermark>>
     IN  \/ /\ s.freeList # Null
            /\ pool' = [pool EXCEPT ![p] = Taking(s, mem[s.freeList], s.watermark, 1)]
            /\ ret' = <<s.freeList>> /\ held' = held \cup {s.freeList}
         \/ /\ s.freeList = Null /\ s.watermark < s.blockCount
            /\ pool' = [pool EXCEPT ![p] = Taking(s, Null, s.watermark + 1, 1)]
            /\ ret' = <<fresh>> /\ held' = held \cup {fresh}
         \/ /\ s.freeList = Null /\ s.watermark >= s.blockCount
            /\ ret' = <<>> /\ UNCHANGED <<pool, held>>
  /\ UNCHANGED <<heap, mem>>

\* Mutated form: the block is taken back whichever pool it belongs to.
DeallocateAnywhere(p, b) ==
  /\ pool[p] # Dead
  /\ mem' = [mem EXCEPT ![b] = pool[p].freeList]
  /\ pool' = [pool EXCEPT ![p] = Taking(@, b, @.watermark, -1)]
  /\ held' = held \ {b}
  /\ ret' = <<>>
  /\ UNCHANGED heap

\* A block of another pool is ignored, and stays its holder's.
Deallocate(p, b) ==
  /\ pool[p] # Dead
  /\ IF b # Null /\ Owns(p, b)
       THEN /\ mem' = [mem EXCEPT ![b] = pool[p].freeList]
            /\ pool' = [pool EXCEPT ![p] = Taking(@, b, @.watermark, -1)]
            /\ held' = held \ {b}
       ELSE UNCHANGED <<mem, pool, held>>
  /\ ret' = <<>>
  /\ UNCHANGED heap

Reset(p) ==
  /\ pool[p] # Dead
  /\ pool' = [pool EXCEPT ![p].freeList = Null, ![p].watermark = 0,
                          ![p].freeBlockCount = pool[p].blockCount, ![p].stats = ZeroStats]
  /\ held' = held \ InArena(held, pool[p].memory)
  /\ ret' = <<>>
  /\ UNCHANGED <<heap, mem>>

---------------------------------------------------------------------------

Init ==
  /\ pool = [p \in Pools |-> Dead]
  /\ heap = [a \in Arenas |-> Dead]
  /\ mem = [b \in Blocks |-> Null]
  /\ held = {}
  /\ ret = <<>>

Next ==
  \/ \E p \in Pools, a \in Arenas, c \in Configs : Construct(p, a, c)
  \/ \E p \in Pools : Destruct(p)
  \/ \E p, q \in Pools : MoveConstruct(p, q)
  \/ \E p, q \in Pools : MoveAssign(p, q)
  \/ \E p \in Pools : Allocate(p)
  \/ \E p \in Pools, b \in held \cup {Null} : Deallocate(p, b)
  \/ \E p \in Pools : Reset(p)

Spec == Init /\ [][Next]_vars

---------------------------------------------------------------------------
(* Properties.                                                             *)

\* Backing memory that is allocated is the memory_ of one living pool, which
\* has the configuration it was allocated for, and of no other; every memory_
\* is allocated.  So whatever moves came before, it is deleted once, with the
\* alignment it was allocated with, and never leaks.
ArenaHasOneOwner ==
  /\ \A a \in Arenas : heap[a] # Dead => \E p \in Living : pool[p].memory = a
  /\ \A p \in Living : pool[p].memory # Null => heap[pool[p].memory] = pool[p].config
  /\ \A p, q \in Living : p # q /\ pool[p].memory # Null => pool[p].memory # pool[q].memory

\* Every block a caller holds belongs to one living pool, which will take it
\* back, although that is perhaps not the pool object that issued it.
HeldBlockHasOwner == \A b \in held : Cardinality({p \in Living : Owns(p, b)}) = 1

\* A pool without memory is in the state of a zero-capacity pool (Pool.h:138):
\* it has no block to give and counts none as used.
EmptyPoolIsInert ==
  \A p \in Living : pool[p].memory = Null =>
    /\ pool[p].freeList = Null /\ pool[p].watermark >= pool[p].blockCount
    /\ pool[p].freeBlockCount = 0 /\ Used(pool[p]) = 0
    /\ pool[p].stats = ZeroStats

\* The watched backing memory seen through whichever pool has it now is one pool
\* of module Pool; while it is not allocated, a pool that has just been reset.
Owner == CHOOSE p \in Living : pool[p].memory = Watched

Fields == IF heap[Watched] = Dead THEN NewPool(Watched, Null) ELSE pool[Owner]

Local(w) == IF w \in {Watched} \X Index THEN w[2] ELSE w

Arena ==
  INSTANCE Pool WITH
    Foreign <- {Dead}, Data <- {}, MaxBatch <- 0, EnableStats <- TRUE,
    mem            <- [i \in Index |-> Local(mem[<<Watched, i>>])],
    freeList       <- Local(Fields.freeList),
    watermark      <- Fields.watermark,
    freeBlockCount <- Fields.freeBlockCount,
    stats          <- Fields.stats,
    held           <- {b[2] : b \in InArena(held, Watched)},
    ret            <- IF ret # <<>> /\ ret[1][1] = Watched THEN <<ret[1][2]>> ELSE <<>>

\* For the holders of blocks moves are invisible: the backing memory, its free
\* list, its counters and its statistics go on as one pool, whose calls happen
\* to be made through changing objects.
MovesAreInvisible == Arena!Spec

=============================================================================
