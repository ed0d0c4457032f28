------------------------------- MODULE PoolObjects -------------------------------
(***************************************************************************)
(* create<T>() and destroy<T>() of a pool, with what makes them hard: the  *)
(* constructor and the destructor are callers' code, and run in the middle *)
(* of the call.  They may use the same pool, create and destroy further    *)
(* objects there, and a constructor may throw.  The calls under way form a *)
(* stack, of which only the top one runs; between two of its steps every   *)
(* operation of module Pool may be called.                                 *)
(***************************************************************************)
EXTENDS Pool

CONSTANT MaxDepth   \* bound: create/destroy calls nested in each other's callbacks

ASSUME DepthAssumption == MaxDepth \in Nat

VARIABLES
  raw,       \* blocks handed out by allocate()/allocateBatch() and not returned
  objects,   \* blocks holding an object whose constructor has returned
  calls      \* create() and destroy() calls under way, the running one last

objectVars == <<vars, raw, objects, calls>>

Top == calls[Len(calls)]

InCallback == {calls[i].block : i \in DOMAIN calls}

Pop == calls' = SubSeq(calls, 1, Len(calls) - 1)

---------------------------------------------------------------------------
(* create()                                                                *)

\* The block is acquired before the constructor runs.  before is what callers
\* had at that moment, for the property on exceptions.  Objects here are of a
\* type that fits a block: for another one create() aborts before it has
\* touched anything (AP_PRE on sizeof and alignof).
CreateBegin ==
  /\ Len(calls) < MaxDepth
  /\ Allocate
  /\ ret' # <<>>
  /\ calls' = Append(calls, [op |-> "create", block |-> ret'[1], before |-> held])
  /\ UNCHANGED <<raw, objects>>

CreateExhausted ==
  /\ Allocate
  /\ ret' = <<>>
  /\ UNCHANGED <<raw, objects, calls>>

ConstructorReturns ==
  /\ calls # <<>> /\ Top.op = "create"
  /\ objects' = objects \cup {Top.block}
  /\ Pop
  /\ ret' = <<>>
  /\ UNCHANGED <<arena, stats, held, raw>>

\* Mutated form: the exception propagates past the block.
ConstructorThrowsLeaking ==
  /\ calls # <<>> /\ Top.op = "create"
  /\ Pop
  /\ ret' = <<>>
  /\ UNCHANGED <<arena, stats, held, raw, objects>>

\* Mutated form: the block is given back by forgetting the callbacks' calls.
ConstructorThrowsResetting ==
  /\ calls # <<>> /\ Top.op = "create"
  /\ Reset
  /\ Pop
  /\ UNCHANGED <<raw, objects>>

\* catch (...): the block goes back to the pool, and the exception on to the
\* caller.  Where that is another constructor, it may throw in its turn.
ConstructorThrows ==
  /\ calls # <<>> /\ Top.op = "create"
  /\ Deallocate(Top.block)
  /\ Pop
  /\ UNCHANGED <<raw, objects>>

---------------------------------------------------------------------------
(* destroy()                                                               *)

\* Mutated form: the block is released before the destructor runs.
DestroyBeginReleasing(b) ==
  /\ Len(calls) < MaxDepth
  /\ DeallocateOwned(b)
  /\ objects' = objects \ {b}
  /\ calls' = Append(calls, [op |-> "destroy", block |-> b, before |-> held])
  /\ UNCHANGED raw

\* The object's lifetime ends when its destructor starts.
DestroyBegin(b) ==
  /\ Len(calls) < MaxDepth
  /\ Owns(b)
  /\ objects' = objects \ {b}
  /\ calls' = Append(calls, [op |-> "destroy", block |-> b, before |-> held])
  /\ ret' = <<>>
  /\ UNCHANGED <<arena, stats, held, raw>>

DestroyForeign(p) ==
  /\ DeallocateForeign(p)
  /\ UNCHANGED <<raw, objects, calls>>

DestructorReturns ==
  /\ calls # <<>> /\ Top.op = "destroy"
  /\ Deallocate(Top.block)
  /\ Pop
  /\ UNCHANGED <<raw, objects>>

---------------------------------------------------------------------------
(* The other operations, between two steps of a callback or outside of one. *)

RawAllocate ==
  /\ Allocate \/ \E n \in 0 .. MaxBatch : AllocateBatch(n)
  /\ raw' = raw \cup Range(ret')
  /\ UNCHANGED <<objects, calls>>

\* Callers return raw blocks; the blocks of objects are destroy()'s to return.
RawDeallocate ==
  /\ \/ \E p \in raw \cup {Null} \cup Foreign : Deallocate(p)
     \/ \E ptrs \in ReturnSpans : Range(ptrs) \cap held \subseteq raw /\ DeallocateBatch(ptrs)
  /\ raw' = raw \cap held'
  /\ UNCHANGED <<objects, calls>>

\* Objects and raw blocks end with reset(); it is not called while a
\* constructor or a destructor runs in one of the blocks.
ResetAll ==
  /\ calls = <<>>
  /\ Reset
  /\ raw' = {}
  /\ objects' = {}
  /\ UNCHANGED calls

\* Bytes are written to raw blocks, to live objects, and by the running callback.
Store ==
  /\ \E b \in held, w \in Words : CallerWrite(b, w)
  /\ UNCHANGED <<raw, objects, calls>>

ObjectsInit == Init /\ raw = {} /\ objects = {} /\ calls = <<>>

ObjectsNext ==
  \/ CreateBegin
  \/ CreateExhausted
  \/ ConstructorReturns
  \/ ConstructorThrows
  \/ \E b \in objects : DestroyBegin(b)
  \/ \E p \in {Null} \cup Foreign : DestroyForeign(p)
  \/ DestructorReturns
  \/ RawAllocate
  \/ RawDeallocate
  \/ ResetAll
  \/ Store

ObjectsSpec == ObjectsInit /\ [][ObjectsNext]_objectVars

---------------------------------------------------------------------------
(* Properties.                                                             *)

\* Every block the pool counts as used is a raw block, a live object or the
\* block of a call under way, and only one of them: an exception or a nested
\* call leaves no block that nobody can return (Pool.h:199-202).
NoBlockLost ==
  /\ UsedBlocks(freeBlockCount) = Cardinality(raw) + Cardinality(objects) + Len(calls)
  /\ held = raw \cup objects \cup InCallback

\* While a constructor or a destructor runs in a block, the block is neither on
\* the free list nor handed out again, whatever the callback does with the pool.
CallbackBlockIsPrivate ==
  /\ \A i, j \in DOMAIN calls : i # j => calls[i].block # calls[j].block
  /\ InCallback \cap (raw \cup objects \cup FreedBlocks) = {}

\* When a constructor throws after giving back all it took, callers have the
\* blocks they had before create() was called, neither more nor fewer, and the
\* pool counts as many, although nested calls moved its watermark and list.
ThrowRestores ==
  [][ConstructorThrows /\ held = Top.before \cup {Top.block} =>
       /\ held' = Top.before
       /\ UsedBlocks(freeBlockCount') = Cardinality(Top.before)]_objectVars

\* create() and destroy() are well-behaved callers of the pool they belong to:
\* what they do to it, exceptions and nesting included, is a behaviour of module
\* Pool, in which only blocks that are held are returned.
UsePoolAsCallers == Spec

=============================================================================
