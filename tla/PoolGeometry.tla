------------------------------- MODULE PoolGeometry ------------------------------
(***************************************************************************)
(* The constructor of a pool and the address test of owns(), in the        *)
(* arithmetic of std::size_t: w bits, wrapping.  Addresses are numbers.    *)
(* The AP_PRE checks abort, as they do without NDEBUG (Contract.h).        *)
(***************************************************************************)
EXTENDS Integers

CONSTANTS
  W,         \* bits of std::size_t
  NodeSize   \* sizeof(FreeNode)

TwoTo[k \in 0 .. W] == IF k = 0 THEN 1 ELSE 2 * TwoTo[k-1]

Mod    == TwoTo[W]
Size_t == 0 .. Mod - 1

ASSUME GeometryAssumption == W \in Nat \ {0} /\ NodeSize \in 1 .. Mod - 1

\* The bitwise and, from the lowest bit up.  The library's is not a function, and
\* nothing can be proved about it.
And[x \in Size_t] ==
  [y \in Size_t |->
     IF x = 0 THEN 0
     ELSE 2 * And[x \div 2][y \div 2] + IF x % 2 = 1 /\ y % 2 = 1 THEN 1 ELSE 0]

x & y == And[x][y]

VARIABLES
  blockSize, blockCount, alignment,      \* the constructor's arguments
  phase,                                 \* the member being initialized, or how it ended
  stride, memory, memoryEnd,             \* stride_, memory_, memoryEnd_
  strideIsPow2, strideMask

args == <<blockSize, blockCount, alignment>>
vars == <<args, phase, stride, memory, memoryEnd, strideIsPow2, strideMask>>

Complement(x) == Mod - 1 - x

---------------------------------------------------------------------------
(* Utility functions.                                                      *)

IsPowerOfTwo(value) == value # 0 /\ value & (value - 1) = 0

\* Mutated form: rounds down.
AlignBackward(value, align) == value & Complement((align - 1) % Mod)

AlignForward(value, align) == ((value + align - 1) % Mod) & Complement((align - 1) % Mod)

\* Mutated form: the mask is the alignment's.
OwnsAligned(p) ==
  /\ memory <= p /\ p < memoryEnd
  /\ (p - memory) & (alignment - 1) = 0

Owns(p) ==
  /\ memory <= p /\ p < memoryEnd
  /\ IF strideIsPow2 THEN (p - memory) & strideMask = 0 ELSE (p - memory) % stride = 0

---------------------------------------------------------------------------
(* The constructor: checks, stride, backing memory, cached facts.  Members  *)
(* are initialized in the order they are declared in, whatever the order   *)
(* of the initializers; those after memory_ are functions of it and stride_.*)

\* Mutated form: memory_ is declared before stride_.
FollowingSwapped == [called |-> "memory_", memory_ |-> "stride_", stride_ |-> "built"]

Following == [called |-> "stride_", stride_ |-> "memory_", memory_ |-> "built"]

Abort == phase' = "aborted" /\ UNCHANGED <<args, stride, memory, memoryEnd, strideIsPow2, strideMask>>

ValidateAndComputeStride ==
  /\ phase = "stride_"
  /\ IF blockCount > 0 /\ IsPowerOfTwo(alignment) /\ blockSize >= NodeSize
       THEN /\ stride' = AlignForward(blockSize, alignment)
            /\ phase' = Following["stride_"]
            /\ UNCHANGED <<args, memory, memoryEnd, strideIsPow2, strideMask>>
       ELSE Abort

\* operator new returns any aligned range of unused addresses, or throws.
Place(size) ==
  \/ /\ phase' = "bad_alloc"
     /\ UNCHANGED <<args, stride, memory, memoryEnd, strideIsPow2, strideMask>>
  \/ \E a \in Size_t \ {0} :
       /\ a & ((alignment - 1) % Mod) = 0 /\ a + size < Mod
       /\ memory' = a
       /\ memoryEnd' = (a + stride * blockCount) % Mod
       /\ strideIsPow2' = IsPowerOfTwo(stride)
       /\ strideMask' = IF strideIsPow2' THEN stride - 1 ELSE 0
       /\ phase' = Following["memory_"]
       /\ UNCHANGED <<args, stride>>

\* Mutated form: the product is not checked.
AllocateStorageUnchecked ==
  /\ phase = "memory_"
  /\ Place((stride * blockCount) % Mod)

AllocateStorage ==
  /\ phase = "memory_"
  /\ IF stride = 0 \/ blockCount <= (Mod - 1) \div stride
       THEN Place((stride * blockCount) % Mod)
       ELSE Abort

Returned == phase \in {"aborted", "bad_alloc", "built"} /\ UNCHANGED vars

Init ==
  /\ blockSize \in Size_t /\ blockCount \in Size_t /\ alignment \in Size_t
  /\ phase = Following["called"]
  /\ stride = 0 /\ memory = 0 /\ memoryEnd = 0
  /\ strideIsPow2 = FALSE /\ strideMask = 0

Next == ValidateAndComputeStride \/ AllocateStorage \/ Returned

Spec == Init /\ [][Next]_vars

---------------------------------------------------------------------------
(* Properties.  The first three are about strides that are not zero; a     *)
(* stride of zero is what BlocksHoldBlockSize is about.                    *)

Built == phase = "built" /\ stride # 0

Start(i) == memory + i * stride

\* The size asked of operator new and the end of the memory are the true
\* product and sum: neither has wrapped, also where blockCount is at the limit
\* the check in allocateStorage() allows (Pool.h:300-302).
NothingWrapped ==
  Built => stride * blockCount < Mod /\ memoryEnd = memory + stride * blockCount

\* Blocks are aligned, do not overlap, and lie within the memory.
BlocksAreApart ==
  Built => \A i, j \in 0 .. blockCount - 1 :
             /\ Start(i) % alignment = 0
             /\ i < j => Start(i) + blockSize <= Start(j)
             /\ Start(i) + blockSize <= memoryEnd

\* owns() accepts the starts of the blocks and no other address, in the mask's
\* way and in the modulo's (Pool.h:228-229).
OwnsIsExact ==
  Built => \A p \in Size_t : Owns(p) <=> \E i \in 0 .. blockCount - 1 : p = Start(i)

\* A violated precondition never reaches operator new (Pool.h:120-123): memory_ is
\* given memory, or operator new throws, only after the checks have passed.
GarbageNeverReachesNew ==
  [][phase = "memory_" /\ phase' \notin {"memory_", "aborted"} =>
       /\ blockCount > 0 /\ blockSize >= NodeSize
       /\ \E k \in 0 .. W - 1 : alignment = TwoTo[k]]_vars

\* "each at least blockSize bytes" (Pool.h:107): every pool that is constructed
\* has blocks that hold blockSize bytes.
BlocksHoldBlockSize == phase = "built" => stride >= blockSize

=============================================================================
