-------------------------------- MODULE ShadowPool -------------------------------
(***************************************************************************)
(* The shadow model the fuzz harness keeps beside a pool                   *)
(* (src/fuzz/fuzz_pool.cpp, struct Shadow): the free list as a stack of    *)
(* block indices, the watermark, and the live blocks with what their       *)
(* holder stored in them.  The harness compares a pool with it after every *)
(* call; PoolRefinement shows that every step of a pool is a step of it.   *)
(***************************************************************************)
EXTENDS Integers, FiniteSets, FiniteSetsExt, Sequences

CONSTANTS BlockCount, MaxBatch, SizeMod, Words

Blocks == 0 .. BlockCount - 1

VARIABLES
  freeStack,   \* Shadow::freeStack, its last element is the head
  watermark,   \* Shadow::watermark
  live,        \* Shadow::live: block index -> the tag written into the block
  stats,       \* Shadow::stats
  ret          \* the pointers the last call must return

vars == <<freeStack, watermark, live, stats, ret>>

Counters == [totalAllocated |-> 0, peakUsed |-> 0, allocations |-> 0, deallocations |-> 0]

Live == DOMAIN live

---------------------------------------------------------------------------

FreeNow(stack, mark) == Len(stack) + (BlockCount - mark)

Plus(x, n) == (x + n) % SizeMod

NoteAlloc(count) ==
  LET used == BlockCount - FreeNow(freeStack', watermark')
  IN  stats' = [stats EXCEPT !.totalAllocated = Plus(@, count),
                             !.allocations    = Plus(@, count),
                             !.peakUsed       = IF used > @ THEN used ELSE @]

NoteDealloc(count) == stats' = [stats EXCEPT !.deallocations = Plus(@, count)]

\* takeNext() n times: the stack from its head down, then virgin blocks in order.
TakeNext(n) ==
  LET reused == IF n < Len(freeStack) THEN n ELSE Len(freeStack)
      bumped == IF n - reused < BlockCount - watermark THEN n - reused
                                                       ELSE BlockCount - watermark
  IN  /\ ret' = [i \in 1 .. reused + bumped |->
                   IF i <= reused THEN freeStack[Len(freeStack) + 1 - i]
                                  ELSE watermark + (i - reused - 1)]
      /\ freeStack' = SubSeq(freeStack, 1, Len(freeStack) - reused)
      /\ watermark' = watermark + bumped

\* A block enters `live` with whatever bytes it holds.
Adopt(taken) ==
  /\ live' \in [Live \cup taken -> Words]
  /\ \A b \in Live : live'[b] = live[b]

DropLive(S) == live' = [b \in Live \ S |-> live[b]]

---------------------------------------------------------------------------
(* One action per operation of the harness.                                *)

AllocateBatch(n) ==
  /\ TakeNext(n)
  /\ IF ret' = <<>> THEN UNCHANGED stats ELSE NoteAlloc(Len(ret'))
  /\ Adopt(Range(ret'))

Allocate == AllocateBatch(1)

DeallocateBatch(order) ==
  /\ freeStack' = freeStack \o order
  /\ NoteDealloc(Len(order))
  /\ DropLive(Range(order))
  /\ ret' = <<>>
  /\ UNCHANGED watermark

DeallocateOne(b) == DeallocateBatch(<<b>>)

RejectForeign ==
  /\ ret' = <<>>
  /\ UNCHANGED <<freeStack, watermark, live, stats>>

Reset ==
  /\ watermark' = 0
  /\ freeStack' = <<>>
  /\ live' = <<>>
  /\ stats' = Counters
  /\ ret' = <<>>

WriteLive(b, w) ==
  /\ live' = [live EXCEPT ![b] = w]
  /\ ret' = <<>>
  /\ UNCHANGED <<freeStack, watermark, stats>>

Init ==
  /\ freeStack = <<>>
  /\ watermark = 0
  /\ live = <<>>
  /\ stats = Counters
  /\ ret = <<>>

Next ==
  \/ Allocate
  \/ \E n \in 0 .. MaxBatch : AllocateBatch(n)
  \/ \E b \in Live : DeallocateOne(b)
  \/ \E n \in 1 .. MaxBatch : \E order \in Injection(1 .. n, Live) : DeallocateBatch(order)
  \/ RejectForeign
  \/ Reset
  \/ \E b \in Live, w \in Words : WriteLive(b, w)

Spec == Init /\ [][Next]_vars

=============================================================================
