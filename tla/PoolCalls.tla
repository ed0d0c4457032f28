-------------------------------- MODULE PoolCalls --------------------------------
(***************************************************************************)
(* Pool with a history of how many calls succeeded, to compare the         *)
(* statistics with what the comments on Stats say they count.              *)
(***************************************************************************)
EXTENDS Pool

VARIABLES   \* both since reset(), mod 2^w
  calls,    \* successful allocate()/allocateBatch() calls: they returned a block
  releases  \* successful deallocate()/deallocateBatch() calls: they took one back

CallsInit == Init /\ calls = 0 /\ releases = 0

Allocating == calls' = Plus(calls, IF ret' = <<>> THEN 0 ELSE 1) /\ UNCHANGED releases

Releasing == releases' = Plus(releases, IF held' = held THEN 0 ELSE 1) /\ UNCHANGED calls

CallsNext ==
  \/ Allocate /\ Allocating
  \/ (\E n \in 0 .. MaxBatch : AllocateBatch(n)) /\ Allocating
  \/ (\E p \in held \cup {Null} \cup Foreign : Deallocate(p)) /\ Releasing
  \/ (\E ptrs \in ReturnSpans : DeallocateBatch(ptrs)) /\ Releasing
  \/ Reset /\ calls' = 0 /\ releases' = 0

CallsSpec == CallsInit /\ [][CallsNext]_<<vars, calls, releases>>

\* The comments say of totalAllocated_ "Successful allocate()/allocateBatch() calls
\* (lifetime, since last reset())" (Pool.h:53-54) and of deallocations_ "Total number
\* of successful deallocate()/deallocateBatch() calls" (Pool.h:58-59). One of the two
\* at least is the number of calls; a state that denies this denies both comments.
AStatisticCountsCalls ==
  EnableStats => stats.totalAllocated = calls \/ stats.deallocations = releases

=============================================================================
