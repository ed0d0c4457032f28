------------------------------- MODULE PoolLocking -------------------------------
(***************************************************************************)
(* A pool shared by threads under one mutex, as                            *)
(* src/tests/custom/suite/concurrency/external_locking.cpp does it: Pool   *)
(* has no synchronisation of its own, so each thread locks the mutex       *)
(* around each call.  Here a call is the sequence of its accesses to the   *)
(* shared fields, and threads interleave between any two steps of it.  A   *)
(* step is at most one store, together with the load it comes straight     *)
(* after: Pop, Bump, Take and Link load one field and store another or the *)
(* same; the count is loaded in one step and stored in the next.           *)
(***************************************************************************)
EXTENDS Integers, FiniteSets, Sequences, Functions

CONSTANTS
  Threads,
  CallsPerThread,   \* how many calls a thread makes before it can be joined
  BatchSize,        \* the span a thread passes to allocateBatch
  BlockCount,
  Null,
  None              \* mutex: no thread holds it

Blocks == 0 .. BlockCount - 1

ASSUME LockingAssumption ==
  /\ BlockCount \in Nat \ {0} /\ CallsPerThread \in Nat /\ BatchSize \in Nat
  /\ None \notin Threads
  /\ Null \notin Blocks

VARIABLES
  mem, freeList, watermark, freeBlockCount,   \* the pool, as in module Pool
  mutex,    \* the thread in the critical section, or None
  pc,       \* thread -> the access it performs next
  local,    \* thread -> the local variables of its call
  todo,     \* thread -> calls still to make
  mine,     \* thread -> the blocks it holds
  ret,      \* what the last finished call handed out
  settled   \* history: the pool as the last finished call left it

fields == <<mem, freeList, watermark, freeBlockCount>>
vars == <<fields, mutex, pc, local, todo, mine, ret, settled>>

Goto(t, label) == pc' = [pc EXCEPT ![t] = label]

At(t, label) == pc[t] = label /\ UNCHANGED <<todo, mine, ret, settled>>

---------------------------------------------------------------------------
(* A thread picks its next call, and takes the mutex around it.            *)

NewCall(op, arg) == [op |-> op, arg |-> arg, node |-> Null, out |-> <<>>, count |-> 0]

Call(t) ==
  /\ At(t, "idle") /\ todo[t] > 0
  /\ \/ local' = [local EXCEPT ![t] = NewCall("allocate", Null)]
     \/ \E b \in mine[t] : local' = [local EXCEPT ![t] = NewCall("deallocate", b)]
     \/ local' = [local EXCEPT ![t] = NewCall("allocateBatch", BatchSize)]
  /\ Goto(t, "lock")
  /\ UNCHANGED <<fields, mutex>>

\* Mutated form: the thread does not wait.
LockRacing(t) ==
  /\ pc[t] = "lock"
  /\ mutex' = t
  /\ Goto(t, local[t].op)
  /\ UNCHANGED <<fields, local, todo, mine, ret, settled>>

Lock(t) ==
  /\ pc[t] = "lock" /\ mutex = None
  /\ mutex' = t
  /\ Goto(t, local[t].op)
  /\ UNCHANGED <<fields, local, todo, mine, ret, settled>>

\* The blocks the thread holds after its call.
Keeps(t) == IF local[t].op = "deallocate" THEN mine[t] \ {local[t].arg}
                                          ELSE mine[t] \cup Range(local[t].out)

\* Mutated form: the mutex stays locked after the thread's last call.
UnlockOnlyIfMore(t) ==
  /\ pc[t] = "unlock"
  /\ mutex' = IF todo[t] > 1 THEN None ELSE mutex
  /\ mine' = [mine EXCEPT ![t] = Keeps(t)]
  /\ ret' = local[t].out
  /\ todo' = [todo EXCEPT ![t] = @ - 1]
  /\ settled' = fields
  /\ Goto(t, "idle")
  /\ UNCHANGED <<fields, local>>

\* The lock_guard's destructor; the caller has the call's result.
Unlock(t) ==
  /\ pc[t] = "unlock"
  /\ mutex' = None
  /\ mine' = [mine EXCEPT ![t] = Keeps(t)]
  /\ ret' = local[t].out
  /\ todo' = [todo EXCEPT ![t] = @ - 1]
  /\ settled' = fields
  /\ Goto(t, "idle")
  /\ UNCHANGED <<fields, local>>

---------------------------------------------------------------------------
(* allocate()                                                              *)

LoadHead(t) ==
  /\ At(t, "allocate")
  /\ IF freeList # Null
       THEN local' = [local EXCEPT ![t].node = freeList] /\ Goto(t, "pop")
       ELSE local' = local /\ Goto(t, "bump")
  /\ UNCHANGED <<fields, mutex>>

\* Mutated form: the head is not moved past the block that is taken.
PopKeepingHead(t) ==
  /\ At(t, "pop")
  /\ local' = [local EXCEPT ![t].out = Append(@, local[t].node)]
  /\ Goto(t, IF local[t].op = "allocate" THEN "count" ELSE "allocateBatch")
  /\ UNCHANGED <<mem, freeList, watermark, freeBlockCount, mutex>>

Pop(t) ==
  /\ At(t, "pop")
  /\ freeList' = mem[local[t].node]
  /\ local' = [local EXCEPT ![t].out = Append(@, local[t].node)]
  /\ Goto(t, IF local[t].op = "allocate" THEN "count" ELSE "allocateBatch")
  /\ UNCHANGED <<mem, watermark, freeBlockCount, mutex>>

Bump(t) ==
  /\ At(t, "bump")
  /\ IF watermark < BlockCount
       THEN /\ watermark' = watermark + 1
            /\ local' = [local EXCEPT ![t].out = <<watermark>>]
            /\ Goto(t, "count")
       ELSE UNCHANGED <<watermark, local>> /\ Goto(t, "unlock")
  /\ UNCHANGED <<mem, freeList, freeBlockCount, mutex>>

---------------------------------------------------------------------------
(* allocateBatch(): the drain loop shares Pop with allocate().             *)

Drain(t) ==
  /\ At(t, "allocateBatch")
  /\ IF Len(local[t].out) < local[t].arg /\ freeList # Null
       THEN local' = [local EXCEPT ![t].node = freeList] /\ Goto(t, "pop")
       ELSE local' = local /\ Goto(t, "take")
  /\ UNCHANGED <<fields, mutex>>

Take(t) ==
  /\ At(t, "take")
  /\ LET missing   == local[t].arg - Len(local[t].out)
         available == BlockCount - watermark
         take      == IF missing < available THEN missing ELSE available
     IN  /\ watermark' = watermark + take
         /\ local' = [local EXCEPT ![t].out = @ \o [i \in 1 .. take |-> watermark + i - 1]]
  /\ Goto(t, "count")
  /\ UNCHANGED <<mem, freeList, freeBlockCount, mutex>>

---------------------------------------------------------------------------
(* deallocate()                                                            *)

Link(t) ==
  /\ At(t, "deallocate")
  /\ mem' = [mem EXCEPT ![local[t].arg] = freeList]
  /\ Goto(t, "head")
  /\ UNCHANGED <<freeList, watermark, freeBlockCount, mutex, local>>

StoreHead(t) ==
  /\ At(t, "head")
  /\ freeList' = local[t].arg
  /\ Goto(t, "count")
  /\ UNCHANGED <<mem, watermark, freeBlockCount, mutex, local>>

---------------------------------------------------------------------------
(* freeBlockCount_ is loaded, changed and stored.                          *)

LoadCount(t) ==
  /\ At(t, "count")
  /\ local' = [local EXCEPT ![t].count = freeBlockCount]
  /\ Goto(t, "store")
  /\ UNCHANGED <<fields, mutex>>

StoreCount(t) ==
  /\ At(t, "store")
  /\ freeBlockCount' = IF local[t].op = "deallocate" THEN local[t].count + 1
                                                     ELSE local[t].count - Len(local[t].out)
  /\ Goto(t, "unlock")
  /\ UNCHANGED <<mem, freeList, watermark, mutex, local>>

---------------------------------------------------------------------------

Init ==
  /\ mem \in [Blocks -> {Null} \cup Blocks]
  /\ freeList = Null /\ watermark = 0 /\ freeBlockCount = BlockCount
  /\ mutex = None
  /\ pc = [t \in Threads |-> "idle"]
  /\ local = [t \in Threads |-> NewCall("allocate", Null)]
  /\ todo = [t \in Threads |-> CallsPerThread]
  /\ mine = [t \in Threads |-> {}]
  /\ ret = <<>>
  /\ settled = fields

Step(t) ==
  \/ Call(t) \/ Lock(t) \/ Unlock(t)
  \/ LoadHead(t) \/ Pop(t) \/ Bump(t)
  \/ Drain(t) \/ Take(t)
  \/ Link(t) \/ StoreHead(t)
  \/ LoadCount(t) \/ StoreCount(t)

Done(t) == pc[t] = "idle" /\ todo[t] = 0

Next == \E t \in Threads : Step(t)

\* A thread that can take a step is scheduled eventually.  Nothing is assumed of
\* the order in which the mutex admits the threads that wait for it.
Spec == Init /\ [][Next]_vars /\ \A t \in Threads : WF_vars(Step(t))

---------------------------------------------------------------------------
(* Properties.                                                             *)

\* Between calls no block belongs to two threads, and usedBlocks() is the number
\* the threads hold together: no update of the counter is lost.
CountsAddUp ==
  /\ \A s, t \in Threads : s # t => mine[s] \cap mine[t] = {}
  /\ mutex = None => BlockCount - freeBlockCount = Cardinality(UNION {mine[t] : t \in Threads})

\* One mutex around every call is enough: the threads' calls, taken apart into
\* their loads and stores and interleaved, amount to the calls of module Pool
\* one after the other, in the order in which the mutex was held.
Atomic ==
  INSTANCE Pool WITH
    Foreign <- {}, Data <- {}, MaxBatch <- BatchSize,
    SizeMod <- BlockCount + 1, EnableStats <- FALSE,
    mem <- settled[1], freeList <- settled[2], watermark <- settled[3], freeBlockCount <- settled[4],
    stats <- [totalAllocated |-> 0, peakUsed |-> 0, allocations |-> 0, deallocations |-> 0],
    held <- UNION {mine[t] : t \in Threads}

CallsAreAtomic == Atomic!Spec

\* Every thread makes all its calls and can be joined, whichever thread the
\* mutex admits first.
AllJoin == <>(\A t \in Threads : Done(t))

=============================================================================
