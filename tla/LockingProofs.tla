------------------------------ MODULE LockingProofs ------------------------------
(***************************************************************************)
(* Proofs about module PoolLocking: for any number of threads, calls,      *)
(* blocks and any length of a batch, the calls under the mutex are the     *)
(* calls of module Pool, one after the other.                              *)
(***************************************************************************)
EXTENDS PoolLocking, SequenceTheorems, TLAPS

(* What is proved of module Pool, said of the pool the last finished call  *)
(* left behind.  No object is created through it.                          *)
P ==
  INSTANCE PoolProofs WITH
    Foreign <- {}, Data <- {}, MaxBatch <- BatchSize,
    SizeMod <- BlockCount + 1, EnableStats <- FALSE,
    mem <- settled[1], freeList <- settled[2], watermark <- settled[3], freeBlockCount <- settled[4],
    stats <- [totalAllocated |-> 0, peakUsed |-> 0, allocations |-> 0, deallocations |-> 0],
    held <- UNION {mine[t] : t \in Threads},
    raw <- {}, objects <- {}, calls <- <<>>, MaxDepth <- 0

Links == Blocks \cup {Null}

Labels == {"idle", "lock", "allocate", "deallocate", "allocateBatch", "pop", "bump", "take",
           "head", "count", "store", "unlock"}

Inside == Labels \ {"idle", "lock"}

Calls == [op : {"allocate", "deallocate", "allocateBatch"}, arg : Nat \cup {Null},
          node : Links, out : Seq(Blocks), count : Int]

TypesOK ==
  /\ mem \in [Blocks -> Links] /\ settled[1] \in [Blocks -> Links]
  /\ settled = <<settled[1], settled[2], settled[3], settled[4]>>
  /\ mutex \in Threads \cup {None}
  /\ pc \in [Threads -> Labels]
  /\ local \in [Threads -> Calls]
  /\ mine \in [Threads -> SUBSET Blocks]

(* The mutex is held by the thread that is inside a call.                  *)
Exclusive == \A t \in Threads : (pc[t] \in Inside) <=> (mutex = t)

(* The call of thread t passes what a caller may pass.                     *)
CallOK(t) ==
  pc[t] # "idle" =>
    /\ local[t].op = "deallocate" => local[t].arg \in mine[t]
    /\ local[t].op = "allocateBatch" => local[t].arg = BatchSize

(* out is what following the links from the settled head has given so far. *)
DrainedTo(out, head) ==
  /\ \A i \in 1 .. Len(out) : out[i] = IF i = 1 THEN settled[2] ELSE settled[1][out[i - 1]]
  /\ head = IF Len(out) = 0 THEN settled[2] ELSE settled[1][out[Len(out)]]

Missing(k) == IF BatchSize - k < BlockCount - settled[3] THEN BatchSize - k
                                                         ELSE BlockCount - settled[3]

Issued(d, n) ==
  [i \in 1 .. Len(d) + n |-> IF i <= Len(d) THEN d[i] ELSE settled[3] + (i - Len(d) - 1)]

(* The calls, but for the counter, as stores into the settled pool.        *)
Popped(out) == /\ settled[2] # Null /\ out = <<settled[2]>>
               /\ freeList = settled[1][settled[2]]
               /\ mem = settled[1] /\ watermark = settled[3]

Bumped(out) == /\ settled[2] = Null /\ settled[3] < BlockCount /\ out = <<settled[3]>>
               /\ freeList = Null /\ watermark = settled[3] + 1
               /\ mem = settled[1]

Linked(b)   == /\ mem = [settled[1] EXCEPT ![b] = settled[2]]
               /\ freeList = b /\ watermark = settled[3]

Batched(out) ==
  \E d \in Seq(Blocks) :
    /\ Len(d) <= BatchSize /\ DrainedTo(d, freeList)
    /\ Len(d) = BatchSize \/ freeList = Null
    /\ out = Issued(d, Missing(Len(d)))
    /\ watermark = settled[3] + Missing(Len(d))
    /\ mem = settled[1]

Outcome(t) ==
  /\ local[t].op = "allocate" => Popped(local[t].out) \/ Bumped(local[t].out)
  /\ local[t].op = "deallocate" => Linked(local[t].arg) /\ local[t].out = <<>>
  /\ local[t].op = "allocateBatch" => Batched(local[t].out)

Exhausted(t) == /\ local[t].op = "allocate" /\ local[t].out = <<>> /\ fields = settled
                /\ settled[2] = Null /\ settled[3] >= BlockCount

Draining(t) == /\ local[t].op = "allocateBatch" /\ Len(local[t].out) <= BatchSize
               /\ DrainedTo(local[t].out, freeList)
               /\ mem = settled[1] /\ watermark = settled[3] /\ freeBlockCount = settled[4]

NewCount(t) == IF local[t].op = "deallocate" THEN settled[4] + 1
                                             ELSE settled[4] - Len(local[t].out)

(* How far the call of thread t has come, before each of its accesses.     *)
Stage(t) ==
  /\ pc[t] = "lock" => local[t].out = <<>>
  /\ pc[t] \in {"allocate", "deallocate"} =>
       local[t].op = pc[t] /\ local[t].out = <<>> /\ fields = settled
  /\ pc[t] = "allocateBatch" => Draining(t)
  /\ pc[t] = "pop" /\ local[t].op = "allocate" => local[t].out = <<>> /\ fields = settled
  /\ pc[t] = "pop" /\ local[t].op # "allocate" => Draining(t) /\ Len(local[t].out) < BatchSize
  /\ pc[t] = "pop" => freeList # Null /\ local[t].node = freeList
  /\ pc[t] = "bump" => local[t].op = "allocate" /\ local[t].out = <<>>
                         /\ fields = settled /\ freeList = Null
  /\ pc[t] = "take" => Draining(t) /\ (Len(local[t].out) = BatchSize \/ freeList = Null)
  /\ pc[t] = "head" => /\ local[t].op = "deallocate" /\ local[t].out = <<>>
                       /\ mem = [settled[1] EXCEPT ![local[t].arg] = settled[2]]
                       /\ freeList = settled[2] /\ watermark = settled[3]
                       /\ freeBlockCount = settled[4]
  /\ pc[t] \in {"count", "store"} => Outcome(t) /\ freeBlockCount = settled[4]
  /\ pc[t] = "store" => local[t].count = settled[4]
  /\ pc[t] = "unlock" => (Outcome(t) /\ freeBlockCount = NewCount(t)) \/ Exhausted(t)

Apart == \A s, t \in Threads : s # t => mine[s] \cap mine[t] = {}

LInv == /\ TypesOK /\ Exclusive /\ Apart
        /\ mutex = None => fields = settled
        /\ \A t \in Threads : CallOK(t) /\ Stage(t)

---------------------------------------------------------------------------
(* The two instances of module Pool.                                       *)

\* What module Pool assumes of its constants holds of those it is given here.
LEMMA Assumed ==
  /\ BlockCount \in Nat \ {0}
  /\ BatchSize \in Nat
  /\ BlockCount + 1 \in Nat /\ BlockCount < BlockCount + 1
  /\ FALSE \in BOOLEAN
  /\ Null \notin P!Blocks
  /\ Null \notin {}
  /\ {} \cap P!Blocks = {}
  /\ 0 \in Nat
BY LockingAssumption DEF P!Blocks, Blocks

\* The sets of module Pool are those of PoolLocking.
LEMMA SameSets == P!Blocks = Blocks /\ Atomic!Blocks = Blocks /\ P!vars = Atomic!vars
BY DEF P!Blocks, Atomic!Blocks, Blocks, P!vars, Atomic!vars

\* The proofs' instance and the one of the property have the same actions.
LEMMA SameActions ==
  /\ P!Allocate <=> Atomic!Allocate
  /\ \A b : P!Deallocate(b) <=> Atomic!Deallocate(b)
  /\ \A n : P!AllocateBatch(n) <=> Atomic!AllocateBatch(n)
<1>1. P!Allocate <=> Atomic!Allocate
  BY DEF P!Allocate, Atomic!Allocate, P!Blocks, Atomic!Blocks, P!arena, Atomic!arena,
         P!AcquireBlock, Atomic!AcquireBlock, P!PopFreeList, Atomic!PopFreeList,
         P!BumpWatermark, Atomic!BumpWatermark, P!StatAlloc, Atomic!StatAlloc,
         P!Exhausted, Atomic!Exhausted
<1>2. \A b : P!Deallocate(b) <=> Atomic!Deallocate(b)
  BY DEF P!Deallocate, Atomic!Deallocate, P!Blocks, Atomic!Blocks, P!arena, Atomic!arena,
         P!DeallocateOwned, Atomic!DeallocateOwned, P!DeallocateForeign, Atomic!DeallocateForeign,
         P!Owns, Atomic!Owns, P!ReleaseBlock, Atomic!ReleaseBlock, P!StatDealloc, Atomic!StatDealloc
<1>3. \A n : P!AllocateBatch(n) <=> Atomic!AllocateBatch(n)
  BY DEF P!AllocateBatch, Atomic!AllocateBatch, P!Blocks, Atomic!Blocks,
         P!TakeVirgin, Atomic!TakeVirgin, P!Drained, Atomic!Drained, P!UsedBlocks, Atomic!UsedBlocks,
         P!StatAlloc, Atomic!StatAlloc, P!Range, Atomic!Range
<1> QED BY <1>1, <1>2, <1>3

---------------------------------------------------------------------------
(* A step of a call, which touches only the fields and its own variables.  *)

\* The settled pool's fields have their types.
LEMMA SettledTypes ==
  ASSUME P!IInv
  PROVE  settled[2] \in Links /\ settled[3] \in 0 .. BlockCount /\ settled[4] \in 0 .. BlockCount
BY SameSets DEF P!IInv, P!TypeOK, Links

\* A thread that goes from one access of its call to the next disturbs nobody.
LEMMA StepInside ==
  ASSUME LInv, NEW t \in Threads, pc[t] \in Inside, NEW label \in Inside, NEW l \in Calls,
         l.op = local[t].op, l.arg = local[t].arg,
         pc' = [pc EXCEPT ![t] = label], local' = [local EXCEPT ![t] = l],
         mutex' = mutex, settled' = settled, mine' = mine, mem' \in [Blocks -> Links],
         Stage(t)'
  PROVE  LInv'
<1>1. mutex = t /\ t # None
  BY LockingAssumption DEF LInv, Exclusive
<1>2. TypesOK'
  BY DEF LInv, TypesOK, Inside
<1>3. pc'[t] = label /\ local'[t] = l /\ \A u \in Threads : u # t => pc'[u] = pc[u] /\ local'[u] = local[u]
  BY DEF LInv, TypesOK
<1>4. Exclusive'
  BY <1>1, <1>3 DEF LInv, Exclusive
<1>5. Apart'
  BY DEF LInv, Apart
<1>6. CallOK(t)'
  BY <1>3 DEF LInv, CallOK, Inside
<1>7. ASSUME NEW u \in Threads, u # t PROVE CallOK(u)' /\ Stage(u)'
  <2>1. pc[u] \in Labels /\ pc[u] \notin Inside
    BY <1>1, <1>7 DEF LInv, Exclusive, TypesOK
  <2>2. pc[u] = "idle" \/ pc[u] = "lock"
    BY <2>1 DEF Inside
  <2>3. CallOK(u)'
    BY <1>3, <1>7 DEF LInv, CallOK
  <2>4. Stage(u)'
    BY <1>3, <1>7, <2>2 DEF LInv, Stage
  <2> QED BY <2>3, <2>4
<1> QED BY <1>1, <1>2, <1>4, <1>5, <1>6, <1>7 DEF LInv

\* What a thread inside a call finds of its own variables.
LEMMA OwnTypes ==
  ASSUME LInv, NEW t \in Threads
  PROVE  /\ local[t] \in Calls /\ local[t].out \in Seq(Blocks) /\ Len(local[t].out) \in Nat
         /\ local[t].op \in {"allocate", "deallocate", "allocateBatch"}
         /\ pc[t] \in Labels /\ local = [local EXCEPT ![t] = local[t]]
         /\ CallOK(t) /\ Stage(t)
BY DEF LInv, TypesOK, Calls

\* Nothing drained yet.
LEMMA DrainStart ==
  ASSUME NEW h
  PROVE  DrainedTo(<<>>, h) <=> h = settled[2]
BY DEF DrainedTo

\* allocate() loads the head.
LEMMA LoadHeadKeeps ==
  ASSUME LInv, P!IInv, NEW t \in Threads, LoadHead(t)
  PROVE  LInv'
<1>1. /\ pc[t] = "allocate" /\ settled' = settled /\ mine' = mine /\ mutex' = mutex
      /\ mem' = mem /\ freeList' = freeList /\ watermark' = watermark
      /\ freeBlockCount' = freeBlockCount /\ fields = settled
      /\ local[t].op = "allocate" /\ local[t].out = <<>>
  BY OwnTypes DEF LoadHead, At, fields, Stage
<1>2. fields' = settled'
  BY <1>1 DEF fields
<1>3. freeList = settled[2] /\ freeList \in Links /\ mem' \in [Blocks -> Links]
  BY <1>1, SettledTypes DEF fields, LInv, TypesOK
<1>4. CASE freeList # Null
  <2> DEFINE l == [local[t] EXCEPT !.node = freeList]
  <2>1. l \in Calls /\ l.op = local[t].op /\ l.arg = local[t].arg /\ l.out = <<>> /\ l.node = freeList
    BY <1>1, <1>3, OwnTypes DEF Calls
  <2>2. local' = [local EXCEPT ![t] = l] /\ pc' = [pc EXCEPT ![t] = "pop"]
    BY <1>4 DEF LoadHead, Goto
  <2> HIDE DEF l
  <2>3. local'[t] = l /\ pc'[t] = "pop"
    BY <2>2 DEF LInv, TypesOK
  <2>4. Stage(t)'
    BY <1>1, <1>2, <1>4, <2>1, <2>3 DEF Stage
  <2> QED BY <1>1, <1>3, <2>1, <2>2, <2>4, StepInside DEF Inside, Labels
<1>5. CASE freeList = Null
  <2>2. local' = local /\ pc' = [pc EXCEPT ![t] = "bump"]
    BY <1>5 DEF LoadHead, Goto
  <2>3. pc'[t] = "bump"
    BY <2>2 DEF LInv, TypesOK
  <2>4. Stage(t)'
    BY <1>1, <1>2, <1>5, <2>2, <2>3 DEF Stage
  <2>5. local' = [local EXCEPT ![t] = local[t]]
    BY <2>2, OwnTypes
  <2> QED BY <1>1, <1>3, <2>2, <2>4, <2>5, OwnTypes, StepInside DEF Inside, Labels
<1> QED BY <1>4, <1>5

\* One more block drained.
LEMMA DrainOne ==
  ASSUME NEW out \in Seq(Blocks), NEW h \in Blocks, DrainedTo(out, h)
  PROVE  DrainedTo(Append(out, h), settled[1][h])
<1> DEFINE more == Append(out, h)
<1>1. /\ Len(more) = Len(out) + 1 /\ Len(out) \in Nat
      /\ \A i \in 1 .. Len(out) : more[i] = out[i]
      /\ more[Len(out) + 1] = h
  BY AppendProperties
<1> HIDE DEF more
<1>2. ASSUME NEW i \in 1 .. Len(more)
      PROVE  more[i] = IF i = 1 THEN settled[2] ELSE settled[1][more[i - 1]]
  <2>1. CASE i \in 1 .. Len(out)
    <3>1. more[i] = out[i] /\ (i # 1 => more[i - 1] = out[i - 1])
      BY <1>1, <2>1
    <3> QED BY <2>1, <3>1 DEF DrainedTo
  <2>2. CASE i = Len(out) + 1
    <3>1. more[i] = h /\ (i # 1 => i - 1 = Len(out) /\ Len(out) # 0 /\ more[i - 1] = out[i - 1])
      BY <1>1, <2>2
    <3> QED BY <1>1, <2>2, <3>1 DEF DrainedTo
  <2> QED BY <1>1, <1>2, <2>1, <2>2
<1>3. more[Len(more)] = h /\ Len(more) # 0
  BY <1>1
<1>4. DrainedTo(more, settled[1][h])
  BY <1>2, <1>3 DEF DrainedTo
<1> QED BY <1>4 DEF more

\* A popped block, by either of the calls that pop.
LEMMA PopKeeps ==
  ASSUME LInv, P!IInv, NEW t \in Threads, Pop(t)
  PROVE  LInv'
<1> DEFINE h == local[t].node
           out == Append(local[t].out, h)
           l == [local[t] EXCEPT !.out = out]
<1>1. /\ pc[t] = "pop" /\ settled' = settled /\ mine' = mine /\ mutex' = mutex
      /\ mem' = mem /\ freeList' = mem[h] /\ watermark' = watermark
      /\ freeBlockCount' = freeBlockCount
      /\ freeList # Null /\ h = freeList
  BY OwnTypes DEF Pop, At, Stage
<1>2. mem = settled[1] /\ watermark = settled[3] /\ freeBlockCount = settled[4] /\ h \in Links
  BY <1>1, OwnTypes DEF Stage, Draining, fields, Calls
<1>3. h \in Blocks /\ mem[h] \in Links /\ mem' \in [Blocks -> Links]
  BY <1>1, <1>2 DEF Links, LInv, TypesOK
<1>4. out \in Seq(Blocks) /\ Len(out) = Len(local[t].out) + 1
  BY <1>3, OwnTypes, AppendProperties
<1>5. l \in Calls /\ l.op = local[t].op /\ l.arg = local[t].arg /\ l.out = out
  BY <1>4, OwnTypes DEF Calls
<1>6. local' = [local EXCEPT ![t] = l]
  BY DEF Pop
<1>7. local'[t] = l
  BY <1>6 DEF LInv, TypesOK
<1>8. CASE local[t].op = "allocate"
  <2>1. pc' = [pc EXCEPT ![t] = "count"] /\ pc'[t] = "count"
    BY <1>8 DEF Pop, Goto, LInv, TypesOK
  <2>2. local[t].out = <<>> /\ freeList = settled[2]
    BY <1>1, <1>8, OwnTypes DEF Stage, fields
  <2>3. out = <<settled[2]>>
    BY <1>1, <2>2
  <2> HIDE DEF l, out, h
  <2>5. Stage(t)'
    <3>1. local'[t].op = "allocate" /\ local'[t].out = out
      BY <1>5, <1>7, <1>8
    <3>2. Popped(local[t].out)'
      BY <1>1, <1>2, <2>2, <2>3, <3>1 DEF Popped
    <3>3. Outcome(t)'
      BY <3>1, <3>2 DEF Outcome
    <3> QED BY <1>1, <1>2, <2>1, <3>3 DEF Stage
  <2> QED BY <1>1, <1>3, <1>5, <1>6, <2>1, <2>5, StepInside DEF Inside, Labels
<1>9. CASE local[t].op # "allocate"
  <2>1. pc' = [pc EXCEPT ![t] = "allocateBatch"] /\ pc'[t] = "allocateBatch"
    BY <1>9 DEF Pop, Goto, LInv, TypesOK
  <2>2. Draining(t) /\ Len(local[t].out) < BatchSize /\ DrainedTo(local[t].out, h)
    BY <1>1, <1>9, OwnTypes DEF Stage, Draining
  <2>3. DrainedTo(out, settled[1][h])
    BY <1>3, <2>2, OwnTypes, DrainOne
  <2>4. Len(out) <= BatchSize
    BY <1>4, <2>2, OwnTypes, LockingAssumption
  <2> HIDE DEF l, out, h
  <2>5. Draining(t)'
    <3>1. local'[t].op = "allocateBatch" /\ local'[t].out = out
      BY <1>5, <1>7, <2>2 DEF Draining
    <3>2. DrainedTo(local[t].out, freeList)'
      BY <1>1, <1>2, <2>3, <3>1 DEF DrainedTo
    <3> QED BY <1>1, <1>2, <2>4, <3>1, <3>2 DEF Draining
  <2>6. Stage(t)'
    BY <2>1, <2>5 DEF Stage
  <2> QED BY <1>1, <1>3, <1>5, <1>6, <2>1, <2>6, StepInside DEF Inside, Labels
<1> QED BY <1>8, <1>9

\* The watermark moves, if there is a virgin block.
LEMMA BumpKeeps ==
  ASSUME LInv, P!IInv, NEW t \in Threads, Bump(t)
  PROVE  LInv'
<1>1. /\ pc[t] = "bump" /\ settled' = settled /\ mine' = mine /\ mutex' = mutex
      /\ mem' = mem /\ freeList' = freeList /\ freeBlockCount' = freeBlockCount
      /\ local[t].op = "allocate" /\ local[t].out = <<>> /\ fields = settled /\ freeList = Null
  BY OwnTypes DEF Bump, At, Stage
<1>2. /\ mem = settled[1] /\ settled[2] = Null /\ watermark = settled[3] /\ freeBlockCount = settled[4]
      /\ mem' \in [Blocks -> Links] /\ watermark \in 0 .. BlockCount
  BY <1>1, SettledTypes DEF fields, LInv, TypesOK
<1>3. CASE watermark < BlockCount
  <2> DEFINE l == [local[t] EXCEPT !.out = <<watermark>>]
  <2>1. /\ watermark' = watermark + 1 /\ local' = [local EXCEPT ![t] = l]
        /\ pc' = [pc EXCEPT ![t] = "count"]
    BY <1>3 DEF Bump, Goto
  <2>2. watermark \in Blocks /\ <<watermark>> \in Seq(Blocks)
    BY <1>2, <1>3, LockingAssumption DEF Blocks
  <2>3. l \in Calls /\ l.op = local[t].op /\ l.arg = local[t].arg /\ l.out = <<watermark>>
    BY <2>2, OwnTypes DEF Calls
  <2> HIDE DEF l
  <2>4. local'[t] = l /\ pc'[t] = "count"
    BY <2>1 DEF LInv, TypesOK
  <2>5. Bumped(local[t].out)'
    BY <1>1, <1>2, <1>3, <2>1, <2>3, <2>4 DEF Bumped
  <2>6. Outcome(t)'
    BY <1>1, <2>3, <2>4, <2>5 DEF Outcome
  <2>7. Stage(t)'
    BY <1>1, <1>2, <2>4, <2>6 DEF Stage
  <2> QED BY <1>1, <1>2, <2>1, <2>3, <2>7, StepInside DEF Inside, Labels
<1>4. CASE ~(watermark < BlockCount)
  <2>1. watermark' = watermark /\ local' = local /\ pc' = [pc EXCEPT ![t] = "unlock"]
    BY <1>4 DEF Bump, Goto
  <2>2. pc'[t] = "unlock" /\ fields' = settled'
    BY <1>1, <2>1 DEF LInv, TypesOK, fields
  <2>3. settled[3] >= BlockCount
    BY <1>2, <1>4, LockingAssumption
  <2>4. Exhausted(t)'
    BY <1>1, <1>2, <2>1, <2>2, <2>3 DEF Exhausted
  <2>5. Stage(t)'
    BY <2>2, <2>4 DEF Stage
  <2>6. local' = [local EXCEPT ![t] = local[t]]
    BY <2>1, OwnTypes
  <2> QED BY <1>1, <1>2, <2>1, <2>5, <2>6, OwnTypes, StepInside DEF Inside, Labels
<1> QED BY <1>3, <1>4

\* The drain loop's test.
LEMMA DrainKeeps ==
  ASSUME LInv, P!IInv, NEW t \in Threads, Drain(t)
  PROVE  LInv'
<1>1. /\ pc[t] = "allocateBatch" /\ settled' = settled /\ mine' = mine /\ mutex' = mutex
      /\ mem' = mem /\ freeList' = freeList /\ watermark' = watermark
      /\ freeBlockCount' = freeBlockCount /\ Draining(t)
  BY OwnTypes DEF Drain, At, fields, Stage
<1>2. /\ local[t].op = "allocateBatch" /\ local[t].arg = BatchSize /\ Len(local[t].out) <= BatchSize
      /\ mem' \in [Blocks -> Links] /\ Len(local[t].out) \in Nat
  BY <1>1, OwnTypes DEF Draining, CallOK, LInv, TypesOK
<1>3. freeList \in Links
  <2>1. CASE Len(local[t].out) = 0
    BY <1>1, <2>1, SettledTypes DEF Draining, DrainedTo
  <2>2. CASE Len(local[t].out) # 0
    <3>1. local[t].out[Len(local[t].out)] \in Blocks
      BY <1>2, <2>2, OwnTypes
    <3> QED BY <1>1, <2>2, <3>1 DEF Draining, DrainedTo, LInv, TypesOK
  <2> QED BY <2>1, <2>2
<1>4. CASE Len(local[t].out) < BatchSize /\ freeList # Null
  <2> DEFINE l == [local[t] EXCEPT !.node = freeList]
  <2>1. /\ l \in Calls /\ l.op = local[t].op /\ l.arg = local[t].arg
        /\ l.out = local[t].out /\ l.node = freeList
    BY <1>3, OwnTypes DEF Calls
  <2>2. local' = [local EXCEPT ![t] = l] /\ pc' = [pc EXCEPT ![t] = "pop"]
    BY <1>2, <1>4 DEF Drain, Goto
  <2> HIDE DEF l
  <2>3. local'[t] = l /\ pc'[t] = "pop"
    BY <2>2 DEF LInv, TypesOK
  <2>4. Draining(t)'
    BY <1>1, <2>1, <2>3 DEF Draining, DrainedTo
  <2>5. Stage(t)'
    BY <1>1, <1>2, <1>4, <2>1, <2>3, <2>4 DEF Stage
  <2> QED BY <1>1, <1>2, <2>1, <2>2, <2>5, StepInside DEF Inside, Labels
<1>5. CASE ~(Len(local[t].out) < BatchSize /\ freeList # Null)
  <2>1. local' = local /\ pc' = [pc EXCEPT ![t] = "take"]
    BY <1>2, <1>5 DEF Drain, Goto
  <2>2. pc'[t] = "take" /\ Draining(t)'
    BY <1>1, <2>1 DEF LInv, TypesOK, Draining, DrainedTo
  <2>3. Len(local[t].out) = BatchSize \/ freeList = Null
    BY <1>2, <1>5, LockingAssumption
  <2>4. Stage(t)'
    BY <1>1, <2>1, <2>2, <2>3 DEF Stage
  <2>5. local' = [local EXCEPT ![t] = local[t]]
    BY <2>1, OwnTypes
  <2> QED BY <1>1, <1>2, <2>1, <2>4, <2>5, OwnTypes, StepInside DEF Inside, Labels
<1> QED BY <1>4, <1>5

\* What was drained with the virgin blocks behind it.
LEMMA TakenAfter ==
  ASSUME P!IInv, NEW d \in Seq(Blocks), Len(d) <= BatchSize, NEW n, n = Missing(Len(d))
  PROVE  /\ n \in 0 .. BlockCount - settled[3]
         /\ d \o [i \in 1 .. n |-> settled[3] + i - 1] = Issued(d, n)
         /\ Issued(d, n) \in Seq(Blocks) /\ Len(Issued(d, n)) = Len(d) + n
<1> DEFINE w == settled[3]
<1>1. Len(d) \in Nat /\ w \in 0 .. BlockCount /\ BlockCount \in Nat /\ BatchSize \in Nat
  BY SettledTypes, LockingAssumption
<1>2. n \in 0 .. BlockCount - w
  BY <1>1 DEF Missing
<1> HIDE DEF w
<1> DEFINE v == [i \in 1 .. n |-> w + i - 1]
           s == d \o v
<1>3. v \in Seq(Blocks) /\ Len(v) = n
  <2>1. \A i \in 1 .. n : w + i - 1 \in Blocks
    BY <1>1, <1>2 DEF Blocks
  <2>2. n \in Nat
    BY <1>1, <1>2
  <2> QED BY <2>1, <2>2
<1>4. s \in Seq(Blocks) /\ Len(s) = Len(d) + n
      /\ \A i \in 1 .. Len(d) + n : s[i] = IF i <= Len(d) THEN d[i] ELSE v[i - Len(d)]
  <2> HIDE DEF v
  <2> QED BY <1>3, ConcatProperties
<1>5. \A i \in 1 .. Len(d) + n : i > Len(d) => v[i - Len(d)] = w + (i - Len(d) - 1)
  <2> SUFFICES ASSUME NEW i \in 1 .. Len(d) + n, i > Len(d)
               PROVE  v[i - Len(d)] = w + (i - Len(d) - 1)
    OBVIOUS
  <2>1. i - Len(d) \in 1 .. n
    BY <1>1, <1>2
  <2> QED BY <1>1, <2>1
<1> HIDE DEF v
<1>6. s = [i \in 1 .. Len(d) + n |-> IF i <= Len(d) THEN d[i] ELSE w + (i - Len(d) - 1)]
  <2> HIDE DEF s
  <2>1. \A i \in 1 .. Len(d) + n : s[i] = IF i <= Len(d) THEN d[i] ELSE w + (i - Len(d) - 1)
    BY <1>1, <1>2, <1>4, <1>5
  <2>2. s = [i \in 1 .. Len(d) + n |-> s[i]]
    BY <1>4, LenProperties
  <2> QED BY <2>1, <2>2
<1>7. s = Issued(d, n)
  BY <1>6 DEF Issued, w
<1> QED BY <1>2, <1>4, <1>7 DEF v, w

\* The rest of a batch is taken from the virgin blocks.
LEMMA TakeKeeps ==
  ASSUME LInv, P!IInv, NEW t \in Threads, Take(t)
  PROVE  LInv'
<1> DEFINE d == local[t].out
           n == Missing(Len(d))
           out == d \o [i \in 1 .. n |-> settled[3] + i - 1]
           l == [local[t] EXCEPT !.out = out]
<1>1. /\ pc[t] = "take" /\ settled' = settled /\ mine' = mine /\ mutex' = mutex
      /\ mem' = mem /\ freeList' = freeList /\ freeBlockCount' = freeBlockCount
      /\ Draining(t) /\ (Len(d) = BatchSize \/ freeList = Null)
      /\ pc' = [pc EXCEPT ![t] = "count"]
  BY OwnTypes DEF Take, At, Stage, Goto
<1>2. /\ local[t].op = "allocateBatch" /\ local[t].arg = BatchSize /\ d \in Seq(Blocks)
      /\ Len(d) <= BatchSize /\ DrainedTo(d, freeList)
      /\ mem = settled[1] /\ watermark = settled[3] /\ freeBlockCount = settled[4]
      /\ mem' \in [Blocks -> Links]
  BY <1>1, OwnTypes DEF Draining, CallOK, LInv, TypesOK
<1>3. watermark' = settled[3] + n /\ local' = [local EXCEPT ![t] = l]
  BY <1>2 DEF Take, Missing
<1>4. out = Issued(d, n) /\ out \in Seq(Blocks)
  BY <1>2, TakenAfter
<1>5. l \in Calls /\ l.op = local[t].op /\ l.arg = local[t].arg /\ l.out = out
  BY <1>4, OwnTypes DEF Calls
<1>6. local'[t] = l /\ pc'[t] = "count"
  BY <1>1, <1>3 DEF LInv, TypesOK
<1> HIDE DEF l, out, n, d
<1>7. Batched(local[t].out)'
  <2>1. PICK e \in Seq(Blocks) : e = d
    BY <1>2
  <2>2. PICK q : q = n
    OBVIOUS
  <2>3. Missing(Len(e))' = q /\ Issued(e, q)' = out
    <3>1. Missing(Len(e)) = q /\ Issued(e, q) = out
      BY <1>4, <2>1, <2>2 DEF n
    <3> QED BY <1>1, <3>1 DEF Issued, Missing
  <2>4. DrainedTo(e, freeList)'
    BY <1>1, <1>2, <2>1 DEF DrainedTo
  <2>5. Len(e) <= BatchSize /\ (Len(e) = BatchSize \/ freeList' = Null)
        /\ watermark' = settled'[3] + q /\ mem' = settled'[1] /\ local'[t].out = out
    BY <1>1, <1>2, <1>3, <1>5, <1>6, <2>1, <2>2
  <2> QED BY <2>3, <2>4, <2>5 DEF Batched
<1>8. Stage(t)'
  BY <1>1, <1>2, <1>5, <1>6, <1>7 DEF Stage, Outcome
<1> QED BY <1>1, <1>2, <1>3, <1>5, <1>8, StepInside DEF Inside, Labels

\* deallocate() stores the old head into the block, then the block as the head.
LEMMA LinkKeeps ==
  ASSUME LInv, P!IInv, NEW t \in Threads, Link(t) \/ StoreHead(t)
  PROVE  LInv'
<1>1. /\ settled' = settled /\ mine' = mine /\ mutex' = mutex /\ local' = local
      /\ watermark' = watermark /\ freeBlockCount' = freeBlockCount
      /\ local' = [local EXCEPT ![t] = local[t]]
  BY OwnTypes DEF Link, StoreHead, At
<1>2. CASE Link(t)
  <2>1. /\ pc[t] = "deallocate" /\ mem' = [mem EXCEPT ![local[t].arg] = freeList]
        /\ freeList' = freeList /\ pc' = [pc EXCEPT ![t] = "head"]
        /\ local[t].op = "deallocate" /\ local[t].out = <<>> /\ fields = settled
    BY <1>2, OwnTypes DEF Link, At, Goto, Stage
  <2>2. local[t].arg \in Blocks
    BY <2>1, OwnTypes DEF CallOK, LInv, TypesOK
  <2>3. /\ mem = settled[1] /\ freeList = settled[2] /\ watermark = settled[3]
        /\ freeBlockCount = settled[4] /\ freeList \in Links /\ pc'[t] = "head"
    BY <2>1, SettledTypes DEF fields, LInv, TypesOK
  <2>4. mem' \in [Blocks -> Links]
    BY <2>1, <2>2, <2>3 DEF LInv, TypesOK
  <2>5. Stage(t)'
    BY <1>1, <2>1, <2>3 DEF Stage
  <2> QED BY <1>1, <2>1, <2>4, <2>5, OwnTypes, StepInside DEF Inside, Labels
<1>3. CASE StoreHead(t)
  <2>1. /\ pc[t] = "head" /\ mem' = mem /\ freeList' = local[t].arg
        /\ pc' = [pc EXCEPT ![t] = "count"]
    BY <1>3 DEF StoreHead, At, Goto
  <2>2. /\ local[t].op = "deallocate" /\ local[t].out = <<>>
        /\ mem = [settled[1] EXCEPT ![local[t].arg] = settled[2]]
        /\ watermark = settled[3] /\ freeBlockCount = settled[4]
        /\ pc'[t] = "count" /\ mem' \in [Blocks -> Links]
    BY <2>1, OwnTypes DEF Stage, LInv, TypesOK
  <2>3. Linked(local[t].arg)'
    BY <1>1, <2>1, <2>2 DEF Linked
  <2>4. Outcome(t)'
    BY <1>1, <2>2, <2>3 DEF Outcome
  <2>5. Stage(t)'
    BY <1>1, <2>2, <2>4 DEF Stage
  <2> QED BY <1>1, <2>1, <2>2, <2>5, OwnTypes, StepInside DEF Inside, Labels
<1> QED BY <1>2, <1>3

\* What is reached does not change while the counter is loaded and stored.
LEMMA OutcomeStays ==
  ASSUME NEW t \in Threads, Outcome(t), mem' = mem, freeList' = freeList, watermark' = watermark,
         settled' = settled, local'[t].op = local[t].op, local'[t].arg = local[t].arg,
         local'[t].out = local[t].out
  PROVE  Outcome(t)'
<1>2. CASE local[t].op = "allocate"
  BY <1>2 DEF Outcome, Popped, Bumped
<1>3. CASE local[t].op = "deallocate"
  BY <1>3 DEF Outcome, Linked
<1>4. CASE local[t].op = "allocateBatch"
  BY <1>4 DEF Outcome, Batched, DrainedTo, Issued, Missing
<1>5. CASE local[t].op \notin {"allocate", "deallocate", "allocateBatch"}
  BY <1>5 DEF Outcome
<1> QED BY <1>2, <1>3, <1>4, <1>5

\* freeBlockCount_ is loaded.
LEMMA LoadCountKeeps ==
  ASSUME LInv, P!IInv, NEW t \in Threads, LoadCount(t)
  PROVE  LInv'
<1> DEFINE l == [local[t] EXCEPT !.count = freeBlockCount]
<1>1. /\ pc[t] = "count" /\ settled' = settled /\ mine' = mine /\ mutex' = mutex
      /\ mem' = mem /\ freeList' = freeList /\ watermark' = watermark
      /\ freeBlockCount' = freeBlockCount /\ Outcome(t) /\ freeBlockCount = settled[4]
      /\ local' = [local EXCEPT ![t] = l] /\ pc' = [pc EXCEPT ![t] = "store"]
  BY OwnTypes DEF LoadCount, At, Goto, fields, Stage
<1>2. freeBlockCount \in Int /\ mem' \in [Blocks -> Links]
  BY <1>1, SettledTypes, LockingAssumption DEF LInv, TypesOK
<1>3. /\ l \in Calls /\ l.op = local[t].op /\ l.arg = local[t].arg /\ l.out = local[t].out
      /\ l.count = freeBlockCount
  BY <1>2, OwnTypes DEF Calls
<1> HIDE DEF l
<1>4. local'[t] = l /\ pc'[t] = "store"
  BY <1>1 DEF LInv, TypesOK
<1>5. Outcome(t)'
  BY <1>1, <1>3, <1>4, OutcomeStays
<1>6. Stage(t)'
  BY <1>1, <1>3, <1>4, <1>5 DEF Stage
<1> QED BY <1>1, <1>2, <1>3, <1>6, StepInside DEF Inside, Labels

\* freeBlockCount_ is stored.
LEMMA StoreCountKeeps ==
  ASSUME LInv, P!IInv, NEW t \in Threads, StoreCount(t)
  PROVE  LInv'
<1>1. /\ pc[t] = "store" /\ settled' = settled /\ mine' = mine /\ mutex' = mutex
      /\ mem' = mem /\ freeList' = freeList /\ watermark' = watermark /\ local' = local
      /\ Outcome(t) /\ local[t].count = settled[4]
      /\ pc' = [pc EXCEPT ![t] = "unlock"] /\ local' = [local EXCEPT ![t] = local[t]]
  BY OwnTypes DEF StoreCount, At, Goto, Stage
<1>2. freeBlockCount' = NewCount(t)' /\ pc'[t] = "unlock" /\ mem' \in [Blocks -> Links]
  BY <1>1 DEF StoreCount, NewCount, LInv, TypesOK
<1>3. Outcome(t)'
  BY <1>1, OutcomeStays
<1>4. Stage(t)'
  BY <1>2, <1>3 DEF Stage
<1> QED BY <1>1, <1>2, <1>4, OwnTypes, StepInside DEF Inside, Labels

---------------------------------------------------------------------------
(* The steps between calls.                                                *)

\* A thread picks a call.
LEMMA CallKeeps ==
  ASSUME LInv, P!IInv, NEW t \in Threads, Call(t)
  PROVE  LInv'
<1>1. /\ pc[t] = "idle" /\ settled' = settled /\ mine' = mine /\ mutex' = mutex
      /\ mem' = mem /\ fields' = fields /\ pc' = [pc EXCEPT ![t] = "lock"]
  BY DEF Call, At, Goto, fields
<1>2. PICK l \in Calls : /\ local' = [local EXCEPT ![t] = l] /\ l.out = <<>>
                         /\ l.op = "deallocate" => l.arg \in mine[t]
                         /\ l.op = "allocateBatch" => l.arg = BatchSize
  <2> DEFINE Fits(l) == /\ l \in Calls /\ l.out = <<>>
                        /\ l.op = "deallocate" => l.arg \in mine[t]
                        /\ l.op = "allocateBatch" => l.arg = BatchSize
  <2>1. Fits(NewCall("allocate", Null)) /\ Fits(NewCall("allocateBatch", BatchSize))
    BY LockingAssumption DEF NewCall, Calls, Links
  <2>2. \A b \in mine[t] : Fits(NewCall("deallocate", b))
    BY LockingAssumption DEF NewCall, Calls, Links, LInv, TypesOK, Blocks
  <2> QED BY <2>1, <2>2 DEF Call
<1>3. /\ pc'[t] = "lock" /\ local'[t] = l
      /\ \A u \in Threads : u # t => pc'[u] = pc[u] /\ local'[u] = local[u]
  BY <1>1, <1>2 DEF LInv, TypesOK
<1>4. TypesOK' /\ Apart'
  BY <1>1, <1>2 DEF LInv, TypesOK, Apart, Labels
<1>5. Exclusive' /\ (mutex' = None => fields' = settled')
  BY <1>1, <1>3 DEF LInv, Exclusive, Inside
<1>6. CallOK(t)' /\ Stage(t)'
  BY <1>1, <1>2, <1>3 DEF CallOK, Stage
<1>7. ASSUME NEW u \in Threads, u # t PROVE CallOK(u)' /\ Stage(u)'
  <2>1. CallOK(u) /\ Stage(u) /\ pc'[u] = pc[u] /\ local'[u] = local[u]
    BY <1>3, <1>7 DEF LInv
  <2>2. /\ mem' = mem /\ freeList' = freeList /\ watermark' = watermark
        /\ freeBlockCount' = freeBlockCount
    BY <1>1 DEF fields
  <2>3. CallOK(u)'
    BY <1>1, <2>1 DEF CallOK
  <2>4. Outcome(u) => Outcome(u)'
    BY <1>1, <2>1, <2>2, <1>7, OutcomeStays
  <2>5. Stage(u)'
    BY <1>1, <2>1, <2>2, <2>4 DEF Stage, Draining, DrainedTo, Exhausted, NewCount
  <2> QED BY <2>3, <2>5
<1> QED BY <1>4, <1>5, <1>6, <1>7 DEF LInv

\* The mutex admits a thread.
LEMMA LockKeeps ==
  ASSUME LInv, P!IInv, NEW t \in Threads, Lock(t)
  PROVE  LInv'
<1>1. /\ pc[t] = "lock" /\ mutex = None /\ mutex' = t /\ pc' = [pc EXCEPT ![t] = local[t].op]
      /\ UNCHANGED <<fields, local, mine, settled>> /\ fields = settled
      /\ local[t].out = <<>>
  BY OwnTypes DEF Lock, Goto, LInv, Stage
<1>2. /\ mem' = mem /\ freeList' = freeList /\ watermark' = watermark /\ freeBlockCount' = freeBlockCount
      /\ mem = settled[1] /\ freeList = settled[2] /\ watermark = settled[3]
      /\ freeBlockCount = settled[4] /\ fields' = settled'
  BY <1>1 DEF fields
<1>3. /\ pc'[t] = local[t].op /\ local[t].op \in {"allocate", "deallocate", "allocateBatch"}
      /\ \A u \in Threads : u # t => pc'[u] = pc[u]
  BY <1>1, OwnTypes DEF LInv, TypesOK
<1>4. TypesOK' /\ Apart'
  BY <1>1, <1>2, <1>3 DEF LInv, TypesOK, Apart, Labels
<1>5. \A u \in Threads : pc[u] \in {"idle", "lock"}
  BY <1>1, LockingAssumption DEF LInv, Exclusive, TypesOK, Inside
<1>6. Exclusive' /\ mutex' # None
  BY <1>1, <1>3, <1>5, LockingAssumption DEF LInv, Exclusive, Inside, Labels
<1>7. CallOK(t)' /\ Stage(t)'
  <2>1. CallOK(t)'
    BY <1>1, OwnTypes DEF CallOK
  <2>2. DrainedTo(<<>>, settled[2])
    BY DrainStart
  <2>3. local[t].op = "allocateBatch" => Draining(t)'
    BY <1>1, <1>2, <2>2, LockingAssumption DEF Draining, DrainedTo
  <2>4. Stage(t)'
    BY <1>1, <1>2, <1>3, <2>3 DEF Stage
  <2> QED BY <2>1, <2>4
<1>8. ASSUME NEW u \in Threads, u # t PROVE CallOK(u)' /\ Stage(u)'
  BY <1>1, <1>3, <1>5, <1>8 DEF LInv, CallOK, Stage
<1> QED BY <1>4, <1>6, <1>7, <1>8 DEF LInv

\* What a thread holds after its call.
LEMMA HeldAfter ==
  ASSUME LInv, NEW t \in Threads, Unlock(t)
  PROVE  LET before == UNION {mine[u] : u \in Threads}
             after  == UNION {mine'[u] : u \in Threads}
         IN  /\ mine'[t] = Keeps(t) /\ \A u \in Threads : u # t => mine'[u] = mine[u]
             /\ local[t].op = "deallocate" => after = before \ {local[t].arg}
             /\ local[t].op # "deallocate" => after = before \cup Range(local[t].out)
<1> DEFINE before == UNION {mine[u] : u \in Threads}
           after  == UNION {mine'[u] : u \in Threads}
<1>1. mine'[t] = Keeps(t) /\ \A u \in Threads : u # t => mine'[u] = mine[u]
  BY DEF Unlock, LInv, TypesOK
<1>2. CASE local[t].op = "deallocate"
  <2>1. local[t].arg \in mine[t]
    BY <1>2, OwnTypes DEF CallOK, Unlock
  <2>2. \A u \in Threads : u # t => local[t].arg \notin mine[u]
    BY <2>1 DEF LInv, Apart
  <2>3. after = before \ {local[t].arg}
    BY <1>1, <1>2, <2>2 DEF Keeps
  <2> QED BY <1>1, <1>2, <2>3
<1>3. CASE local[t].op # "deallocate"
  <2>1. after = before \cup Range(local[t].out)
    BY <1>1, <1>3 DEF Keeps
  <2> QED BY <1>1, <1>3, <2>1
<1> QED BY <1>2, <1>3

\* A call that has ended, seen as a whole, is the call of module Pool.
LEMMA UnlockIsCall ==
  ASSUME LInv, P!IInv, NEW t \in Threads, Unlock(t)
  PROVE  \/ P!Allocate
         \/ \E b \in UNION {mine[u] : u \in Threads} : local[t].op = "deallocate" /\ P!Deallocate(b)
         \/ P!AllocateBatch(BatchSize)
<1> DEFINE Held == UNION {mine[u] : u \in Threads}
           out == local[t].out
<1>1. /\ pc[t] = "unlock" /\ ret' = out /\ settled' = fields
      /\ settled'[1] = mem /\ settled'[2] = freeList
      /\ settled'[3] = watermark /\ settled'[4] = freeBlockCount
  BY DEF Unlock, fields
<1>2. /\ (local[t].op = "deallocate" => Held' = Held \ {local[t].arg})
      /\ (local[t].op # "deallocate" => Held' = Held \cup Range(out))
  BY HeldAfter
<1>3. /\ settled[2] \in Links /\ settled[3] \in 0 .. BlockCount /\ settled[4] \in 0 .. BlockCount
      /\ local[t].op \in {"allocate", "deallocate", "allocateBatch"}
      /\ out \in Seq(Blocks)
      /\ (Outcome(t) /\ freeBlockCount = NewCount(t)) \/ Exhausted(t)
  BY <1>1, SettledTypes, OwnTypes DEF Stage
<1>4. CASE Exhausted(t)
  <2>1. Held' = Held /\ settled' = settled /\ ret' = <<>> /\ settled[2] = Null /\ settled[3] >= BlockCount
    <3>1. /\ local[t].op = "allocate" /\ out = <<>> /\ settled' = settled
          /\ settled[2] = Null /\ settled[3] >= BlockCount
      BY <1>1, <1>4 DEF Exhausted
    <3>2. Range(out) = {}
      BY <3>1 DEF Range
    <3> HIDE DEF Held, out
    <3> QED BY <1>1, <1>2, <3>1, <3>2
  <2> QED BY <2>1 DEF P!Allocate, P!Exhausted, P!arena
<1>5. CASE Outcome(t) /\ freeBlockCount = NewCount(t) /\ local[t].op = "allocate"
  <2>1. PICK b \in Blocks : out = <<b>> /\ P!AcquireBlock(b)
    <3>1. CASE Popped(out)
      <4>1. settled[2] \in Blocks /\ Len(out) = 1
        BY <1>3, <3>1 DEF Popped, Links
      <4>2. P!AcquireBlock(settled[2])
        BY <1>1, <1>5, <3>1, <4>1 DEF Popped, NewCount, P!AcquireBlock, P!PopFreeList
      <4> QED BY <3>1, <4>1, <4>2 DEF Popped
    <3>2. CASE Bumped(out)
      <4>1. settled[3] \in Blocks /\ Len(out) = 1
        BY <1>3, <3>2, LockingAssumption DEF Bumped, Blocks
      <4>2. P!AcquireBlock(settled[3])
        BY <1>1, <1>5, <3>2, <4>1 DEF Bumped, NewCount, P!AcquireBlock, P!BumpWatermark
      <4> QED BY <3>2, <4>1, <4>2 DEF Bumped
    <3> QED BY <1>5, <3>1, <3>2 DEF Outcome
  <2>2. Range(out) = {b} /\ Held' = Held \cup {b} /\ ret' = <<b>>
    BY <1>1, <1>2, <1>5, <2>1 DEF Range
  <2>3. b \in P!Blocks
    BY SameSets
  <2> QED BY <2>1, <2>2, <2>3 DEF P!Allocate, P!StatAlloc
<1>6. CASE Outcome(t) /\ freeBlockCount = NewCount(t) /\ local[t].op = "deallocate"
  <2>1. PICK b \in Blocks : b = local[t].arg /\ b \in Held
    BY <1>1, <1>6, OwnTypes DEF CallOK, LInv, TypesOK
  <2>2. Linked(b) /\ out = <<>>
    BY <1>6, <2>1 DEF Outcome
  <2> HIDE DEF out
  <2>3. P!ReleaseBlock(b)
    BY <1>1, <1>6, <2>2 DEF Linked, NewCount, P!ReleaseBlock
  <2>4. P!DeallocateOwned(b)
    BY <1>1, <1>2, <1>6, <2>1, <2>2, <2>3, SameSets DEF P!DeallocateOwned, P!Owns, P!StatDealloc
  <2>5. P!Deallocate(b)
    BY <2>4 DEF P!Deallocate
  <2> QED BY <1>6, <2>1, <2>5
<1>7. CASE Outcome(t) /\ freeBlockCount = NewCount(t) /\ local[t].op = "allocateBatch"
  <2>1. PICK d \in Seq(Blocks) :
          /\ Len(d) <= BatchSize /\ DrainedTo(d, freeList)
          /\ Len(d) = BatchSize \/ freeList = Null
          /\ out = Issued(d, Missing(Len(d)))
          /\ watermark = settled[3] + Missing(Len(d))
          /\ mem = settled[1]
    BY <1>7 DEF Outcome, Batched
  <2> DEFINE k == Len(d)
             take == Missing(k)
  <2>2. k \in 0 .. BatchSize /\ d \in [1 .. k -> Blocks] /\ Len(out) = k + take
        /\ take = P!TakeVirgin(k, BatchSize) /\ k \in Nat
    <3>1. k \in Nat /\ k \in 0 .. BatchSize /\ d \in [1 .. k -> Blocks]
      BY <2>1, LenProperties, LockingAssumption
    <3>2. Len(out) = k + take
      BY <2>1, <3>1, TakenAfter
    <3>3. take = P!TakeVirgin(k, BatchSize)
      BY DEF Missing, P!TakeVirgin
    <3> QED BY <3>1, <3>2, <3>3
  <2>3. freeList \in Links
    <3>1. CASE k = 0
      BY <1>3, <2>1, <3>1 DEF DrainedTo
    <3>2. CASE k # 0
      BY <2>1, <2>2, <3>2 DEF DrainedTo, LInv, TypesOK
    <3> QED BY <3>1, <3>2
  <2>4. P!Drained(d, freeList, BatchSize)
    <3>1. DOMAIN d = 1 .. Len(d) /\ (d = <<>> <=> Len(d) = 0)
      BY <2>2
    <3> QED BY <2>1, <3>1 DEF DrainedTo, P!Drained
  <2>5. ret' = [i \in 1 .. k + take |-> IF i <= k THEN d[i] ELSE settled[3] + (i - k - 1)]
    BY <1>1, <2>1 DEF Issued
  <2>6. Held' = Held \cup P!Range(ret')
    BY <1>1, <1>2, <1>7 DEF Range, P!Range
  <2>7. settled'[4] = settled[4] - (k + take)
    BY <1>1, <1>7, <2>2 DEF NewCount
  <2> HIDE DEF k, take
  <2>8. /\ settled'[2] = freeList /\ settled'[3] = settled[3] + take /\ settled'[1] = settled[1]
    BY <1>1, <2>1 DEF take, k
  <2>9. freeList \in P!Blocks \cup {Null} /\ d \in [1 .. k -> P!Blocks]
    BY <2>2, <2>3, SameSets DEF Links
  <2> QED BY <2>2, <2>4, <2>5, <2>6, <2>7, <2>8, <2>9 DEF P!AllocateBatch, P!StatAlloc
<1> QED BY <1>3, <1>4, <1>5, <1>6, <1>7

\* The end of a call leaves the pool settled, and no block with two threads:
\* what a call hands out was with none.
LEMMA UnlockKeeps ==
  ASSUME LInv, P!IInv, NEW t \in Threads, Unlock(t)
  PROVE  LInv'
<1> DEFINE Held == UNION {mine[u] : u \in Threads}
           out == local[t].out
<1>1. /\ pc[t] = "unlock" /\ ret' = out /\ settled' = fields /\ mutex' = None
      /\ UNCHANGED <<mem, freeList, watermark, freeBlockCount, local>>
      /\ pc' = [pc EXCEPT ![t] = "idle"] /\ fields' = fields
  BY DEF Unlock, Goto, fields
<1>2. /\ mine'[t] = Keeps(t) /\ \A u \in Threads : u # t => mine'[u] = mine[u]
      /\ pc'[t] = "idle" /\ \A u \in Threads : u # t => pc'[u] = pc[u]
  BY <1>1, HeldAfter DEF LInv, TypesOK
<1>3. out \in Seq(Blocks) /\ Range(out) \in SUBSET Blocks
  BY OwnTypes, RangeOfSeq
<1>4. TypesOK'
  <2>1. settled' = <<mem, freeList, watermark, freeBlockCount>>
    BY <1>1 DEF fields
  <2>2. Keeps(t) \in SUBSET Blocks
    BY <1>3 DEF Keeps, LInv, TypesOK
  <2> DEFINE kept == Keeps(t)
  <2>3. mine' = [mine EXCEPT ![t] = kept]
    BY DEF Unlock
  <2> HIDE DEF kept
  <2>4. mine' \in [Threads -> SUBSET Blocks]
    BY <2>2, <2>3 DEF kept, LInv, TypesOK
  <2>5. /\ settled' = <<settled'[1], settled'[2], settled'[3], settled'[4]>>
        /\ settled'[1] = mem
    BY <2>1
  <2>6. mem' \in [Blocks -> Links] /\ settled'[1] \in [Blocks -> Links] /\ local' \in [Threads -> Calls]
    BY <1>1, <2>5 DEF LInv, TypesOK
  <2>7. mutex' \in Threads \cup {None} /\ pc' \in [Threads -> Labels]
    BY <1>1 DEF LInv, TypesOK, Labels
  <2> QED BY <2>4, <2>5, <2>6, <2>7 DEF TypesOK
<1>5. \A u \in Threads : u # t => pc[u] \in {"idle", "lock"}
  BY <1>1 DEF LInv, Exclusive, TypesOK, Inside, Labels
<1>6. Exclusive' /\ fields' = settled'
  BY <1>1, <1>2, <1>5, LockingAssumption DEF Exclusive, Inside
<1>7. local[t].op # "deallocate" => Range(out) \cap Held = {}
  <2>1. P!Allocate \/ P!AllocateBatch(BatchSize) => P!Range(ret') \cap Held = {}
    BY Assumed, P!IssueStep
  <2>2. local[t].op # "deallocate" => P!Allocate \/ P!AllocateBatch(BatchSize)
    BY UnlockIsCall
  <2> QED BY <1>1, <2>1, <2>2 DEF Range, P!Range
<1>8. Apart'
  <2> SUFFICES ASSUME NEW u \in Threads, u # t
               PROVE  mine'[t] \cap mine[u] = {}
    BY <1>2 DEF LInv, Apart
  <2>1. CASE local[t].op = "deallocate"
    BY <1>2, <2>1 DEF LInv, Apart, Keeps
  <2>2. CASE local[t].op # "deallocate"
    BY <1>2, <1>7, <2>2 DEF LInv, Apart, Keeps
  <2> QED BY <2>1, <2>2
<1>9. CallOK(t)' /\ Stage(t)'
  BY <1>2 DEF CallOK, Stage
<1>10. ASSUME NEW u \in Threads, u # t PROVE CallOK(u)' /\ Stage(u)'
  BY <1>1, <1>2, <1>5, <1>10 DEF LInv, CallOK, Stage
<1> QED BY <1>4, <1>6, <1>8, <1>9, <1>10 DEF LInv

---------------------------------------------------------------------------
(* The threads' steps, as steps of one pool.                               *)

\* A thread's step keeps the invariant, and is a call of the pool or none.
LEMMA StepLInv ==
  ASSUME LInv, P!IInv, [Next]_vars
  PROVE  /\ LInv'
         /\ P!Next \/ UNCHANGED P!vars
         /\ Atomic!Next \/ UNCHANGED Atomic!vars
<1>1. ASSUME NEW t \in Threads, Unlock(t)
      PROVE  LInv' /\ P!Next /\ Atomic!Next
  <2>2. BatchSize \in 0 .. BatchSize
    BY LockingAssumption
  <2>3. CASE P!Allocate
    BY <1>1, <2>3, UnlockKeeps, SameActions DEF P!Next, Atomic!Next
  <2>4. CASE \E b \in UNION {mine[u] : u \in Threads} : P!Deallocate(b)
    <3> PICK b \in UNION {mine[u] : u \in Threads} : P!Deallocate(b)
      BY <2>4
    <3>1. Atomic!Deallocate(b)
      BY SameActions
    <3>2. /\ \E p \in (UNION {mine[u] : u \in Threads}) \cup {Null} \cup {} : P!Deallocate(p)
          /\ \E p \in (UNION {mine[u] : u \in Threads}) \cup {Null} \cup {} : Atomic!Deallocate(p)
      BY <3>1, Zenon
    <3>3. P!Next /\ Atomic!Next
      BY <3>2 DEF P!Next, Atomic!Next
    <3> QED BY <1>1, <3>3, UnlockKeeps
  <2>5. CASE P!AllocateBatch(BatchSize)
    <3>1. Atomic!AllocateBatch(BatchSize)
      BY <2>5, SameActions
    <3>2. P!Next /\ Atomic!Next
      BY <2>2, <2>5, <3>1 DEF P!Next, Atomic!Next
    <3> QED BY <1>1, <3>2, UnlockKeeps
  <2> QED BY <1>1, <2>3, <2>4, <2>5, UnlockIsCall
<1>2. ASSUME NEW t \in Threads, Step(t), ~ Unlock(t)
      PROVE  LInv' /\ settled' = settled /\ mine' = mine /\ ret' = ret
  <2>1. LInv'
    BY <1>2, CallKeeps, LockKeeps, LoadHeadKeeps, PopKeeps, BumpKeeps, DrainKeeps, TakeKeeps,
       LinkKeeps, LoadCountKeeps, StoreCountKeeps DEF Step
  <2>2. settled' = settled /\ mine' = mine /\ ret' = ret
    BY <1>2 DEF Step, Call, Lock, LoadHead, Pop, Bump, Drain, Take, Link, StoreHead,
                LoadCount, StoreCount, At
  <2> QED BY <2>1, <2>2
<1>3. CASE UNCHANGED vars
  <2>1. /\ UNCHANGED <<mem, freeList, watermark, freeBlockCount>>
        /\ UNCHANGED <<mutex, pc, local, mine, ret, settled>> /\ fields' = fields
    BY <1>3 DEF vars, fields
  <2>2. (TypesOK /\ Exclusive /\ Apart /\ (mutex = None => fields = settled))'
    BY <2>1 DEF LInv, TypesOK, Exclusive, Apart
  <2>3. ASSUME NEW u \in Threads PROVE CallOK(u)' /\ Stage(u)'
    <3>1. CallOK(u) /\ Stage(u)
      BY <2>3 DEF LInv
    <3>2. Outcome(u) => Outcome(u)'
      BY <2>1, OutcomeStays
    <3>3. CallOK(u)' /\ Stage(u)'
      BY <2>1, <3>1, <3>2 DEF CallOK, Stage, Draining, DrainedTo, Exhausted, NewCount
    <3> QED BY <3>3
  <2>4. LInv'
    BY <2>2, <2>3 DEF LInv
  <2> QED BY <2>1, <2>4 DEF P!vars, Atomic!vars
<1>4. CASE Next
  BY <1>1, <1>2, <1>4 DEF Next, P!vars, Atomic!vars
<1> QED BY <1>3, <1>4

\* At first no call has begun.
LEMMA InitLInv ==
  ASSUME Init
  PROVE  LInv /\ P!Init /\ Atomic!Init
<1>1. /\ mem \in [Blocks -> Links] /\ settled = <<mem, freeList, watermark, freeBlockCount>>
      /\ settled[1] = mem /\ settled[2] = Null /\ settled[3] = 0 /\ settled[4] = BlockCount
  BY DEF Init, fields, Links
<1>2. NewCall("allocate", Null) \in Calls
  BY DEF NewCall, Calls, Links
<1>3. TypesOK
  BY <1>1, <1>2 DEF Init, TypesOK, Labels
<1>4. LInv
  BY <1>1, <1>3, LockingAssumption DEF Init, LInv, Exclusive, Apart, CallOK, Stage, Inside, fields
<1>5. UNION {mine[t] : t \in Threads} = {}
  BY DEF Init
<1>6. P!Init /\ Atomic!Init
  BY <1>1, <1>5, SameSets
  DEF Init, P!Init, Atomic!Init, P!Words, Atomic!Words, P!ZeroStats, Atomic!ZeroStats, Links
<1> QED BY <1>4, <1>6

\* The threads' calls, interleaved access by access, are the calls of one pool.
THEOREM CallsCorrect == Spec => CallsAreAtomic
<1>1. ASSUME Init PROVE LInv /\ P!IInv /\ Atomic!Init
  BY <1>1, InitLInv, Assumed, P!InitIInv
<1>2. ASSUME LInv, P!IInv, [Next]_vars PROVE (LInv /\ P!IInv)' /\ [Atomic!Next]_(Atomic!vars)
  <2>1. P!IInv'
    BY <1>2, StepLInv, Assumed, P!NextIInv
  <2> QED BY <1>2, <2>1, StepLInv
<1> QED BY <1>1, <1>2, PTL DEF Spec, CallsAreAtomic, Atomic!Spec

\* No block is with two threads, and no update of the counter is lost.
THEOREM CountsCorrect == Spec => []CountsAddUp
<1>1. ASSUME Init PROVE LInv /\ P!IInv
  BY <1>1, InitLInv, Assumed, P!InitIInv
<1>2. ASSUME LInv, P!IInv, [Next]_vars PROVE (LInv /\ P!IInv)'
  BY <1>2, StepLInv, Assumed, P!NextIInv
<1>3. ASSUME LInv, P!IInv PROVE CountsAddUp
  <2>0. \A S : P!Cardinality(S) = Cardinality(S)
    BY Zenon DEF P!Cardinality, Cardinality
  <2>1. BlockCount - settled[4] = Cardinality(UNION {mine[t] : t \in Threads})
    BY <1>3, <2>0 DEF P!IInv, P!CountsOK, P!UsedBlocks
  <2>2. mutex = None => freeBlockCount = settled[4]
    BY <1>3 DEF LInv, fields
  <2> QED BY <1>3, <2>1, <2>2 DEF CountsAddUp, LInv, Apart
<1> QED BY <1>1, <1>2, <1>3, PTL DEF Spec

=============================================================================
