-------------------------------- MODULE MoveProofs -------------------------------
(***************************************************************************)
(* Proofs about module PoolMove, for any number of Pool objects, backing   *)
(* allocations, configurations and blocks.                                 *)
(***************************************************************************)
EXTENDS PoolMove, FiniteSetTheorems, TLAPS

(* An object's fields have their types, an object without memory is empty, *)
(* one with memory ends where its memory does and has its list in it.      *)
FieldsOK(s) ==
  /\ s \in Objects
  /\ s.memory = Null => s = EmptyPool
  /\ s.memory # Null => /\ s.config \in Configs
                        /\ s.blockCount = BlockCount
                        /\ s.memoryEnd = <<s.memory, BlockCount>>
                        /\ s.freeList # Null => s.freeList[1] = s.memory

(* A link never leaves the backing memory it is stored in.                 *)
LinksOK == /\ mem \in [Blocks -> Blocks \cup {Null}]
           /\ \A b \in Blocks : mem[b] # Null => mem[b][1] = b[1]

TypesOK == /\ pool \in [Pools -> Objects \cup {Dead}]
           /\ heap \in [Arenas -> Configs \cup {Dead}]

(* What callers hold lies in memory that is allocated; whose memory that   *)
(* is, ArenaHasOneOwner says.                                              *)
HeldOK == held \in SUBSET Blocks /\ \A b \in held : heap[b[1]] # Dead

FieldsAllOK == \A p \in Living : FieldsOK(pool[p])

MInv == TypesOK /\ FieldsAllOK /\ LinksOK /\ HeldOK /\ ArenaHasOneOwner

\* What the invariant says of one object.
LEMMA LivingFacts ==
  ASSUME MInv, NEW p \in Pools, pool[p] # Dead
  PROVE  /\ FieldsOK(pool[p]) /\ pool[p] \in Objects
         /\ pool[p].memory # Null => /\ pool[p].memory \in Arenas
                                     /\ heap[pool[p].memory] # Dead
                                     /\ heap[pool[p].memory] = pool[p].config
<1>1. p \in Living /\ FieldsOK(pool[p])
  BY DEF MInv, FieldsAllOK, Living
<1>2. pool[p] \in Objects /\ pool[p].memory \in Arenas \cup {Null}
  BY <1>1 DEF FieldsOK, Objects
<1>3. ASSUME pool[p].memory # Null
      PROVE  heap[pool[p].memory] # Dead /\ heap[pool[p].memory] = pool[p].config
  <2>1. heap[pool[p].memory] = pool[p].config /\ pool[p].config \in Configs
    BY <1>1, <1>3 DEF MInv, ArenaHasOneOwner, FieldsOK
  <2> QED BY <2>1, MoveAssumption
<1> QED BY <1>1, <1>2, <1>3

\* A pool just constructed, and one that is empty, have well-formed fields.
LEMMA NewFields ==
  /\ EmptyPool \in Objects /\ FieldsOK(EmptyPool) /\ EmptyPool.memory = Null
  /\ \A a \in Arenas, c \in Configs :
       NewPool(a, c) \in Objects /\ FieldsOK(NewPool(a, c)) /\ NewPool(a, c) # Dead
         /\ NewPool(a, c).memory = a /\ NewPool(a, c).config = c
  /\ EmptyPool # Dead
<1>1. EmptyPool \in Objects /\ EmptyPool.memory = Null
  BY DEF EmptyPool, Objects, ZeroStats
<1>2. ASSUME NEW a \in Arenas, NEW c \in Configs
      PROVE  NewPool(a, c) \in Objects /\ FieldsOK(NewPool(a, c)) /\ NewPool(a, c) # Dead
             /\ NewPool(a, c).memory = a /\ NewPool(a, c).config = c
  <2>1. NewPool(a, c) \in Objects
    BY MoveAssumption DEF NewPool, Objects, ZeroStats
  <2>2. NewPool(a, c).memory = a /\ NewPool(a, c).config = c /\ a # Null
        /\ NewPool(a, c).freeList = Null /\ NewPool(a, c).blockCount = BlockCount
        /\ NewPool(a, c).memoryEnd = <<a, BlockCount>>
    BY MoveAssumption DEF NewPool
  <2> QED BY <2>1, <2>2, MoveAssumption DEF FieldsOK
<1> QED BY <1>1, <1>2, MoveAssumption DEF FieldsOK

---------------------------------------------------------------------------
(* Construction, destruction and moves.                                    *)

\* Construction on an address that is not in use.
LEMMA ConstructKeeps ==
  ASSUME MInv, NEW p \in Pools, NEW a \in Arenas, NEW c \in Configs, Construct(p, a, c)
  PROVE  MInv'
<1>1. /\ pool[p] = Dead /\ heap[a] = Dead
      /\ heap' = [heap EXCEPT ![a] = c]
      /\ pool' = [pool EXCEPT ![p] = NewPool(a, c)]
      /\ mem' = mem /\ held' = held
  BY DEF Construct
<1>2. TypesOK'
  BY <1>1, NewFields DEF MInv, TypesOK
<1>3. Living' = Living \cup {p} /\ p \notin Living
  BY <1>1, NewFields DEF MInv, TypesOK, Living
<1>4. \A q \in Living : pool'[q] = pool[q] /\ pool[q].memory # a
  <2>1. ASSUME NEW q \in Living PROVE pool'[q] = pool[q]
    BY <1>1, <1>3 DEF Living, MInv, TypesOK
  <2>2. ASSUME NEW q \in Living PROVE pool[q].memory # a
    BY <1>1, LivingFacts, MoveAssumption DEF Living
  <2> QED BY <2>1, <2>2
<1>5. pool'[p] = NewPool(a, c)
  BY <1>1 DEF MInv, TypesOK
<1>6. FieldsAllOK'
  BY <1>3, <1>4, <1>5, NewFields DEF MInv, FieldsAllOK
<1>7. LinksOK'
  BY <1>1 DEF MInv, LinksOK
<1>8. HeldOK'
  BY <1>1, MoveAssumption DEF MInv, HeldOK, TypesOK, Blocks
<1>9. ArenaHasOneOwner'
  <2>1. \A d \in Arenas : d # a => heap'[d] = heap[d]
    BY <1>1 DEF MInv, TypesOK
  <2>2. heap'[a] = c
    BY <1>1 DEF MInv, TypesOK
  <2>3. \A q \in Living : pool[q].memory # Null => pool[q].memory \in Arenas
    BY LivingFacts DEF Living
  <2> QED BY <1>3, <1>4, <1>5, <2>1, <2>2, <2>3, NewFields DEF MInv, ArenaHasOneOwner
<1> QED BY <1>2, <1>6, <1>7, <1>8, <1>9 DEF MInv

\* Deleting the memory of p, if it has any, takes it from no other object.
LEMMA DeleteFacts ==
  ASSUME MInv, NEW p \in Living, DeleteMemory(pool[p])
  PROVE  /\ heap' \in [Arenas -> Configs \cup {Dead}]
         /\ \A a \in Arenas : heap'[a] = IF a = pool[p].memory THEN Dead ELSE heap[a]
         /\ \A q \in Living : q # p /\ pool[q].memory # Null => pool[q].memory # pool[p].memory
         /\ held' \in SUBSET Blocks /\ \A b \in held' : heap'[b[1]] # Dead
<1>1. p \in Pools /\ pool[p] # Dead
  BY DEF Living
<1>2. /\ heap' \in [Arenas -> Configs \cup {Dead}]
      /\ \A a \in Arenas : heap'[a] = IF a = pool[p].memory THEN Dead ELSE heap[a]
  BY <1>1, LivingFacts, MoveAssumption DEF DeleteMemory, MInv, TypesOK
<1>3. \A q \in Living : q # p /\ pool[q].memory # Null => pool[q].memory # pool[p].memory
  BY DEF MInv, ArenaHasOneOwner
<1>4. held' \in SUBSET Blocks /\ \A b \in held' : b \in held /\ b[1] # pool[p].memory
  BY DEF DeleteMemory, InArena, MInv, HeldOK
<1>5. \A b \in held' : heap'[b[1]] # Dead
  BY <1>2, <1>4 DEF MInv, HeldOK, Blocks
<1> QED BY <1>2, <1>3, <1>4, <1>5

\* The destructor.
LEMMA DestructKeeps ==
  ASSUME MInv, NEW p \in Pools, Destruct(p)
  PROVE  MInv'
<1>1. /\ p \in Living /\ DeleteMemory(pool[p])
      /\ pool' = [pool EXCEPT ![p] = Dead] /\ mem' = mem
  BY DEF Destruct, Living
<1>2. Living' = Living \ {p} /\ \A q \in Living' : q \in Living /\ q # p /\ pool'[q] = pool[q]
  BY <1>1 DEF MInv, TypesOK, Living
<1>3. TypesOK' /\ HeldOK'
  BY <1>1, DeleteFacts DEF MInv, TypesOK, HeldOK
<1>4. FieldsAllOK' /\ LinksOK'
  BY <1>1, <1>2 DEF MInv, FieldsAllOK, LinksOK
<1>5. ArenaHasOneOwner'
  <2>1. \A q \in Living : pool[q].memory # Null => pool[q].memory \in Arenas
    BY LivingFacts DEF Living
  <2>2. \A q \in Living' : pool[q].memory # Null => heap'[pool[q].memory] = heap[pool[q].memory]
    BY <1>1, <1>2, <2>1, DeleteFacts
  <2>3. \A a \in Arenas : heap'[a] # Dead => a # pool[p].memory /\ heap[a] # Dead
    BY <1>1, DeleteFacts
  <2> QED BY <1>2, <2>2, <2>3 DEF MInv, ArenaHasOneOwner
<1> QED BY <1>3, <1>4, <1>5 DEF MInv

\* The fields of q move into p, which has none of its own any more, and q is
\* left empty.
LEMMA HandOver ==
  ASSUME MInv, NEW p \in Pools, NEW q \in Living, p # q,
         pool' = [pool EXCEPT ![p] = pool[q], ![q] = MovedFrom(pool[q])],
         heap' \in [Arenas -> Configs \cup {Dead}],
         \A a \in Arenas : heap'[a] = IF p \in Living /\ a = pool[p].memory THEN Dead ELSE heap[a],
         mem' = mem, HeldOK'
  PROVE  MInv'
<1>1. q \in Pools /\ pool[q] # Dead /\ pool[q] \in Objects /\ FieldsOK(pool[q])
  BY LivingFacts DEF Living
<1>2. pool' \in [Pools -> Objects \cup {Dead}] /\ pool'[p] = pool[q] /\ pool'[q] = EmptyPool
      /\ \A r \in Pools : r # p /\ r # q => pool'[r] = pool[r]
  BY <1>1, NewFields DEF MInv, TypesOK, MovedFrom
<1>3. Living' = Living \cup {p}
  BY <1>1, <1>2, NewFields DEF Living
<1>4. TypesOK' /\ LinksOK'
  BY <1>2 DEF MInv, TypesOK, LinksOK
<1>5. FieldsAllOK'
  BY <1>1, <1>2, <1>3, NewFields DEF MInv, FieldsAllOK, Living
<1>6. ArenaHasOneOwner'
  <2>1. \A r \in Living : r \in Pools /\ (pool[r].memory # Null => pool[r].memory \in Arenas)
    BY LivingFacts DEF Living
  <2>2. EmptyPool.memory = Null
    BY NewFields
  <2>3. ASSUME NEW a \in Arenas, heap'[a] # Dead
        PROVE  \E r \in Living' : pool'[r].memory = a
    <3>1. heap[a] # Dead /\ ~(p \in Living /\ a = pool[p].memory)
      BY <2>3
    <3>2. PICK r \in Living : pool[r].memory = a
      BY <3>1 DEF MInv, ArenaHasOneOwner
    <3>3. CASE r = q
      BY <1>2, <1>3, <3>2, <3>3
    <3>4. CASE r # q
      BY <1>2, <1>3, <2>1, <3>1, <3>2, <3>4
    <3> QED BY <3>3, <3>4
  <2>4. ASSUME NEW r \in Living', pool'[r].memory # Null
        PROVE  heap'[pool'[r].memory] = pool'[r].config
    <3>1. PICK s \in Living : pool'[r] = pool[s] /\ (s = p => p \notin Living)
      BY <1>1, <1>2, <1>3, <2>1, <2>2, <2>4 DEF Living
    <3>2. pool[s].memory \in Arenas /\ heap[pool[s].memory] = pool[s].config
      BY <2>1, <2>4, <3>1 DEF MInv, ArenaHasOneOwner
    <3>3. ~(p \in Living /\ pool[s].memory = pool[p].memory)
      BY <2>4, <3>1 DEF MInv, ArenaHasOneOwner
    <3> QED BY <3>1, <3>2, <3>3
  <2>5. ASSUME NEW r \in Living', NEW s \in Living', r # s, pool'[r].memory # Null
        PROVE  pool'[r].memory # pool'[s].memory
    <3>1. r # q
      BY <1>2, <2>2, <2>5
    <3>2. CASE s = q
      BY <1>2, <2>2, <2>5, <3>2
    <3>3. CASE s # q /\ r = p
      BY <1>1, <1>2, <1>3, <2>1, <2>5, <3>3 DEF MInv, ArenaHasOneOwner
    <3>4. CASE s # q /\ s = p
      BY <1>1, <1>2, <1>3, <2>1, <2>5, <3>1, <3>4 DEF MInv, ArenaHasOneOwner
    <3>5. CASE s # q /\ s # p /\ r # p
      BY <1>2, <1>3, <2>1, <2>5, <3>1, <3>5 DEF MInv, ArenaHasOneOwner
    <3> QED BY <3>2, <3>3, <3>4, <3>5
  <2> QED BY <2>3, <2>4, <2>5 DEF ArenaHasOneOwner
<1> QED BY <1>4, <1>5, <1>6 DEF MInv

\* Move construction.
LEMMA MoveConstructKeeps ==
  ASSUME MInv, NEW p \in Pools, NEW q \in Pools, MoveConstruct(p, q)
  PROVE  MInv'
<1>1. /\ pool[p] = Dead /\ pool[q] # Dead
      /\ pool' = [pool EXCEPT ![p] = pool[q], ![q] = MovedFrom(pool[q])]
      /\ heap' = heap /\ mem' = mem /\ held' = held
  BY DEF MoveConstruct
<1>2. q \in Living /\ p \notin Living /\ p # q
  BY <1>1 DEF Living
<1>3. HeldOK' /\ heap' \in [Arenas -> Configs \cup {Dead}]
  BY <1>1 DEF MInv, HeldOK, TypesOK
<1> QED BY <1>1, <1>2, <1>3, HandOver

\* Move assignment, to itself too.
LEMMA MoveAssignKeeps ==
  ASSUME MInv, NEW p \in Pools, NEW q \in Pools, MoveAssign(p, q)
  PROVE  MInv'
<1>1. p \in Living /\ q \in Living /\ mem' = mem
  BY DEF MoveAssign, Living
<1>2. CASE p = q
  <2>1. pool' = pool /\ heap' = heap /\ held' = held
    BY <1>2 DEF MoveAssign
  <2> QED BY <1>1, <2>1 DEF MInv, TypesOK, FieldsAllOK, LinksOK, HeldOK, ArenaHasOneOwner, Living
<1>3. CASE p # q
  <2>1. DeleteMemory(pool[p]) /\ pool' = [pool EXCEPT ![p] = pool[q], ![q] = MovedFrom(pool[q])]
    BY <1>3 DEF MoveAssign
  <2>2. HeldOK'
    BY <1>1, <2>1, DeleteFacts DEF HeldOK
  <2> QED BY <1>1, <1>3, <2>1, <2>2, DeleteFacts, HandOver
<1> QED BY <1>2, <1>3

---------------------------------------------------------------------------
(* The calls on one pool.                                                  *)

\* A call that changes the fields of one object but neither its memory nor its
\* configuration.
LEMMA UpdateKeeps ==
  ASSUME MInv, NEW p \in Living, NEW s \in Objects, FieldsOK(s),
         s.memory = pool[p].memory, s.config = pool[p].config,
         pool' = [pool EXCEPT ![p] = s], heap' = heap, LinksOK', HeldOK'
  PROVE  MInv'
<1>1. Living' = Living /\ pool'[p] = s /\ (\A q \in Living : q # p => pool'[q] = pool[q]) /\ TypesOK'
  BY MoveAssumption DEF Living, MInv, TypesOK
<1>2. FieldsAllOK'
  BY <1>1 DEF MInv, FieldsAllOK
<1>3. ArenaHasOneOwner'
  <2>1. \A q \in Living : pool'[q].memory = pool[q].memory /\ pool'[q].config = pool[q].config
    BY <1>1
  <2> QED BY <1>1, <2>1 DEF MInv, ArenaHasOneOwner
<1> QED BY <1>1, <1>2, <1>3 DEF MInv

\* The fields after a block was taken or given back.
LEMMA TakingFacts ==
  ASSUME NEW s \in Objects, FieldsOK(s), s.memory # Null,
         NEW list \in Blocks \cup {Null}, list # Null => list[1] = s.memory,
         NEW mark \in Nat, NEW n \in {1, -1}
  PROVE  LET t == Taking(s, list, mark, n)
         IN  t \in Objects /\ FieldsOK(t) /\ t.memory = s.memory /\ t.config = s.config
<1> DEFINE Stats == [totalAllocated : Nat, peakUsed : Nat, allocations : Nat, deallocations : Nat]
           free  == s.freeBlockCount - n
           used  == s.blockCount - free
           more  == [s.stats EXCEPT !.totalAllocated = Plus(@, 1), !.allocations = Plus(@, 1),
                                    !.peakUsed = IF used > @ THEN used ELSE @]
           less  == [s.stats EXCEPT !.deallocations = Plus(@, 1)]
           stats == IF n = 1 THEN more ELSE less
           t     == [s EXCEPT !.freeList = list, !.watermark = mark,
                              !.freeBlockCount = free, !.stats = stats]
<1>1. t = Taking(s, list, mark, n)
  BY DEF Taking
<1>2. s.stats \in Stats /\ s.freeBlockCount \in Int /\ s.blockCount \in Nat
  BY DEF Objects
<1>3. \A x \in Nat : Plus(x, 1) \in Nat
  BY MoveAssumption DEF Plus
<1>4. free \in Int /\ used \in Int
  BY <1>2
<1> HIDE DEF free, used
<1>5. more \in Stats
  <2> DEFINE peak == IF used > s.stats.peakUsed THEN used ELSE s.stats.peakUsed
  <2>1. s.stats.peakUsed \in Nat /\ s.stats.totalAllocated \in Nat /\ s.stats.allocations \in Nat
    BY <1>2
  <2>2. peak \in Nat
    BY <1>4, <2>1
  <2> HIDE DEF peak
  <2>3. more = [s.stats EXCEPT !.totalAllocated = Plus(s.stats.totalAllocated, 1),
                               !.allocations = Plus(s.stats.allocations, 1), !.peakUsed = peak]
    BY DEF peak
  <2> QED BY <1>2, <1>3, <2>1, <2>2, <2>3
<1>6. less \in Stats
  BY <1>2, <1>3
<1>7. stats \in Stats
  BY <1>5, <1>6
<1> HIDE DEF stats
<1>8. t \in Objects /\ t.memory = s.memory /\ t.config = s.config /\ t.blockCount = s.blockCount
      /\ t.memoryEnd = s.memoryEnd /\ t.freeList = list
  BY <1>4, <1>7 DEF Objects
<1>9. FieldsOK(t)
  BY <1>8 DEF FieldsOK
<1> HIDE DEF t
<1> QED BY <1>1, <1>8, <1>9

\* allocate(), on an empty pool too.
LEMMA AllocateKeeps ==
  ASSUME MInv, NEW p \in Pools, Allocate(p)
  PROVE  MInv'
<1> DEFINE s == pool[p]
           fresh == <<s.memory, s.watermark>>
<1>1. p \in Living /\ FieldsOK(s) /\ s \in Objects /\ heap' = heap /\ mem' = mem
  BY LivingFacts DEF Allocate, Living
<1>2. LinksOK'
  BY <1>1 DEF MInv, LinksOK
<1>3. CASE pool' = pool /\ held' = held
  BY <1>1, <1>2, <1>3 DEF MInv, TypesOK, FieldsAllOK, HeldOK, ArenaHasOneOwner, Living
<1>4. ASSUME s.memory # Null, NEW b \in Blocks, b[1] = s.memory, held' = held \cup {b}
      PROVE  HeldOK'
  <2>1. heap[s.memory] # Dead
    BY <1>1, <1>4, LivingFacts DEF Living
  <2> QED BY <1>1, <1>4, <2>1 DEF MInv, HeldOK
<1>5. CASE /\ s.freeList # Null
           /\ pool' = [pool EXCEPT ![p] = Taking(s, mem[s.freeList], s.watermark, 1)]
           /\ held' = held \cup {s.freeList}
  <2>1. s.memory # Null /\ s.freeList \in Blocks /\ s.freeList[1] = s.memory /\ s.watermark \in Nat
    BY <1>1, <1>5 DEF FieldsOK, EmptyPool, Objects
  <2>2. mem[s.freeList] \in Blocks \cup {Null} /\ (mem[s.freeList] # Null => mem[s.freeList][1] = s.memory)
    BY <2>1 DEF MInv, LinksOK
  <2>3. HeldOK'
    BY <1>4, <1>5, <2>1
  <2> DEFINE t == Taking(s, mem[s.freeList], s.watermark, 1)
  <2>4. t \in Objects /\ FieldsOK(t) /\ t.memory = s.memory /\ t.config = s.config
    BY <1>1, <2>1, <2>2, TakingFacts
  <2>5. pool' = [pool EXCEPT ![p] = t]
    BY <1>5
  <2> HIDE DEF t, s
  <2> QED BY <1>1, <1>2, <2>3, <2>4, <2>5, UpdateKeeps DEF s
<1>6. CASE /\ s.freeList = Null /\ s.watermark < s.blockCount
           /\ pool' = [pool EXCEPT ![p] = Taking(s, Null, s.watermark + 1, 1)]
           /\ held' = held \cup {fresh}
  <2>1. s.memory # Null /\ s.memory \in Arenas /\ s.watermark \in Nat /\ s.watermark < BlockCount
    BY <1>1, <1>6 DEF FieldsOK, EmptyPool, Objects
  <2>2. fresh \in Blocks /\ fresh[1] = s.memory
    BY <2>1, MoveAssumption DEF Blocks, Index
  <2>3. HeldOK'
    BY <1>4, <1>6, <2>1, <2>2
  <2> DEFINE t == Taking(s, Null, s.watermark + 1, 1)
  <2>4. t \in Objects /\ FieldsOK(t) /\ t.memory = s.memory /\ t.config = s.config
    BY <1>1, <2>1, TakingFacts
  <2>5. pool' = [pool EXCEPT ![p] = t]
    BY <1>6
  <2> HIDE DEF t, s
  <2> QED BY <1>1, <1>2, <2>3, <2>4, <2>5, UpdateKeeps DEF s
<1> QED BY <1>3, <1>5, <1>6 DEF Allocate

\* deallocate() of a held block or of nullptr, by whichever pool.
LEMMA DeallocateKeeps ==
  ASSUME MInv, NEW p \in Pools, NEW b \in held \cup {Null}, Deallocate(p, b)
  PROVE  MInv'
<1> DEFINE s == pool[p]
<1>1. p \in Living /\ FieldsOK(s) /\ s \in Objects /\ heap' = heap
  BY LivingFacts DEF Deallocate, Living
<1>2. CASE UNCHANGED <<mem, pool, held>>
  BY <1>1, <1>2 DEF MInv, TypesOK, FieldsAllOK, LinksOK, HeldOK, ArenaHasOneOwner, Living
<1>3. CASE b # Null /\ Owns(p, b)
  <2>1. /\ mem' = [mem EXCEPT ![b] = s.freeList]
        /\ pool' = [pool EXCEPT ![p] = Taking(s, b, s.watermark, -1)]
        /\ held' = held \ {b}
    BY <1>1, <1>3 DEF Deallocate, MInv, TypesOK
  <2>2. b \in Blocks /\ s.memory # Null /\ b[1] = s.memory
    BY <1>3 DEF Owns, MInv, HeldOK
  <2>3. s.freeList \in Blocks \cup {Null} /\ (s.freeList # Null => s.freeList[1] = s.memory)
        /\ s.watermark \in Nat
    BY <1>1, <2>2 DEF FieldsOK, Objects
  <2>4. LinksOK'
    BY <2>1, <2>2, <2>3 DEF MInv, LinksOK
  <2>5. HeldOK'
    BY <1>1, <2>1 DEF MInv, HeldOK
  <2> DEFINE t == Taking(s, b, s.watermark, -1)
  <2>6. t \in Objects /\ FieldsOK(t) /\ t.memory = s.memory /\ t.config = s.config
    BY <1>1, <2>2, <2>3, TakingFacts
  <2>7. pool' = [pool EXCEPT ![p] = t]
    BY <2>1
  <2> HIDE DEF t, s
  <2> QED BY <1>1, <2>4, <2>5, <2>6, <2>7, UpdateKeeps DEF s
<1> QED BY <1>2, <1>3 DEF Deallocate

\* reset(), on an empty pool too.
LEMMA ResetKeeps ==
  ASSUME MInv, NEW p \in Pools, Reset(p)
  PROVE  MInv'
<1> DEFINE s == pool[p]
           t == [s EXCEPT !.freeList = Null, !.watermark = 0,
                          !.freeBlockCount = s.blockCount, !.stats = ZeroStats]
<1>1. p \in Living /\ FieldsOK(s) /\ s \in Objects /\ heap' = heap /\ mem' = mem
      /\ held' = held \ InArena(held, s.memory)
  BY LivingFacts DEF Reset, Living
<1>2. pool' = [pool EXCEPT ![p] = t]
  BY <1>1 DEF Reset, MInv, TypesOK, Objects
<1> HIDE DEF s
<1>3. t \in Objects /\ t.memory = s.memory /\ t.config = s.config /\ t.blockCount = s.blockCount
      /\ t.memoryEnd = s.memoryEnd /\ t.freeList = Null
  <2>1. ZeroStats \in [totalAllocated : Nat, peakUsed : Nat, allocations : Nat, deallocations : Nat]
    BY DEF ZeroStats
  <2>2. s.blockCount \in Int /\ 0 \in Nat
    BY <1>1 DEF Objects
  <2> HIDE DEF ZeroStats
  <2> QED BY <1>1, <2>1, <2>2 DEF Objects
<1>4. s = EmptyPool => t = EmptyPool
  <2> SUFFICES ASSUME s = EmptyPool PROVE t = EmptyPool
    OBVIOUS
  <2> HIDE DEF ZeroStats
  <2>1. t = [EmptyPool EXCEPT !.freeList = Null, !.watermark = 0,
                              !.freeBlockCount = EmptyPool.blockCount, !.stats = ZeroStats]
    OBVIOUS
  <2>2. t = [EmptyPool EXCEPT !.freeList = Null, !.watermark = 0,
                              !.freeBlockCount = 0, !.stats = ZeroStats]
    BY <2>1 DEF EmptyPool
  <2>3. [EmptyPool EXCEPT !.freeList = Null, !.watermark = 0,
                          !.freeBlockCount = 0, !.stats = ZeroStats] = EmptyPool
    <3>1. [EmptyPool EXCEPT !.freeList = Null] = EmptyPool
      BY DEF EmptyPool
    <3>2. [EmptyPool EXCEPT !.watermark = 0] = EmptyPool
      BY DEF EmptyPool
    <3>3. [EmptyPool EXCEPT !.freeBlockCount = 0] = EmptyPool
      BY DEF EmptyPool
    <3>4. [EmptyPool EXCEPT !.stats = ZeroStats] = EmptyPool
      BY DEF EmptyPool
    <3>5. [EmptyPool EXCEPT !.freeList = Null, !.watermark = 0] = EmptyPool
      BY <3>1, <3>2
    <3>6. [EmptyPool EXCEPT !.freeList = Null, !.watermark = 0, !.freeBlockCount = 0] = EmptyPool
      BY <3>3, <3>5
    <3> QED BY <3>4, <3>6
  <2> HIDE DEF t
  <2> QED BY <2>2, <2>3
<1>5. FieldsOK(t)
  BY <1>1, <1>3, <1>4 DEF FieldsOK
<1>6. LinksOK' /\ HeldOK'
  BY <1>1 DEF MInv, LinksOK, HeldOK
<1> HIDE DEF t, s
<1> QED BY <1>1, <1>2, <1>3, <1>5, <1>6, UpdateKeeps DEF s

---------------------------------------------------------------------------

\* No object lives and nothing is allocated at first.
LEMMA InitMInv ==
  ASSUME Init
  PROVE  MInv
<1>1. Living = {} /\ TypesOK /\ HeldOK /\ LinksOK
  BY DEF Init, Living, TypesOK, HeldOK, LinksOK
<1>2. \A a \in Arenas : heap[a] = Dead
  BY DEF Init
<1> QED BY <1>1, <1>2 DEF MInv, FieldsAllOK, ArenaHasOneOwner

\* Every step keeps the invariant.
LEMMA NextMInv ==
  ASSUME MInv, [Next]_vars
  PROVE  MInv'
<1>1. ASSUME NEW p \in Pools, NEW a \in Arenas, NEW c \in Configs, Construct(p, a, c) PROVE MInv'
  BY <1>1, ConstructKeeps
<1>2. ASSUME NEW p \in Pools, Destruct(p) PROVE MInv'
  BY <1>2, DestructKeeps
<1>3. ASSUME NEW p \in Pools, NEW q \in Pools, MoveConstruct(p, q) \/ MoveAssign(p, q) PROVE MInv'
  BY <1>3, MoveConstructKeeps, MoveAssignKeeps
<1>4. ASSUME NEW p \in Pools, Allocate(p) \/ Reset(p) PROVE MInv'
  BY <1>4, AllocateKeeps, ResetKeeps
<1>5. ASSUME NEW p \in Pools, NEW b \in held \cup {Null}, Deallocate(p, b) PROVE MInv'
  BY <1>5, DeallocateKeeps
<1>6. CASE UNCHANGED vars
  BY <1>6 DEF vars, MInv, TypesOK, FieldsAllOK, LinksOK, HeldOK, ArenaHasOneOwner, Living
<1> QED BY <1>1, <1>2, <1>3, <1>4, <1>5, <1>6 DEF Next

\* In every reachable state of objects and backing memory the invariant holds.
THEOREM MoveInvariance == Spec => []MInv
<1>1. Init => MInv
  BY InitMInv
<1>2. MInv /\ [Next]_vars => MInv'
  BY NextMInv
<1> QED BY <1>1, <1>2, PTL DEF Spec

\* Backing memory has one owner, with the configuration it was allocated for:
\* however pools are moved it is deleted once and never leaks.
THEOREM OwnerCorrect == Spec => []ArenaHasOneOwner
<1>1. MInv => ArenaHasOneOwner
  BY DEF MInv
<1> QED BY <1>1, MoveInvariance, PTL

\* A moved-from pool has nothing to give and counts nothing as used.
THEOREM EmptyCorrect == Spec => []EmptyPoolIsInert
<1>1. ASSUME MInv PROVE EmptyPoolIsInert
  <2>1. \A p \in Living : pool[p].memory = Null => pool[p] = EmptyPool
    BY <1>1 DEF MInv, FieldsAllOK, FieldsOK
  <2>2. /\ EmptyPool.freeList = Null /\ EmptyPool.watermark >= EmptyPool.blockCount
        /\ EmptyPool.freeBlockCount = 0 /\ Used(EmptyPool) = 0 /\ EmptyPool.stats = ZeroStats
    BY DEF EmptyPool, Used
  <2> QED BY <2>1, <2>2 DEF EmptyPoolIsInert
<1> QED BY <1>1, MoveInvariance, PTL

\* A block a caller holds is taken back by one living pool and by no other.
THEOREM HeldCorrect == Spec => []HeldBlockHasOwner
<1>1. ASSUME MInv PROVE HeldBlockHasOwner
  <2> SUFFICES ASSUME NEW b \in held PROVE Cardinality({p \in Living : Owns(p, b)}) = 1
    BY DEF HeldBlockHasOwner
  <2>1. b \in Blocks /\ b[1] \in Arenas /\ b[2] \in Index /\ heap[b[1]] # Dead
    BY <1>1 DEF MInv, HeldOK, Blocks
  <2>2. PICK p \in Living : pool[p].memory = b[1]
    BY <1>1, <2>1 DEF MInv, ArenaHasOneOwner
  <2>3. Owns(p, b)
    <3>1. b[1] # Null
      BY <2>1, MoveAssumption
    <3>2. pool[p].memoryEnd = <<b[1], BlockCount>>
      BY <1>1, <2>2, <3>1 DEF MInv, FieldsAllOK, FieldsOK
    <3> QED BY <2>1, <2>2, <3>1, <3>2, MoveAssumption DEF Owns, Index
  <2>4. \A q \in Living : Owns(q, b) => q = p
    BY <1>1, <2>2 DEF Owns, MInv, ArenaHasOneOwner
  <2>5. {q \in Living : Owns(q, b)} = {p}
    BY <2>2, <2>3, <2>4
  <2> QED BY <2>5, FS_Singleton
<1> QED BY <1>1, MoveInvariance, PTL

---------------------------------------------------------------------------
(* The watched backing memory, through whichever object has it, is one     *)
(* pool.                                                                   *)

\* What the watched memory's owner is, in a state and after a step.
LEMMA OwnerFields ==
  ASSUME MInv, NEW p \in Living, pool[p].memory = Watched
  PROVE  Fields = pool[p] /\ heap[Watched] # Dead
<1>1. heap[Watched] # Dead
  BY LivingFacts, MoveAssumption DEF Living
<1>2. Watched # Null
  BY MoveAssumption
<1>3. Owner \in Living /\ pool[Owner].memory = Watched
  BY DEF Owner
<1>4. Owner = p
  BY <1>2, <1>3 DEF MInv, ArenaHasOneOwner
<1> QED BY <1>1, <1>4 DEF Fields

\* The same of the state after a step.
LEMMA NextOwnerFields ==
  ASSUME MInv', NEW p \in Pools, pool'[p] # Dead, pool'[p].memory = Watched
  PROVE  Fields' = pool'[p] /\ heap'[Watched] # Dead
<1>1. p \in Living' /\ FieldsOK(pool'[p])
  BY DEF MInv, FieldsAllOK, Living
<1>2. Watched # Null /\ Watched \in Arenas
  BY MoveAssumption
<1>3. heap'[Watched] # Dead
  BY <1>1, <1>2, MoveAssumption DEF MInv, ArenaHasOneOwner, FieldsOK
<1>4. Owner' \in Living' /\ pool'[Owner'].memory = Watched
  BY <1>1 DEF Owner
<1>5. Owner' = p
  BY <1>1, <1>2, <1>4 DEF MInv, ArenaHasOneOwner
<1> QED BY <1>3, <1>5 DEF Fields

\* What has no owner is not allocated, and nobody holds a block of it.
LEMMA NoOwner ==
  ASSUME MInv, heap[Watched] = Dead
  PROVE  Fields = NewPool(Watched, Null) /\ InArena(held, Watched) = {}
BY DEF Fields, MInv, HeldOK, InArena

\* The owner's fields pass from one object to another, or there is none.
LEMMA FieldsPassOn ==
  ASSUME MInv, MInv',
         \/ heap[Watched] = Dead /\ heap'[Watched] = Dead
         \/ \E q \in Living, r \in Pools : pool[q].memory = Watched /\ pool'[r] = pool[q]
  PROVE  Fields' = Fields
<1>1. CASE heap[Watched] = Dead /\ heap'[Watched] = Dead
  BY <1>1 DEF Fields
<1>2. CASE \E q \in Living, r \in Pools : pool[q].memory = Watched /\ pool'[r] = pool[q]
  <2>1. PICK q \in Living, r \in Pools : pool[q].memory = Watched /\ pool'[r] = pool[q]
    BY <1>2
  <2>2. pool'[r] # Dead /\ pool'[r].memory = Watched
    BY <2>1 DEF Living
  <2> QED BY <2>1, <2>2, OwnerFields, NextOwnerFields
<1> QED BY <1>1, <1>2

\* A step that leaves the watched memory alone is a call that ignores its
\* argument.
LEMMA QuietStep ==
  ASSUME Fields'.freeList = Fields.freeList, Fields'.watermark = Fields.watermark,
         Fields'.freeBlockCount = Fields.freeBlockCount, Fields'.stats = Fields.stats,
         \A i \in Index : mem'[<<Watched, i>>] = mem[<<Watched, i>>],
         InArena(held', Watched) = InArena(held, Watched),
         ret' = <<>> \/ ret'[1][1] # Watched
  PROVE  Arena!Next
<1> DEFINE words  == [i \in Index |-> Local(mem[<<Watched, i>>])]
           blocks == {b[2] : b \in InArena(held, Watched)}
           out    == IF ret # <<>> /\ ret[1][1] = Watched THEN <<ret[1][2]>> ELSE <<>>
<1>1. words' = words /\ blocks' = blocks /\ out' = <<>>
  OBVIOUS
<1>2. Arena!DeallocateForeign(Null)
  BY <1>1 DEF Arena!DeallocateForeign, Arena!arena
<1>3. Arena!Deallocate(Null)
  BY <1>2 DEF Arena!Deallocate
<1>4. \E b \in blocks \cup {Null} \cup {Dead} : Arena!Deallocate(b)
  BY <1>3, Zenon
<1> QED BY <1>4 DEF Arena!Next

\* Memory that is given up, or reset, is a pool that was reset.
LEMMA ResetStep ==
  ASSUME Fields'.freeList = Null, Fields'.watermark = 0,
         Fields'.freeBlockCount = BlockCount, Fields'.stats = ZeroStats,
         mem' = mem, InArena(held', Watched) = {}, ret' = <<>>
  PROVE  Arena!Next
<1>1. Local(Null) = Null
  BY MoveAssumption DEF Local, Blocks
<1>2. Arena!Reset
  BY <1>1 DEF Arena!Reset, Arena!InitializeFreeList, Arena!ZeroStats, ZeroStats, Local
<1> QED BY <1>2 DEF Arena!Next

\* A pool's first fields are those of one that was reset.
LEMMA NewIsReset ==
  \A a, c : /\ NewPool(a, c).freeList = Null /\ NewPool(a, c).watermark = 0
            /\ NewPool(a, c).freeBlockCount = BlockCount /\ NewPool(a, c).stats = ZeroStats
BY DEF NewPool

\* Construction.
LEMMA ConstructSeen ==
  ASSUME MInv, MInv', NEW p \in Pools, NEW a \in Arenas, NEW c \in Configs, Construct(p, a, c)
  PROVE  Arena!Next
<1>1. /\ pool[p] = Dead /\ heap[a] = Dead /\ pool' = [pool EXCEPT ![p] = NewPool(a, c)]
      /\ heap' = [heap EXCEPT ![a] = c] /\ mem' = mem /\ held' = held /\ ret' = <<>>
  BY DEF Construct
<1>2. pool'[p] = NewPool(a, c) /\ \A q \in Pools : q # p => pool'[q] = pool[q]
  BY <1>1 DEF MInv, TypesOK
<1>3. CASE a = Watched
  <2>1. Fields' = NewPool(a, c)
    BY <1>2, <1>3, NewFields, NextOwnerFields
  <2>2. Fields = NewPool(Watched, Null)
    BY <1>1, <1>3, NoOwner
  <2> QED BY <1>1, <2>1, <2>2, NewIsReset, QuietStep
<1>4. CASE a # Watched
  <2>1. heap'[Watched] = heap[Watched]
    BY <1>1, <1>4, MoveAssumption DEF MInv, TypesOK
  <2>2. heap[Watched] # Dead => \E q \in Living, r \in Pools : pool[q].memory = Watched /\ pool'[r] = pool[q]
    BY <1>1, <1>2, MoveAssumption DEF MInv, ArenaHasOneOwner, Living
  <2>3. Fields' = Fields
    BY <2>1, <2>2, FieldsPassOn
  <2> QED BY <1>1, <2>3, QuietStep
<1> QED BY <1>3, <1>4

\* Destruction.
LEMMA DestructSeen ==
  ASSUME MInv, MInv', NEW p \in Pools, Destruct(p)
  PROVE  Arena!Next
<1>1. /\ p \in Living /\ DeleteMemory(pool[p])
      /\ pool' = [pool EXCEPT ![p] = Dead] /\ mem' = mem /\ ret' = <<>>
      /\ held' = held \ InArena(held, pool[p].memory)
  BY DEF Destruct, DeleteMemory, Living
<1>2. \A q \in Pools : q # p => pool'[q] = pool[q]
  BY <1>1 DEF MInv, TypesOK
<1>3. CASE pool[p].memory = Watched
  <2>1. heap'[Watched] = Dead
    BY <1>1, <1>3, DeleteFacts, MoveAssumption
  <2>2. Fields' = NewPool(Watched, Null)
    BY <2>1 DEF Fields
  <2>3. InArena(held', Watched) = {}
    BY <1>1, <1>3 DEF InArena
  <2> QED BY <1>1, <2>2, <2>3, NewIsReset, ResetStep
<1>4. CASE pool[p].memory # Watched
  <2>1. heap'[Watched] = heap[Watched]
    BY <1>1, <1>4, DeleteFacts, MoveAssumption
  <2>2. heap[Watched] # Dead => \E q \in Living, r \in Pools : pool[q].memory = Watched /\ pool'[r] = pool[q]
    BY <1>2, <1>4, MoveAssumption DEF MInv, ArenaHasOneOwner, Living
  <2>3. Fields' = Fields
    BY <2>1, <2>2, FieldsPassOn
  <2>4. InArena(held', Watched) = InArena(held, Watched)
    BY <1>1, <1>4 DEF InArena
  <2> QED BY <1>1, <2>3, <2>4, QuietStep
<1> QED BY <1>3, <1>4

\* Both moves, between two objects.
LEMMA HandOverSeen ==
  ASSUME MInv, MInv', NEW p \in Pools, NEW q \in Living, p # q,
         pool' = [pool EXCEPT ![p] = pool[q], ![q] = MovedFrom(pool[q])],
         p \in Living => pool[p].memory # Watched,
         heap'[Watched] = heap[Watched], mem' = mem, ret' = <<>>,
         InArena(held', Watched) = InArena(held, Watched)
  PROVE  Arena!Next
<1>1. /\ pool'[p] = pool[q] /\ \A r \in Pools : r # p /\ r # q => pool'[r] = pool[r]
  BY DEF MInv, TypesOK, Living
<1>2. ASSUME heap[Watched] # Dead
      PROVE  \E s \in Living, r \in Pools : pool[s].memory = Watched /\ pool'[r] = pool[s]
  <2>1. PICK s \in Living : pool[s].memory = Watched
    BY <1>2, MoveAssumption DEF MInv, ArenaHasOneOwner
  <2>2. s \in Pools /\ s # p
    BY <2>1 DEF Living
  <2>3. CASE s = q
    BY <1>1, <2>1, <2>3
  <2>4. CASE s # q
    BY <1>1, <2>1, <2>2, <2>4
  <2> QED BY <2>3, <2>4
<1>3. Fields' = Fields
  BY <1>2, FieldsPassOn
<1> QED BY <1>3, QuietStep

\* Move construction.
LEMMA MoveConstructSeen ==
  ASSUME MInv, MInv', NEW p \in Pools, NEW q \in Pools, MoveConstruct(p, q)
  PROVE  Arena!Next
<1>1. /\ p \notin Living /\ q \in Living /\ p # q
      /\ pool' = [pool EXCEPT ![p] = pool[q], ![q] = MovedFrom(pool[q])]
      /\ heap' = heap /\ mem' = mem /\ held' = held /\ ret' = <<>>
  BY DEF MoveConstruct, Living
<1> QED BY <1>1, HandOverSeen

\* Move assignment: the target's memory goes.
LEMMA MoveAssignSeen ==
  ASSUME MInv, MInv', NEW p \in Pools, NEW q \in Pools, MoveAssign(p, q)
  PROVE  Arena!Next
<1>1. p \in Living /\ q \in Living /\ mem' = mem /\ ret' = <<>>
  BY DEF MoveAssign, Living
<1>2. CASE p = q
  <2>1. pool' = pool /\ heap' = heap /\ held' = held
    BY <1>2 DEF MoveAssign
  <2>2. Fields' = Fields
    BY <2>1 DEF Fields, Owner, Living
  <2> QED BY <1>1, <2>1, <2>2, QuietStep
<1>3. CASE p # q
  <2>1. /\ DeleteMemory(pool[p]) /\ held' = held \ InArena(held, pool[p].memory)
        /\ pool' = [pool EXCEPT ![p] = pool[q], ![q] = MovedFrom(pool[q])]
    BY <1>3 DEF MoveAssign, DeleteMemory
  <2>2. CASE pool[p].memory = Watched
    <3>1. heap'[Watched] = Dead
      BY <1>1, <2>1, <2>2, DeleteFacts, MoveAssumption
    <3>2. Fields' = NewPool(Watched, Null)
      BY <3>1 DEF Fields
    <3>3. InArena(held', Watched) = {}
      BY <2>1, <2>2 DEF InArena
    <3> QED BY <1>1, <3>2, <3>3, NewIsReset, ResetStep
  <2>3. CASE pool[p].memory # Watched
    <3>1. heap'[Watched] = heap[Watched]
      BY <1>1, <2>1, <2>3, DeleteFacts, MoveAssumption
    <3>2. InArena(held', Watched) = InArena(held, Watched)
      BY <2>1, <2>3 DEF InArena
    <3> QED BY <1>1, <1>3, <2>1, <2>3, <3>1, <3>2, HandOverSeen
  <2> QED BY <2>2, <2>3
<1> QED BY <1>2, <1>3

\* A call on an object that does not have the watched memory.
LEMMA ElsewhereSeen ==
  ASSUME MInv, MInv', NEW p \in Living, pool[p].memory # Watched,
         NEW t, pool' = [pool EXCEPT ![p] = t], heap' = heap,
         \A b \in Blocks : b[1] = Watched => mem'[b] = mem[b],
         InArena(held', Watched) = InArena(held, Watched),
         ret' = <<>> \/ ret'[1][1] # Watched
  PROVE  Arena!Next
<1>1. \A q \in Living : q # p => pool'[q] = pool[q]
  BY DEF Living
<1>2. heap[Watched] # Dead => \E q \in Living : pool[q].memory = Watched
  BY MoveAssumption DEF MInv, ArenaHasOneOwner
<1>3. heap[Watched] # Dead => \E q \in Living, r \in Pools : pool[q].memory = Watched /\ pool'[r] = pool[q]
  BY <1>1, <1>2 DEF Living, MInv, TypesOK
<1>4. Fields' = Fields
  BY <1>3, FieldsPassOn
<1>5. \A i \in Index : mem'[<<Watched, i>>] = mem[<<Watched, i>>]
  BY MoveAssumption DEF Blocks
<1> QED BY <1>4, <1>5, QuietStep

\* A pointer into the watched memory, as a pool of module Pool sees it.
LEMMA LocalFacts ==
  /\ Local(Null) = Null
  /\ \A b \in Blocks : b[1] = Watched => Local(b) = b[2] /\ b[2] \in Index /\ b = <<Watched, b[2]>>
  /\ Arena!Blocks = Index
  /\ \A i \in Index : i # Null
BY MoveAssumption DEF Local, Blocks, Index, Arena!Blocks

\* Statistics of which all but one counter change.
LEMMA StatsFields ==
  ASSUME NEW u \in [totalAllocated : Nat, peakUsed : Nat, allocations : Nat, deallocations : Nat],
         NEW a \in Nat, NEW b \in Nat, NEW c \in Nat
  PROVE  [u EXCEPT !.totalAllocated = a, !.allocations = b, !.peakUsed = c]
           = [totalAllocated |-> a, allocations |-> b, peakUsed |-> c, deallocations |-> u.deallocations]
<1> DEFINE v == [u EXCEPT !.totalAllocated = a, !.allocations = b, !.peakUsed = c]
           w == [totalAllocated |-> a, allocations |-> b, peakUsed |-> c, deallocations |-> u.deallocations]
<1>1. /\ v \in [totalAllocated : Nat, peakUsed : Nat, allocations : Nat, deallocations : Nat]
      /\ v.totalAllocated = a /\ v.allocations = b /\ v.peakUsed = c /\ v.deallocations = u.deallocations
  OBVIOUS
<1>2. /\ w \in [totalAllocated : Nat, peakUsed : Nat, allocations : Nat, deallocations : Nat]
      /\ w.totalAllocated = a /\ w.allocations = b /\ w.peakUsed = c /\ w.deallocations = u.deallocations
  OBVIOUS
<1> HIDE DEF v, w
<1>3. v = w
  BY <1>1, <1>2
<1> QED BY <1>3 DEF v, w

\* The fields after a block was taken, one by one.
LEMMA TakenFields ==
  ASSUME NEW s \in Objects, NEW list, NEW mark, NEW t, t = Taking(s, list, mark, 1)
  PROVE  /\ t.freeList = list /\ t.watermark = mark /\ t.freeBlockCount = s.freeBlockCount - 1
         /\ t.stats = [totalAllocated |-> Plus(s.stats.totalAllocated, 1),
                       allocations |-> Plus(s.stats.allocations, 1),
                       peakUsed |-> IF s.blockCount - t.freeBlockCount > s.stats.peakUsed
                                    THEN s.blockCount - t.freeBlockCount ELSE s.stats.peakUsed,
                       deallocations |-> s.stats.deallocations]
<1> DEFINE free  == s.freeBlockCount - 1
           used  == s.blockCount - free
           peak  == IF used > s.stats.peakUsed THEN used ELSE s.stats.peakUsed
           more  == [s.stats EXCEPT !.totalAllocated = Plus(@, 1), !.allocations = Plus(@, 1),
                                    !.peakUsed = IF used > @ THEN used ELSE @]
<1>1. t = [s EXCEPT !.freeList = list, !.watermark = mark, !.freeBlockCount = free, !.stats = more]
  BY DEF Taking
<1>2. /\ s.stats \in [totalAllocated : Nat, peakUsed : Nat, allocations : Nat, deallocations : Nat]
      /\ \A x \in Nat : Plus(x, 1) \in Nat
      /\ used \in Int
  BY MoveAssumption DEF Objects, Plus
<1> HIDE DEF free, used
<1>3. more = [totalAllocated |-> Plus(s.stats.totalAllocated, 1), allocations |-> Plus(s.stats.allocations, 1),
              peakUsed |-> peak, deallocations |-> s.stats.deallocations]
  <2>1. peak \in Nat
    BY <1>2
  <2> HIDE DEF peak
  <2>2. more = [s.stats EXCEPT !.totalAllocated = Plus(s.stats.totalAllocated, 1),
                               !.allocations = Plus(s.stats.allocations, 1), !.peakUsed = peak]
    BY DEF peak
  <2> QED BY <1>2, <2>1, <2>2, StatsFields
<1> HIDE DEF more
<1>4. t.freeList = list /\ t.watermark = mark /\ t.freeBlockCount = free /\ t.stats = more
  BY <1>1 DEF Objects
<1> QED BY <1>3, <1>4 DEF free, used, peak

\* The fields after a block was given back.
LEMMA GivenFields ==
  ASSUME NEW s \in Objects, NEW list, NEW mark, NEW t, t = Taking(s, list, mark, -1)
  PROVE  /\ t.freeList = list /\ t.watermark = mark /\ t.freeBlockCount = s.freeBlockCount + 1
         /\ t.stats = [s.stats EXCEPT !.deallocations = Plus(s.stats.deallocations, 1)]
<1> DEFINE free == s.freeBlockCount + 1
           less == [s.stats EXCEPT !.deallocations = Plus(s.stats.deallocations, 1)]
<1>1. free = s.freeBlockCount - (-1)
  BY DEF Objects
<1> HIDE DEF free
<1>2. t = [s EXCEPT !.freeList = list, !.watermark = mark, !.freeBlockCount = free, !.stats = less]
  BY <1>1 DEF Taking
<1> HIDE DEF less
<1>3. t.freeList = list /\ t.watermark = mark /\ t.freeBlockCount = free /\ t.stats = less
  BY <1>2 DEF Objects
<1> QED BY <1>3 DEF free, less

\* allocate() from the watched memory, by the object that has it.
LEMMA AllocateSeen ==
  ASSUME MInv, MInv', NEW p \in Living, pool[p].memory = Watched, Allocate(p)
  PROVE  Arena!Next
<1> DEFINE s == pool[p]
           words  == [i \in Index |-> Local(mem[<<Watched, i>>])]
           blocks == {b[2] : b \in InArena(held, Watched)}
           out    == IF ret # <<>> /\ ret[1][1] = Watched THEN <<ret[1][2]>> ELSE <<>>
<1>1. /\ p \in Pools /\ s # Dead /\ FieldsOK(s) /\ s \in Objects /\ mem' = mem /\ heap' = heap
      /\ s.blockCount = BlockCount /\ Fields = s /\ Watched # Null
  BY LivingFacts, OwnerFields, MoveAssumption DEF Living, Allocate, FieldsOK
<1>2. words' = words
  BY <1>1
<1>3. ASSUME NEW t, pool' = [pool EXCEPT ![p] = t], t # Dead, t.memory = Watched
      PROVE  Fields' = t
  <2>1. pool'[p] = t
    BY <1>1, <1>3 DEF MInv, TypesOK
  <2> QED BY <1>1, <1>3, <2>1, NextOwnerFields
<1>4. ASSUME NEW b \in Blocks, b[1] = Watched, held' = held \cup {b}, ret' = <<b>>,
             NEW list \in Blocks \cup {Null}, list # Null => list[1] = Watched, NEW mark \in Nat,
             pool' = [pool EXCEPT ![p] = Taking(s, list, mark, 1)]
      PROVE  /\ blocks' = blocks \cup {b[2]} /\ out' = <<b[2]>>
             /\ Fields'.freeList = list /\ Fields'.watermark = mark
             /\ Fields'.freeBlockCount = s.freeBlockCount - 1
             /\ Arena!StatAlloc(Arena!UsedBlocks(Fields'.freeBlockCount), 1)
  <2> DEFINE t == Taking(s, list, mark, 1)
  <2>1. t \in Objects /\ t.memory = Watched /\ t # Dead
    BY <1>1, <1>4, TakingFacts, MoveAssumption
  <2>2. Fields' = t
    BY <1>3, <1>4, <2>1
  <2> HIDE DEF t
  <2>3. /\ t.freeList = list /\ t.watermark = mark /\ t.freeBlockCount = s.freeBlockCount - 1
        /\ t.stats = [totalAllocated |-> Plus(s.stats.totalAllocated, 1),
                      allocations |-> Plus(s.stats.allocations, 1),
                      peakUsed |-> IF BlockCount - t.freeBlockCount > s.stats.peakUsed
                                   THEN BlockCount - t.freeBlockCount ELSE s.stats.peakUsed,
                      deallocations |-> s.stats.deallocations]
    BY <1>1, TakenFields DEF t
  <2>4. InArena(held', Watched) = InArena(held, Watched) \cup {b}
    BY <1>4 DEF InArena
  <2>5. blocks' = blocks \cup {b[2]}
    BY <2>4
  <2>6. out' = <<b[2]>>
    BY <1>4
  <2>7. Arena!StatAlloc(Arena!UsedBlocks(Fields'.freeBlockCount), 1)
    BY <1>1, <2>2, <2>3 DEF Arena!StatAlloc, Arena!UsedBlocks, Arena!Plus, Plus
  <2> QED BY <2>2, <2>3, <2>5, <2>6, <2>7
<1>5. CASE /\ s.freeList # Null
           /\ pool' = [pool EXCEPT ![p] = Taking(s, mem[s.freeList], s.watermark, 1)]
           /\ ret' = <<s.freeList>> /\ held' = held \cup {s.freeList}
  <2> DEFINE list == mem[s.freeList]
  <2>1. PICK b \in Blocks : b = s.freeList /\ b[1] = Watched
    BY <1>1, <1>5 DEF FieldsOK, Objects
  <2>2. list \in Blocks \cup {Null} /\ (list # Null => list[1] = Watched) /\ s.watermark \in Nat
    BY <1>1, <2>1 DEF MInv, LinksOK, Objects
  <2>3. words[b[2]] = Local(list) /\ b[2] \in Index /\ Local(b) = b[2] /\ b[2] # Null
    BY <2>1, LocalFacts
  <2> HIDE DEF list, s, words
  <2>4. /\ blocks' = blocks \cup {b[2]} /\ out' = <<b[2]>>
        /\ Fields'.freeList = list /\ Fields'.watermark = s.watermark
        /\ Fields'.freeBlockCount = s.freeBlockCount - 1
        /\ Arena!StatAlloc(Arena!UsedBlocks(Fields'.freeBlockCount), 1)
    BY <1>4, <1>5, <2>1, <2>2 DEF list
  <2>5. Local(Fields'.freeList) = Local(list)
    BY <2>4
  <2>6. Arena!AcquireBlock(b[2])
    BY <1>1, <1>2, <2>1, <2>3, <2>4 DEF Arena!AcquireBlock, Arena!PopFreeList, words, Local
  <2>7. Arena!Allocate
    BY <2>3, <2>4, <2>6, LocalFacts DEF Arena!Allocate
  <2> QED BY <2>7 DEF Arena!Next
<1>6. CASE /\ s.freeList = Null /\ s.watermark < s.blockCount
           /\ pool' = [pool EXCEPT ![p] = Taking(s, Null, s.watermark + 1, 1)]
           /\ ret' = <<<<s.memory, s.watermark>>>> /\ held' = held \cup {<<s.memory, s.watermark>>}
  <2>1. s.watermark \in Index /\ <<Watched, s.watermark>> \in Blocks /\ s.watermark + 1 \in Nat
    BY <1>1, <1>6, MoveAssumption DEF Objects, Index, Blocks
  <2>2. PICK b \in Blocks : b = <<s.memory, s.watermark>> /\ b[1] = Watched /\ b[2] = s.watermark
    BY <2>1
  <2> HIDE DEF s, words
  <2>3. /\ blocks' = blocks \cup {b[2]} /\ out' = <<b[2]>>
        /\ Fields'.freeList = Null /\ Fields'.watermark = s.watermark + 1
        /\ Fields'.freeBlockCount = s.freeBlockCount - 1
        /\ Arena!StatAlloc(Arena!UsedBlocks(Fields'.freeBlockCount), 1)
    BY <1>4, <1>6, <2>1, <2>2
  <2>4. Arena!AcquireBlock(b[2])
    BY <1>1, <1>2, <1>6, <2>2, <2>3, LocalFacts DEF Arena!AcquireBlock, Arena!BumpWatermark, words, Local
  <2>5. Arena!Allocate
    BY <2>1, <2>2, <2>3, <2>4, LocalFacts DEF Arena!Allocate
  <2> QED BY <2>5 DEF Arena!Next
<1>7. CASE /\ s.freeList = Null /\ s.watermark >= s.blockCount
           /\ ret' = <<>> /\ UNCHANGED <<pool, held>>
  <2>1. Fields' = Fields
    BY <1>1, <1>7, NextOwnerFields
  <2> QED BY <1>1, <1>7, <2>1, QuietStep
<1> QED BY <1>5, <1>6, <1>7 DEF Allocate

\* deallocate() by the object that has the watched memory.
LEMMA DeallocateSeen ==
  ASSUME MInv, MInv', NEW p \in Living, pool[p].memory = Watched,
         NEW b \in held \cup {Null}, Deallocate(p, b)
  PROVE  Arena!Next
<1> DEFINE s == pool[p]
           words  == [i \in Index |-> Local(mem[<<Watched, i>>])]
           blocks == {c[2] : c \in InArena(held, Watched)}
           out    == IF ret # <<>> /\ ret[1][1] = Watched THEN <<ret[1][2]>> ELSE <<>>
<1>1. /\ p \in Pools /\ s # Dead /\ FieldsOK(s) /\ s \in Objects /\ heap' = heap /\ ret' = <<>>
      /\ s.blockCount = BlockCount /\ Fields = s /\ Watched # Null
  BY LivingFacts, OwnerFields, MoveAssumption DEF Living, Deallocate, FieldsOK
<1>2. CASE UNCHANGED <<mem, pool, held>>
  <2>1. Fields' = Fields
    BY <1>1, <1>2, NextOwnerFields
  <2> QED BY <1>1, <1>2, <2>1, QuietStep
<1>3. CASE b # Null /\ Owns(p, b)
  <2>1. /\ mem' = [mem EXCEPT ![b] = s.freeList]
        /\ pool' = [pool EXCEPT ![p] = Taking(s, b, s.watermark, -1)]
        /\ held' = held \ {b}
    BY <1>1, <1>3 DEF Deallocate, MInv, TypesOK
  <2>2. b \in Blocks /\ b[1] = Watched /\ b \in InArena(held, Watched)
    BY <1>3 DEF Owns, MInv, HeldOK, InArena
  <2>3. Local(b) = b[2] /\ b[2] \in Index /\ b = <<Watched, b[2]>>
    BY <2>2, LocalFacts
  <2> DEFINE t == Taking(s, b, s.watermark, -1)
  <2>4. t \in Objects /\ t.memory = Watched /\ t # Dead
    <3>1. s.watermark \in Nat /\ s.memory # Null
      BY <1>1 DEF Objects
    <3>2. t \in Objects /\ t.memory = s.memory
      BY <1>1, <2>2, <3>1, TakingFacts
    <3> QED BY <3>2, MoveAssumption
  <2>5. /\ t.freeList = b /\ t.watermark = s.watermark /\ t.freeBlockCount = s.freeBlockCount + 1
        /\ t.stats = [s.stats EXCEPT !.deallocations = Plus(s.stats.deallocations, 1)]
    BY <1>1, GivenFields DEF t
  <2> HIDE DEF t
  <2>6. Fields' = t
    <3>1. pool'[p] = t
      BY <1>1, <2>1 DEF t, MInv, TypesOK
    <3> QED BY <1>1, <2>4, <3>1, NextOwnerFields
  <2>7. words' = [words EXCEPT ![b[2]] = Local(s.freeList)]
    <3>1. \A i \in Index : mem'[<<Watched, i>>] = IF i = b[2] THEN s.freeList ELSE mem[<<Watched, i>>]
      BY <2>1, <2>2, <2>3, MoveAssumption DEF MInv, LinksOK, Blocks
    <3> QED BY <2>3, <3>1
  <2>8. blocks' = blocks \ {b[2]}
    <3>1. InArena(held', Watched) = InArena(held, Watched) \ {b}
      BY <2>1 DEF InArena
    <3>2. \A c \in InArena(held, Watched) : c = <<Watched, c[2]>>
      BY LocalFacts DEF InArena, MInv, HeldOK
    <3> QED BY <2>3, <3>1, <3>2
  <2>9. b[2] \in blocks
    BY <2>2
  <2>10. out' = <<>>
    BY <1>1
  <2> HIDE DEF words, blocks, out, s
  <2>11. Arena!ReleaseBlock(b[2])
    BY <1>1, <2>3, <2>5, <2>6, <2>7 DEF Arena!ReleaseBlock, words
  <2>12. Arena!StatDealloc(1)
    BY <1>1, <2>5, <2>6 DEF Arena!StatDealloc, Arena!Plus, Plus
  <2>13. Arena!DeallocateOwned(b[2])
    BY <2>3, <2>8, <2>10, <2>11, <2>12, LocalFacts DEF Arena!DeallocateOwned, Arena!Owns, blocks, out
  <2>14. PICK i \in blocks : i = b[2]
    BY <2>9
  <2>15. Arena!Deallocate(i)
    BY <2>13, <2>14 DEF Arena!Deallocate
  <2>16. \E c \in blocks \cup {Null} \cup {Dead} : Arena!Deallocate(c)
    BY <2>15, Zenon
  <2> QED BY <2>16 DEF Arena!Next, blocks
<1> QED BY <1>2, <1>3 DEF Deallocate

\* reset() of the watched memory.
LEMMA ResetSeen ==
  ASSUME MInv, MInv', NEW p \in Living, pool[p].memory = Watched, Reset(p)
  PROVE  Arena!Next
<1> DEFINE s == pool[p]
           t == [s EXCEPT !.freeList = Null, !.watermark = 0,
                          !.freeBlockCount = s.blockCount, !.stats = ZeroStats]
<1>1. /\ p \in Pools /\ s # Dead /\ FieldsOK(s) /\ s \in Objects /\ heap' = heap /\ ret' = <<>>
      /\ s.blockCount = BlockCount /\ Watched # Null /\ mem' = mem
      /\ held' = held \ InArena(held, Watched)
  BY LivingFacts, MoveAssumption DEF Living, Reset, FieldsOK
<1>2. pool' = [pool EXCEPT ![p] = t]
  BY <1>1 DEF Reset, MInv, TypesOK, Objects
<1>3. pool'[p] = t
  BY <1>1, <1>2 DEF MInv, TypesOK
<1> HIDE DEF s
<1>4. t.memory = s.memory /\ t.freeList = Null /\ t.watermark = 0 /\ t.freeBlockCount = BlockCount
      /\ t.stats = ZeroStats
  BY <1>1 DEF Objects
<1>5. pool'[p] # Dead
  <2>1. ZeroStats \in [totalAllocated : Nat, peakUsed : Nat, allocations : Nat, deallocations : Nat]
    BY DEF ZeroStats
  <2>2. s.blockCount \in Int /\ 0 \in Nat
    BY <1>1 DEF Objects
  <2>3. t \in Objects
    <3> HIDE DEF ZeroStats
    <3> QED BY <1>1, <2>1, <2>2 DEF Objects
  <2> QED BY <1>3, <2>3, MoveAssumption
<1> HIDE DEF t
<1>6. Fields' = t
  BY <1>1, <1>3, <1>4, <1>5, NextOwnerFields DEF s
<1>7. InArena(held', Watched) = {}
  BY <1>1 DEF InArena
<1> QED BY <1>1, <1>4, <1>6, <1>7, ResetStep

\* A call on an object, whichever memory it has.
LEMMA CallSeen ==
  ASSUME MInv, MInv', NEW p \in Pools,
         Allocate(p) \/ (\E b \in held \cup {Null} : Deallocate(p, b)) \/ Reset(p)
  PROVE  Arena!Next
<1> DEFINE s == pool[p]
<1>1. p \in Living /\ FieldsOK(s) /\ s \in Objects /\ heap' = heap
  BY LivingFacts DEF Allocate, Deallocate, Reset, Living
<1>2. CASE s.memory = Watched
  BY <1>1, <1>2, AllocateSeen, DeallocateSeen, ResetSeen
<1>3. CASE s.memory # Watched
  <2>1. CASE UNCHANGED <<mem, pool, held>> /\ ret' = <<>>
    <3>1. Fields' = Fields
      BY <1>1, <2>1 DEF Fields, Owner, Living
    <3> QED BY <2>1, <3>1, QuietStep
  <2>2. ASSUME NEW t, pool' = [pool EXCEPT ![p] = t], mem' = mem, NEW b, b[1] # Watched,
               held' = held \cup {b}, ret' = <<b>>
        PROVE  Arena!Next
    <3>1. InArena(held', Watched) = InArena(held, Watched)
      BY <2>2 DEF InArena
    <3> QED BY <1>1, <1>3, <2>2, <3>1, ElsewhereSeen
  <2>3. CASE Allocate(p)
    <3>1. s.freeList # Null => s.freeList[1] # Watched
      BY <1>1, <1>3 DEF FieldsOK, EmptyPool
    <3> QED BY <1>1, <1>3, <2>1, <2>2, <2>3, <3>1 DEF Allocate
  <2>4. ASSUME NEW b \in held, b # Null, Owns(p, b), Deallocate(p, b)
        PROVE  Arena!Next
    <3>1. b[1] # Watched
      BY <1>3, <2>4 DEF Owns
    <3>2. /\ mem' = [mem EXCEPT ![b] = s.freeList] /\ held' = held \ {b} /\ ret' = <<>>
          /\ pool' = [pool EXCEPT ![p] = Taking(s, b, s.watermark, -1)]
      BY <1>1, <2>4 DEF Deallocate, MInv, TypesOK
    <3>3. InArena(held', Watched) = InArena(held, Watched)
      BY <3>1, <3>2 DEF InArena
    <3>4. \A c \in Blocks : c[1] = Watched => mem'[c] = mem[c]
      BY <3>1, <3>2 DEF MInv, LinksOK
    <3> QED BY <1>1, <1>3, <3>2, <3>3, <3>4, ElsewhereSeen
  <2>5. CASE \E b \in held \cup {Null} : Deallocate(p, b)
    BY <2>1, <2>4, <2>5 DEF Deallocate
  <2>6. CASE Reset(p)
    <3> DEFINE t == [s EXCEPT !.freeList = Null, !.watermark = 0,
                              !.freeBlockCount = s.blockCount, !.stats = ZeroStats]
    <3>1. pool' = [pool EXCEPT ![p] = t]
      BY <1>1, <2>6 DEF Reset, MInv, TypesOK, Objects
    <3>2. InArena(held', Watched) = InArena(held, Watched) /\ mem' = mem /\ ret' = <<>>
      BY <1>3, <2>6 DEF Reset, InArena
    <3> QED BY <1>1, <1>3, <3>1, <3>2, ElsewhereSeen
  <2> QED BY <2>3, <2>5, <2>6
<1> QED BY <1>2, <1>3

\* For the holders of its blocks the memory is one pool, through whichever
\* objects it is passed; destruction and construction look like a reset.
THEOREM MovesCorrect == Spec => MovesAreInvisible
<1>1. ASSUME Init PROVE Arena!Init
  <2>1. heap[Watched] = Dead /\ MInv
    BY <1>1, InitMInv, MoveAssumption DEF Init
  <2>2. Fields = NewPool(Watched, Null) /\ InArena(held, Watched) = {} /\ Local(Null) = Null
    BY <2>1, NoOwner, LocalFacts
  <2>3. [i \in Index |-> Local(mem[<<Watched, i>>])] \in [Index -> Index \cup {Null} \cup {}]
    BY <1>1, <2>2, MoveAssumption DEF Init, Blocks
  <2> QED BY <1>1, <2>2, <2>3, NewIsReset, LocalFacts
      DEF Init, Arena!Init, Arena!Words, Arena!ZeroStats, ZeroStats
<1>2. ASSUME MInv, MInv', [Next]_vars PROVE [Arena!Next]_(Arena!vars)
  <2>1. CASE UNCHANGED vars
    BY <2>1 DEF vars, Arena!vars, Fields, Owner, Living
  <2>2. CASE Next
    BY <1>2, <2>2, ConstructSeen, DestructSeen, MoveConstructSeen, MoveAssignSeen, CallSeen DEF Next
  <2> QED BY <1>2, <2>1, <2>2
<1> QED BY <1>1, <1>2, MoveInvariance, PTL DEF Spec, MovesAreInvisible, Arena!Spec

=============================================================================
