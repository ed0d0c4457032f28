------------------------------- MODULE FuzzHarness -------------------------------
(***************************************************************************)
(* The run loop of the fuzz harness (src/fuzz/fuzz_pool.cpp): two          *)
(* harnesses, each a Pool and the shadow model of it, driven through raw   *)
(* and object calls, resets, moves and replacements, in any order the      *)
(* input bytes spell.  ShadowPool has one harness and no objects; here the *)
(* two meet, and the question is whether the harness's own checks can fire *)
(* on a pool that is right.                                                *)
(*                                                                         *)
(* An operation is an operator from a harness's state to its next one, as  *)
(* a member function is; `ok` turns FALSE where a FUZZ_CHECK fails.  A     *)
(* pointer is Null or <<arena, index, offset>>, offset 1 standing for any  *)
(* byte inside a block, where nothing is aligned.  A pool's geometry is    *)
(* its block count: that a move carries stride_ and alignment_ with it is  *)
(* PoolMove's, and the statistics are PoolRefinement's.                    *)
(***************************************************************************)
EXTENDS Integers, FiniteSets, SequencesExt, Selection

CONSTANTS
  Arenas,        \* addresses of backing allocations
  BlockCounts,   \* Config's table of block counts
  MaxBatch,      \* longest batch an input asks for
  TagMod,        \* tags are taken modulo this, as std::uint8_t is modulo 256
  Null,          \* nullptr
  Elsewhere      \* where gForeignWord is

Slots == {"a", "b"}
Other(h) == CHOOSE o \in Slots : o # h

Block(a, i)  == <<a, i, 0>>
Inside(a, i) == <<a, i, 1>>
Cells == {Block(a, i) : a \in Arenas, i \in UNION {0 .. n - 1 : n \in BlockCounts}}

ASSUME FuzzAssumption ==
  /\ BlockCounts \subseteq Nat \ {0} /\ MaxBatch \in Nat /\ TagMod \in Nat \ {0}
  /\ Elsewhere \notin Arenas /\ Null \notin Arenas
  /\ Null \notin Nat /\ Null \notin Cells

VARIABLES
  pool,     \* slot -> pool_
  shadow,   \* slot -> s_
  mem,      \* block -> its first word
  heap,     \* the arenas that are allocated
  alive,    \* Probe::alive
  phase     \* "running", "aborted" by a FUZZ_CHECK, or "ended"

vars == <<pool, shadow, mem, heap, alive, phase>>

EmptyPool   == [blockCount |-> 0, memory |-> Null, freeList |-> Null, watermark |-> 0, freeBlockCount |-> 0]
NewPool(a, n) == [EmptyPool EXCEPT !.blockCount = n, !.memory = a, !.freeBlockCount = n]

EmptyShadow  == [blockCount |-> 0, base |-> Null, watermark |-> 0, freeStack |-> <<>>, live |-> <<>>, nextTag |-> 0]
NewShadow(n) == [EmptyShadow EXCEPT !.blockCount = n]

\* What the operations work on.
Harness(h) == [pool |-> pool[h], s |-> shadow[h], m |-> mem, alive |-> alive, ok |-> TRUE]

Check(st, condition) == IF condition THEN st ELSE [st EXCEPT !.ok = FALSE]

---------------------------------------------------------------------------
(* The pool's calls.                                                       *)

Owns(p, x) == x # Null /\ x[1] = p.memory /\ x[2] \in 0 .. p.blockCount - 1 /\ x[3] = 0

Acquire(p, m) ==
  IF p.freeList # Null
    THEN [got |-> p.freeList, pool |-> [p EXCEPT !.freeList = m[@], !.freeBlockCount = @ - 1]]
  ELSE IF p.watermark < p.blockCount
    THEN [got  |-> Block(p.memory, p.watermark),
          pool |-> [p EXCEPT !.watermark = @ + 1, !.freeBlockCount = @ - 1]]
  ELSE [got |-> Null, pool |-> p]

\* The n slots of a batch, and how many of them it filled; the others stay null.
AcquireBatch(p, m, n) ==
  LET upTo[k \in 0 .. n] ==
        IF k = 0 THEN [got |-> <<>>, count |-> 0, pool |-> p]
        ELSE LET r == upTo[k-1]
                 x == Acquire(r.pool, m)
             IN  [got |-> Append(r.got, x.got), count |-> r.count + (IF x.got = Null THEN 0 ELSE 1),
                  pool |-> x.pool]
  IN  upTo[n]

PoolDeallocate(st, x) ==
  IF x = Null \/ ~Owns(st.pool, x) THEN st
  ELSE [st EXCEPT !.m[x] = st.pool.freeList, !.pool.freeList = x, !.pool.freeBlockCount = @ + 1]

\* The local head of the batch is the list as it would be call by call.
PoolDeallocateBatch(st, ptrs) ==
  LET upTo[k \in 0 .. Len(ptrs)] == IF k = 0 THEN st ELSE PoolDeallocate(upTo[k-1], ptrs[k])
  IN  upTo[Len(ptrs)]

PoolDestroy(st, x) ==
  IF x = Null \/ ~Owns(st.pool, x) THEN st ELSE PoolDeallocate([st EXCEPT !.alive = @ - 1], x)

PoolReset(st) ==
  [st EXCEPT !.pool.freeList = Null, !.pool.watermark = 0, !.pool.freeBlockCount = st.pool.blockCount]

---------------------------------------------------------------------------
(* The shadow model's plumbing.                                            *)

\* Mutated form: the free list as a queue.
TakeNextOldest(s) ==
  IF s.freeStack # <<>> THEN [idx |-> Head(s.freeStack), s |-> [s EXCEPT !.freeStack = Tail(@)]]
  ELSE IF s.watermark < s.blockCount THEN [idx |-> s.watermark, s |-> [s EXCEPT !.watermark = @ + 1]]
  ELSE [idx |-> Null, s |-> s]

TakeNext(s) ==
  IF s.freeStack # <<>> THEN [idx |-> Last(s.freeStack), s |-> [s EXCEPT !.freeStack = Front(@)]]
  ELSE IF s.watermark < s.blockCount THEN [idx |-> s.watermark, s |-> [s EXCEPT !.watermark = @ + 1]]
  ELSE [idx |-> Null, s |-> s]

\* ptr(): where block idx is, from the base learned so far.
At(s, idx) == <<s.base[1], s.base[2] + idx, s.base[3]>>

Locate(st, got, idx) ==
  LET s == IF st.s.base = Null THEN [st.s EXCEPT !.base = <<got[1], got[2] - idx, got[3]>>] ELSE st.s
  IN  Check([st EXCEPT !.s = s], got[3] = 0 /\ At(s, idx) = got)

Content(l) == <<IF l.isObject THEN "probe" ELSE "raw", l.tag>>

\* The holder fills block idx, and the model remembers with what.
Adopt(st, idx, isObject) ==
  LET l == [index |-> idx, tag |-> st.s.nextTag, isObject |-> isObject]
  IN  [st EXCEPT !.m[At(st.s, idx)] = Content(l),
                 !.s.nextTag = (@ + 1) % TagMod,
                 !.s.live = Append(@, l)]

\* consume() and adoptRaw(): a pointer the pool returned against the one due.
Consume(st, got) ==
  LET due == TakeNext(st.s)
  IN  IF due.idx = Null THEN Check(st, got = Null)
      ELSE IF got = Null THEN Check(st, FALSE)
      ELSE LET found == Locate([st EXCEPT !.s = due.s], got, due.idx)
           IN  IF found.ok THEN Adopt(found, due.idx, FALSE) ELSE found

\* Mutated form: the last entry goes, whichever was picked.
DropLiveLast(s, at) == [s EXCEPT !.live = Front(@)]

DropLive(s, at) == [s EXCEPT !.live = Front([s.live EXCEPT ![at] = Last(s.live)])]

\* Block `at` of the live ones is free again.
Returned(s, at) == [DropLive(s, at) EXCEPT !.freeStack = Append(@, s.live[at].index)]

CheckLive(st, l) == st.m[At(st.s, l.index)] = Content(l)

\* Live blocks leave their holders: checked, and their objects destroyed.
\* Mutated form: deallocate() is trusted to run the destructor.
RelinquishUndestroyed(st, ats) == Check(st, \A k \in ats : CheckLive(st, st.s.live[k]))

Relinquish(st, ats) ==
  Check([st EXCEPT !.alive = @ - Cardinality({k \in ats : st.s.live[k].isObject})],
        \A k \in ats : CheckLive(st, st.s.live[k]))

LiveObjectCount(s) == Cardinality({k \in DOMAIN s.live : s.live[k].isObject})

FreeNow(s) == Len(s.freeStack) + (s.blockCount - s.watermark)

Verify(st) ==
  /\ st.pool.blockCount = st.s.blockCount
  /\ st.pool.freeBlockCount = FreeNow(st.s)
  /\ st.pool.blockCount - st.pool.freeBlockCount = Len(st.s.live)
  /\ \A k \in DOMAIN st.s.live :
       /\ Owns(st.pool, At(st.s, st.s.live[k].index))
       /\ CheckLive(st, st.s.live[k])

\* What a move leaves in the harness it takes from.
MovedFrom(st) == [st EXCEPT !.pool = EmptyPool, !.s = EmptyShadow]

VerifyMovedFrom(st) == st.s.blockCount = 0 /\ st.s.live = <<>> /\ Verify(st)

---------------------------------------------------------------------------
(* The harness's operations.                                               *)

Allocate(st) ==
  LET x == Acquire(st.pool, st.m) IN Consume([st EXCEPT !.pool = x.pool], x.got)

Fill(st) ==
  LET n == st.s.blockCount + 1
      upTo[k \in 0 .. n] ==
        IF k = 0 THEN st ELSE IF upTo[k-1].ok THEN Allocate(upTo[k-1]) ELSE upTo[k-1]
  IN  upTo[n]

\* Every slot of the batch, those past the count included.
ConsumeEach(st, out, n) ==
  LET upTo[k \in 0 .. n] ==
        IF k = 0 THEN st ELSE IF upTo[k-1].ok THEN Consume(upTo[k-1], out[k]) ELSE upTo[k-1]
  IN  upTo[n]

AllocateBatch(st, n) ==
  LET x     == AcquireBatch(st.pool, st.m, n)
      done  == ConsumeEach([st EXCEPT !.pool = x.pool], x.got, n)
      taken == Len(done.s.live) - Len(st.s.live)
  IN  Check(done, x.count <= n /\ x.count = taken)

DeallocateOne(st, at) ==
  LET done == PoolDeallocate(Relinquish(st, {at}), At(st.s, st.s.live[at].index))
  IN  [done EXCEPT !.s = Returned(@, at)]

\* Pointers a pool must not take: null, a word elsewhere, the ends of the arena
\* and the insides of its blocks, and a block of the other pool.
ForeignPointers(s, other) ==
  <<Null, Block(Elsewhere, 0)>>
  \o (IF s.base = Null THEN <<>>
      ELSE LET a == s.base[1]
           IN  <<Block(a, s.blockCount), Inside(a, -1), Inside(a, 0), Inside(a, s.blockCount - 1)>>)
  \o (IF other.live = <<>> THEN <<>> ELSE <<At(other, other.live[1].index)>>)

DeallocateBatch(st, start, want, withJunk) ==
  LET size  == Len(st.s.live)
      n     == IF want < size THEN want ELSE size
      junk  == ForeignPointers(st.s, EmptyShadow)
      at    == [k \in 1 .. n |-> ((start + k - 1) % size) + 1]
      order == [k \in 1 .. n |-> st.s.live[at[k]].index]
      ptrs  == IF ~withJunk THEN [k \in 1 .. n |-> At(st.s, order[k])]
               ELSE [k \in 1 .. 2 * n |->
                      IF k % 2 = 1 THEN At(st.s, order[(k + 1) \div 2])
                                   ELSE junk[((k \div 2 - 1) % Len(junk)) + 1]]
      done  == PoolDeallocateBatch(Relinquish(st, {at[k] : k \in 1 .. n}), ptrs)
      kept  == {l \in Range(st.s.live) : l.index \notin Range(order)}
  IN  [done EXCEPT !.s.freeStack = @ \o order, !.s.live = Selected(@, kept)]

\* create<Probe>(): a constructor that throws has its block taken back.
Create(st, fail) ==
  LET x    == Acquire(st.pool, st.m)
      took == [st EXCEPT !.pool = x.pool]
      made == IF x.got = Null THEN took
              ELSE IF fail THEN PoolDeallocate(took, x.got)
              ELSE [took EXCEPT !.alive = @ + 1]
      due  == TakeNext(st.s)
  IN  IF due.idx = Null THEN Check(made, x.got = Null)
      ELSE IF x.got = Null THEN Check(made, FALSE)
      ELSE IF fail THEN [made EXCEPT !.s = [due.s EXCEPT !.freeStack = Append(@, due.idx)]]
      ELSE LET found == Locate([made EXCEPT !.s = due.s], x.got, due.idx)
           IN  IF found.ok THEN Adopt(found, due.idx, TRUE) ELSE found

DestroyOne(st, at) ==
  LET l    == st.s.live[at]
      done == PoolDestroy(st, At(st.s, l.index))
  IN  [Check(done, CheckLive(st, l) /\ done.alive = st.alive - 1) EXCEPT !.s = Returned(@, at)]

\* Every object is destroyed; what is left is a block full of its tag.
DestroyAllObjects(st) ==
  LET objects == {k \in DOMAIN st.s.live : st.s.live[k].isObject}
      raw     == [k \in DOMAIN st.s.live |-> [st.s.live[k] EXCEPT !.isObject = FALSE]]
      Of(x)   == {k \in objects : At(st.s, raw[k].index) = x}
  IN  [Relinquish(st, objects) EXCEPT
         !.s.live = raw,
         !.m = [x \in Cells |-> IF Of(x) = {} THEN @[x] ELSE Content(raw[CHOOSE k \in Of(x) : TRUE])]]

Reset(st) ==
  [PoolReset(DestroyAllObjects(st)) EXCEPT !.s.watermark = 0, !.s.freeStack = <<>>, !.s.live = <<>>]

\* Only a pointer aligned for a Probe is passed to destroy().
RejectForeign(st, other) ==
  LET junk == ForeignPointers(st.s, other)
      sent == PoolDeallocateBatch(PoolDeallocateBatch(st, junk), junk)
      upTo[k \in 0 .. Len(junk)] ==
        IF k = 0 THEN sent
        ELSE IF junk[k] = Null \/ junk[k][3] = 0 THEN PoolDestroy(upTo[k-1], junk[k])
        ELSE upTo[k-1]
  IN  Check(upTo[Len(junk)], \A k \in DOMAIN junk : ~Owns(st.pool, junk[k]))

ProbeOwns(st) ==
  Check(st, st.s.base # Null => \A i \in 0 .. st.s.blockCount - 1 :
              Owns(st.pool, At(st.s, i)) /\ ~Owns(st.pool, Inside(st.s.base[1], i)))

---------------------------------------------------------------------------
(* The run loop.  What an operation on one harness computes becomes the    *)
(* state, or the process aborts.                                           *)

Abort == phase' = "aborted" /\ UNCHANGED <<pool, shadow, mem, heap, alive>>

Apply(h, st) ==
  IF st.ok THEN /\ pool'   = [pool EXCEPT ![h] = st.pool]
                /\ shadow' = [shadow EXCEPT ![h] = st.s]
                /\ mem'    = st.m
                /\ alive'  = st.alive
                /\ UNCHANGED <<heap, phase>>
           ELSE Abort

\* Memory that is given back holds nothing of interest when it is next used.
Forget(m, a) == [x \in Cells |-> IF x[1] = a THEN Null ELSE m[x]]

\* Harness::operator=(Harness&&).  The pool tests for self-assignment; the model
\* is taken out of the source before it is stored in the target.
\* Mutated form: the target's arena is not released.
MoveAssignLeaking(to, from, st) ==
  IF ~st.ok THEN Abort
  ELSE /\ pool'   = IF to = from THEN pool ELSE [pool EXCEPT ![to] = pool[from], ![from] = EmptyPool]
       /\ shadow' = [[shadow EXCEPT ![from] = EmptyShadow] EXCEPT ![to] = shadow[from]]
       /\ mem'    = st.m
       /\ alive'  = st.alive
       /\ UNCHANGED <<heap, phase>>

MoveAssign(to, from, st) ==
  IF ~st.ok THEN Abort
  ELSE /\ pool'   = IF to = from THEN pool ELSE [pool EXCEPT ![to] = pool[from], ![from] = EmptyPool]
       /\ shadow' = [[shadow EXCEPT ![from] = EmptyShadow] EXCEPT ![to] = shadow[from]]
       /\ heap'   = IF to = from THEN heap ELSE heap \ {pool[to].memory}
       /\ mem'    = IF to = from THEN st.m ELSE Forget(st.m, pool[to].memory)
       /\ alive'  = st.alive
       /\ UNCHANGED phase

MoveOntoItself(h) == MoveAssign(h, h, Harness(h))

MoveOver(h) ==
  LET st == DestroyAllObjects(Harness(h))
  IN  MoveAssign(h, Other(h), Check(st, VerifyMovedFrom(MovedFrom(st))))

\* Out of the harness into a new one, and back: both halves are looked at.
MoveOutAndBack(h) ==
  LET st == Harness(h)
  IN  Apply(h, Check(st, VerifyMovedFrom(MovedFrom(st)) /\ Verify(st)))

\* Mutated form: the new pool's model keeps the old base.
ReplaceKeepingBase(h, a, n) ==
  LET st == DestroyAllObjects(Harness(h))
  IN  /\ pool'   = [pool EXCEPT ![h] = NewPool(a, n)]
      /\ shadow' = [shadow EXCEPT ![h] = [NewShadow(n) EXCEPT !.base = st.s.base]]
      /\ heap'   = (heap \ {pool[h].memory}) \cup {a}
      /\ mem'    = Forget(st.m, pool[h].memory)
      /\ alive'  = st.alive
      /\ UNCHANGED phase

Replace(h, a, n) ==
  LET st == DestroyAllObjects(Harness(h))
  IN  IF ~st.ok THEN Abort
      ELSE /\ pool'   = [pool EXCEPT ![h] = NewPool(a, n)]
           /\ shadow' = [shadow EXCEPT ![h] = NewShadow(n)]
           /\ heap'   = (heap \ {pool[h].memory}) \cup {a}
           /\ mem'    = Forget(st.m, pool[h].memory)
           /\ alive'  = st.alive
           /\ UNCHANGED phase

\* The input is used up.
End ==
  LET first == DestroyAllObjects(Harness("a"))
      both  == DestroyAllObjects([Harness("b") EXCEPT !.m = first.m, !.alive = first.alive, !.ok = first.ok])
  IN  /\ phase'  = IF both.ok /\ both.alive = 0 THEN "ended" ELSE "aborted"
      /\ shadow' = [a |-> first.s, b |-> both.s]
      /\ mem'    = both.m
      /\ alive'  = both.alive
      /\ UNCHANGED <<pool, heap>>

Init ==
  \E p, q \in Arenas, m, n \in BlockCounts :
    /\ p # q
    /\ pool   = [a |-> NewPool(p, m), b |-> NewPool(q, n)]
    /\ shadow = [a |-> NewShadow(m), b |-> NewShadow(n)]
    /\ mem    = [x \in Cells |-> Null]
    /\ heap   = {p, q}
    /\ alive  = 0
    /\ phase  = "running"

Live(h) == DOMAIN shadow[h].live

OneOperation(h) ==
  \/ Apply(h, Allocate(Harness(h)))
  \/ Apply(h, Fill(Harness(h)))
  \/ \E n \in 0 .. MaxBatch : Apply(h, AllocateBatch(Harness(h), n))
  \/ \E at \in Live(h) : Apply(h, DeallocateOne(Harness(h), at))
  \/ \E start \in Live(h), want \in 1 .. MaxBatch, withJunk \in BOOLEAN :
       Apply(h, DeallocateBatch(Harness(h), start, want, withJunk))
  \/ \E fail \in BOOLEAN : shadow[h].blockCount # 0 /\ Apply(h, Create(Harness(h), fail))
  \/ \E at \in Live(h) : shadow[h].live[at].isObject /\ Apply(h, DestroyOne(Harness(h), at))
  \/ Apply(h, Reset(Harness(h)))
  \/ Apply(h, RejectForeign(Harness(h), shadow[Other(h)]))
  \/ Apply(h, ProbeOwns(Harness(h)))
  \/ MoveOutAndBack(h)
  \/ MoveOver(h)
  \/ MoveOntoItself(h)
  \/ \E a \in Arenas \ heap, n \in BlockCounts : Replace(h, a, n)

Next == phase = "running" /\ (End \/ \E h \in Slots : OneOperation(h))

Spec == Init /\ [][Next]_vars

---------------------------------------------------------------------------
(* Properties.                                                             *)

\* No check inside an operation fires on a correct pool, whatever sequence of
\* operations an input spells: the harness raises no false alarm.
NoFalseAlarm == phase # "aborted"

\* After each operation both pools pass verify(): counts, ownership of every
\* live block, and each block's bytes as its holder left them, also for blocks
\* that were issued by a pool since moved.
BothVerify == phase = "running" => \A h \in Slots : Verify(Harness(h))

\* Every object that was constructed and not destroyed is in a live block of
\* one of the two pools: nothing that discards blocks loses one.
ProbesAreAccounted ==
  alive = LiveObjectCount(shadow["a"]) + LiveObjectCount(shadow["b"])

\* The base a shadow has learned is the arena its pool has now, through moves
\* and replacements.
BaseIsArena ==
  \A h \in Slots : shadow[h].base # Null => shadow[h].base = Block(pool[h].memory, 0)

\* The arenas that are allocated are those of the two pools, each of one.
ArenasAreOwned ==
  /\ heap = {pool[h].memory : h \in Slots} \ {Null}
  /\ pool["a"].memory = pool["b"].memory => heap = {}

=============================================================================
