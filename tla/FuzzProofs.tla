------------------------------- MODULE FuzzProofs --------------------------------
(***************************************************************************)
(* Proofs about module FuzzHarness, for any arenas, block counts, batches  *)
(* and tags: whatever the input spells, no check of the harness fires on a *)
(* correct pool.  The invariant says how a shadow and its pool agree, also *)
(* in the middle of an operation, when some blocks are on their way: every *)
(* operation is made of four moves of blocks that keep the two in step.    *)
(***************************************************************************)
EXTENDS FuzzHarness, SelectionTheorems, SequenceTheorems

---------------------------------------------------------------------------
(* What the state is made of.                                              *)

Tags == 0 .. TagMod - 1

Words == Cells \cup {Null} \cup ({"raw", "probe"} \X Tags)

Memories == [Cells -> Words]

Pools == [blockCount : Nat, memory : Arenas \cup {Null}, freeList : Cells \cup {Null},
          watermark : Nat, freeBlockCount : Int]

Lives == [index : Nat, tag : Tags, isObject : BOOLEAN]

Shadows == [blockCount : Nat, base : Cells \cup {Null}, watermark : Nat, freeStack : Seq(Nat),
            live : Seq(Lives), nextTag : Tags]

(* What an operation works on, no check of it having failed.               *)
State(p, s, m, n) == [pool |-> p, s |-> s, m |-> m, alive |-> n, ok |-> TRUE]

FreeBlocks(s) == {s.freeStack[k] : k \in 1 .. Len(s.freeStack)}

LiveBlocks(s) == {s.live[k].index : k \in 1 .. Len(s.live)}

(* The two count the same blocks.                                          *)
Counted(p, s) ==
  /\ p.blockCount = s.blockCount /\ p.watermark = s.watermark /\ s.watermark <= s.blockCount
  /\ p.freeBlockCount = Len(s.freeStack) + (s.blockCount - s.watermark)

(* The pool has an arena unless it was moved from, and the shadow knows    *)
(* where it is once a block was seen.                                      *)
Placed(p, s) ==
  /\ p.memory = Null => p.blockCount = 0
  /\ p.memory # Null => p.blockCount \in BlockCounts
  /\ s.base # Null => s.base = Block(p.memory, 0)
  /\ s.live # <<>> => s.base # Null

(* Every block issued so far is free, live or on its way, and one of these *)
(* only.                                                                   *)
Parted(s, X) ==
  /\ \A i, j \in 1 .. Len(s.freeStack) : i # j => s.freeStack[i] # s.freeStack[j]
  /\ \A i, j \in 1 .. Len(s.live) : i # j => s.live[i].index # s.live[j].index
  /\ FreeBlocks(s) \cap LiveBlocks(s) = {}
  /\ X \cap (FreeBlocks(s) \cup LiveBlocks(s)) = {}
  /\ FreeBlocks(s) \cup LiveBlocks(s) \cup X = 0 .. s.watermark - 1

(* The pool's free list, link by link, is the shadow's stack.              *)
Linked(p, s, m) ==
  /\ p.freeList = IF s.freeStack = <<>> THEN Null ELSE Block(p.memory, s.freeStack[Len(s.freeStack)])
  /\ \A k \in 1 .. Len(s.freeStack) :
       m[Block(p.memory, s.freeStack[k])] = IF k = 1 THEN Null ELSE Block(p.memory, s.freeStack[k-1])

(* Live blocks are as their holders filled them.                           *)
Filled(p, s, m) ==
  \A k \in 1 .. Len(s.live) : m[Block(p.memory, s.live[k].index)] = Content(s.live[k])

(* The pool and its shadow agree, the blocks X being on their way.         *)
Agree(p, s, m, X) ==
  /\ p \in Pools /\ s \in Shadows /\ m \in Memories
  /\ Counted(p, s) /\ Placed(p, s) /\ Parted(s, X) /\ Linked(p, s, m) /\ Filled(p, s, m)

---------------------------------------------------------------------------
(* Blocks.                                                                 *)

(* Different blocks have different addresses, and no address is null.      *)
LEMMA Addresses ==
  /\ \A a, b, i, j : Block(a, i) = Block(b, j) <=> a = b /\ i = j
  /\ \A a, i : Block(a, i)[1] = a /\ Block(a, i)[2] = i /\ Block(a, i)[3] = 0
  /\ \A c \in Cells : c # Null /\ \E a \in Arenas, i \in Nat : c = Block(a, i)
<1>1. /\ \A a, b, i, j : Block(a, i) = Block(b, j) <=> a = b /\ i = j
      /\ \A a, i : Block(a, i)[1] = a /\ Block(a, i)[2] = i /\ Block(a, i)[3] = 0
  BY DEF Block
<1>2. ASSUME NEW c \in Cells PROVE c # Null /\ \E a \in Arenas, i \in Nat : c = Block(a, i)
  <2>1. PICK a \in Arenas, i \in UNION {0 .. n - 1 : n \in BlockCounts} : c = Block(a, i)
    BY DEF Cells
  <2>2. PICK n \in BlockCounts : i \in 0 .. n - 1
    BY <2>1
  <2>3. n \in Nat /\ i \in Nat
    BY <2>2, FuzzAssumption
  <2> QED BY <2>1, <2>3, FuzzAssumption
<1> QED BY <1>1, <1>2

(* The blocks of a pool that agrees with its shadow are cells.             *)
LEMMA BlocksAreCells ==
  ASSUME NEW p \in Pools, NEW s \in Shadows, Counted(p, s), Placed(p, s),
         NEW i \in 0 .. s.blockCount - 1
  PROVE  /\ p.memory \in Arenas /\ Block(p.memory, i) \in Cells
         /\ Owns(p, Block(p.memory, i))
<1>1. p.blockCount = s.blockCount /\ p.blockCount \in Nat /\ p.memory \in Arenas \cup {Null}
  BY DEF Pools, Counted
<1>2. p.memory \in Arenas /\ p.blockCount \in BlockCounts
  BY <1>1 DEF Placed
<1>3. i \in 0 .. p.blockCount - 1
  BY <1>1
<1>4. i \in UNION {0 .. n - 1 : n \in BlockCounts}
  BY <1>2, <1>3
<1>5. Block(p.memory, i) \in Cells
  BY <1>2, <1>4 DEF Cells
<1> QED BY <1>2, <1>3, <1>5, Addresses DEF Owns

(* A free, live or travelling block is a block of the arena.               *)
LEMMA IssuedAreCells ==
  ASSUME NEW p, NEW s, NEW m, NEW X, Agree(p, s, m, X),
         NEW i \in FreeBlocks(s) \cup LiveBlocks(s) \cup X
  PROVE  /\ i \in Nat /\ i < s.watermark /\ i \in 0 .. s.blockCount - 1
         /\ p.memory \in Arenas /\ Block(p.memory, i) \in Cells
         /\ Owns(p, Block(p.memory, i))
<1>1. s \in Shadows /\ p \in Pools /\ Counted(p, s) /\ Placed(p, s)
  BY DEF Agree
<1>2. s.watermark \in Nat /\ s.blockCount \in Nat /\ s.watermark <= s.blockCount
  BY <1>1 DEF Shadows, Counted
<1>3. i \in 0 .. s.watermark - 1
  BY DEF Agree, Parted
<1>4. i \in Nat /\ i < s.watermark /\ i \in 0 .. s.blockCount - 1
  BY <1>2, <1>3
<1> QED BY <1>1, <1>4, BlocksAreCells

---------------------------------------------------------------------------
(* The moves of a block.                                                   *)

(* Block i is the one that is due; what acquiring it leaves behind.        *)
Issues(p, s, m, X, i, p2, s2) ==
  /\ Acquire(p, m) = [got |-> Block(p.memory, i), pool |-> p2]
  /\ TakeNext(s) = [idx |-> i, s |-> s2]
  /\ i \in Nat /\ i \notin X /\ i \notin LiveBlocks(s)
  /\ Agree(p2, s2, m, X \cup {i})
  /\ p2.memory = p.memory /\ p2.blockCount = p.blockCount
  /\ s2.live = s.live /\ s2.base = s.base /\ s2.nextTag = s.nextTag
  /\ FreeBlocks(s2) \subseteq FreeBlocks(s)

(* The last element of a nonempty sequence and what is before it.          *)
LEMMA FrontLast ==
  ASSUME NEW S, NEW q \in Seq(S), q # <<>>
  PROVE  /\ Len(q) \in Nat \ {0} /\ Last(q) = q[Len(q)] /\ Last(q) \in S
         /\ Front(q) \in Seq(S) /\ Len(Front(q)) = Len(q) - 1
         /\ \A k \in 1 .. Len(q) - 1 : Front(q)[k] = q[k]
<1>1. Len(q) \in Nat \ {0}
  BY EmptySeq
<1>2. /\ Front(q) = SubSeq(q, 1, Len(q) - 1) /\ Last(q) = q[Len(q)]
  BY DEF Front, Last
<1>3. \A k \in 1 .. Len(q) : q[k] \in S
  OBVIOUS
<1>4. /\ SubSeq(q, 1, Len(q) - 1) \in Seq(S) /\ Len(SubSeq(q, 1, Len(q) - 1)) = Len(q) - 1
      /\ \A k \in 1 .. Len(q) - 1 : SubSeq(q, 1, Len(q) - 1)[k] = q[k]
  <2> DEFINE n == Len(q)
             t == SubSeq(q, 1, n - 1)
  <2>1. n \in Nat /\ n >= 1 /\ n - 1 \in Int /\ 1 \in Int /\ \A k \in 1 .. n - 1 : q[k] \in S
    BY <1>1, <1>3
  <2> HIDE DEF n
  <2>2. /\ t \in Seq(S) /\ Len(t) = IF 1 <= n - 1 THEN (n - 1) - 1 + 1 ELSE 0
        /\ \A k \in 1 .. (n - 1) - 1 + 1 : t[k] = q[1 + k - 1]
    BY <2>1, SubSeqProperties
  <2>3. Len(t) = n - 1 /\ \A k \in 1 .. n - 1 : t[k] = q[k]
    BY <2>1, <2>2
  <2> QED BY <2>2, <2>3 DEF n
<1> QED BY <1>1, <1>2, <1>3, <1>4

(* Popping the free list: the shadow pops its stack.                       *)
LEMMA IssueFree ==
  ASSUME NEW p, NEW s, NEW m, NEW X, Agree(p, s, m, X), s.freeStack # <<>>
  PROVE  \E i, p2, s2 : Issues(p, s, m, X, i, p2, s2)
<1> DEFINE f == s.freeStack
           n == Len(f)
           i == f[n]
           p2 == [p EXCEPT !.freeList = m[p.freeList], !.freeBlockCount = p.freeBlockCount - 1]
           s2 == [s EXCEPT !.freeStack = Front(f)]
<1>1. /\ p \in Pools /\ s \in Shadows /\ m \in Memories
      /\ Counted(p, s) /\ Placed(p, s) /\ Parted(s, X) /\ Linked(p, s, m) /\ Filled(p, s, m)
  BY DEF Agree
<1>2. f \in Seq(Nat) /\ f # <<>>
  BY <1>1 DEF Shadows
<1>3. /\ n \in Nat \ {0} /\ Last(f) = i /\ i \in Nat
      /\ Front(f) \in Seq(Nat) /\ Len(Front(f)) = n - 1
      /\ \A k \in 1 .. n - 1 : Front(f)[k] = f[k]
  <2> HIDE DEF f
  <2>1. /\ Len(f) \in Nat \ {0} /\ Last(f) = f[Len(f)] /\ Last(f) \in Nat
        /\ Front(f) \in Seq(Nat) /\ Len(Front(f)) = Len(f) - 1
        /\ \A k \in 1 .. Len(f) - 1 : Front(f)[k] = f[k]
    BY <1>2, FrontLast
  <2> QED BY <2>1
<1>4. i \in FreeBlocks(s)
  BY <1>3 DEF FreeBlocks
<1>5. i \notin X /\ i \notin LiveBlocks(s)
  BY <1>1, <1>4 DEF Parted
<1>6. p.freeList = Block(p.memory, i) /\ Block(p.memory, i) \in Cells /\ p.memory \in Arenas
  <2>1. Block(p.memory, i) \in Cells /\ p.memory \in Arenas
    BY <1>4, IssuedAreCells
  <2> QED BY <1>1, <1>2, <2>1 DEF Linked
<1>7. p.freeList # Null
  BY <1>6, FuzzAssumption
<1>8. m[p.freeList] = IF n = 1 THEN Null ELSE Block(p.memory, f[n-1])
  <2> HIDE DEF n
  <2>1. n \in 1 .. n
    BY <1>3
  <2>2. m[Block(p.memory, f[n])] = IF n = 1 THEN Null ELSE Block(p.memory, f[n-1])
    BY <1>1, <2>1 DEF Linked, n
  <2> QED BY <1>6, <2>2
<1>9. m[p.freeList] \in Cells \cup {Null}
  <2>1. CASE n = 1
    BY <1>8, <2>1
  <2>2. CASE n # 1
    <3> HIDE DEF n
    <3>1. n - 1 \in 1 .. n
      BY <1>3, <2>2
    <3>2. f[n-1] \in FreeBlocks(s)
      BY <3>1 DEF FreeBlocks, n
    <3>3. Block(p.memory, f[n-1]) \in Cells
      BY <3>2, IssuedAreCells
    <3> QED BY <1>8, <2>2, <3>3
  <2> QED BY <2>1, <2>2
<1>10. p.freeBlockCount - 1 \in Int
  BY <1>1 DEF Pools
<1>11. /\ p2 \in Pools /\ p2.memory = p.memory /\ p2.blockCount = p.blockCount
       /\ p2.watermark = p.watermark /\ p2.freeList = m[p.freeList]
       /\ p2.freeBlockCount = p.freeBlockCount - 1
  BY <1>1, <1>9, <1>10 DEF Pools
<1>12. /\ s2 \in Shadows /\ s2.live = s.live /\ s2.base = s.base /\ s2.nextTag = s.nextTag
       /\ s2.watermark = s.watermark /\ s2.blockCount = s.blockCount /\ s2.freeStack = Front(f)
  BY <1>1, <1>3 DEF Shadows
<1>13. Acquire(p, m) = [got |-> Block(p.memory, i), pool |-> p2]
  <2>1. [p EXCEPT !.freeList = m[@], !.freeBlockCount = @ - 1] = p2
    BY <1>1 DEF Pools
  <2> HIDE DEF p2, i
  <2> QED BY <1>6, <1>7, <2>1 DEF Acquire
<1>14. TakeNext(s) = [idx |-> i, s |-> s2]
  <2>1. [s EXCEPT !.freeStack = Front(@)] = s2
    BY <1>1 DEF Shadows
  <2> HIDE DEF s2, i
  <2> QED BY <1>2, <1>3, <2>1 DEF TakeNext
<1> HIDE DEF p2, s2, i, f, n
<1>15. LiveBlocks(s2) = LiveBlocks(s)
  BY <1>12 DEF LiveBlocks
<1>16. FreeBlocks(s) = FreeBlocks(s2) \cup {i} /\ i \notin FreeBlocks(s2)
  <2>1. FreeBlocks(s2) = {f[k] : k \in 1 .. n - 1}
    BY <1>3, <1>12 DEF FreeBlocks
  <2>2. FreeBlocks(s) = {f[k] : k \in 1 .. n}
    BY DEF FreeBlocks, f, n
  <2>3. \A k \in 1 .. n : k = n \/ k \in 1 .. n - 1
    BY <1>3
  <2>4. \A k \in 1 .. n - 1 : k \in 1 .. n /\ k # n /\ f[k] # f[n]
    BY <1>1, <1>3 DEF Parted, f, n
  <2>5. i = f[n] /\ n \in 1 .. n
    BY <1>3 DEF i
  <2> QED BY <2>1, <2>2, <2>3, <2>4, <2>5
<1>17. Counted(p2, s2)
  <2>1. Len(s2.freeStack) = Len(s.freeStack) - 1 /\ Len(s.freeStack) \in Nat
    BY <1>3, <1>12 DEF f, n
  <2>2. /\ p.blockCount = s.blockCount /\ p.watermark = s.watermark /\ s.watermark <= s.blockCount
        /\ p.freeBlockCount = Len(s.freeStack) + (s.blockCount - s.watermark)
    BY <1>1 DEF Counted
  <2>3. s.blockCount \in Nat /\ s.watermark \in Nat
    BY <1>1 DEF Shadows
  <2>4. p2.freeBlockCount = Len(s2.freeStack) + (s2.blockCount - s2.watermark)
    BY <1>11, <1>12, <2>1, <2>2, <2>3
  <2> QED BY <1>11, <1>12, <2>2, <2>4 DEF Counted
<1>18. Placed(p2, s2)
  BY <1>1, <1>11, <1>12 DEF Placed
<1>19. Parted(s2, X \cup {i})
  <2>1. \A j, k \in 1 .. Len(s2.freeStack) : j # k => s2.freeStack[j] # s2.freeStack[k]
    <3>1. Len(s2.freeStack) = n - 1 /\ \A k \in 1 .. n - 1 : s2.freeStack[k] = f[k] /\ k \in 1 .. n
      BY <1>3, <1>12
    <3> QED BY <1>1, <3>1 DEF Parted, f, n
  <2>2. \A j, k \in 1 .. Len(s2.live) : j # k => s2.live[j].index # s2.live[k].index
    BY <1>1, <1>12 DEF Parted
  <2>3. /\ FreeBlocks(s2) \cap LiveBlocks(s2) = {}
        /\ (X \cup {i}) \cap (FreeBlocks(s2) \cup LiveBlocks(s2)) = {}
    BY <1>1, <1>5, <1>15, <1>16 DEF Parted
  <2>4. FreeBlocks(s2) \cup LiveBlocks(s2) \cup (X \cup {i}) = 0 .. s2.watermark - 1
    BY <1>1, <1>12, <1>15, <1>16 DEF Parted
  <2> QED BY <2>1, <2>2, <2>3, <2>4 DEF Parted
<1>20. Linked(p2, s2, m)
  <2>1. Len(s2.freeStack) = n - 1 /\ \A k \in 1 .. n - 1 : s2.freeStack[k] = f[k]
    BY <1>3, <1>12
  <2>2. p2.freeList = IF s2.freeStack = <<>> THEN Null ELSE Block(p2.memory, s2.freeStack[Len(s2.freeStack)])
    <3>1. CASE n = 1
      <4>1. s2.freeStack = <<>>
        BY <1>3, <1>12, <3>1, EmptySeq
      <4> QED BY <1>8, <1>11, <3>1, <4>1
    <3>2. CASE n # 1
      <4>1. n - 1 \in 1 .. n - 1
        BY <1>3, <3>2
      <4>2. s2.freeStack # <<>>
        BY <1>3, <1>12, <4>1, EmptySeq
      <4> QED BY <1>8, <1>11, <2>1, <3>2, <4>1, <4>2
    <3> QED BY <3>1, <3>2
  <2>3. ASSUME NEW k \in 1 .. Len(s2.freeStack)
        PROVE  m[Block(p2.memory, s2.freeStack[k])]
                 = IF k = 1 THEN Null ELSE Block(p2.memory, s2.freeStack[k-1])
    <3>1. k \in 1 .. n - 1 /\ k \in 1 .. n /\ (k # 1 => k - 1 \in 1 .. n - 1)
      BY <1>3, <2>1
    <3>2. s2.freeStack[k] = f[k] /\ (k # 1 => s2.freeStack[k-1] = f[k-1])
      BY <2>1, <3>1
    <3>3. m[Block(p.memory, f[k])] = IF k = 1 THEN Null ELSE Block(p.memory, f[k-1])
      BY <1>1, <3>1 DEF Linked, f, n
    <3> QED BY <1>11, <3>2, <3>3
  <2> QED BY <2>2, <2>3 DEF Linked
<1>21. Filled(p2, s2, m)
  BY <1>1, <1>11, <1>12 DEF Filled
<1>22. Agree(p2, s2, m, X \cup {i})
  BY <1>1, <1>11, <1>12, <1>17, <1>18, <1>19, <1>20, <1>21 DEF Agree
<1>23. Issues(p, s, m, X, i, p2, s2)
  BY <1>3, <1>5, <1>11, <1>12, <1>13, <1>14, <1>16, <1>22 DEF Issues
<1> QED BY <1>23

(* Without a free list the next virgin block is due.                       *)
LEMMA IssueVirgin ==
  ASSUME NEW p, NEW s, NEW m, NEW X, Agree(p, s, m, X),
         s.freeStack = <<>>, s.watermark < s.blockCount
  PROVE  \E i, p2, s2 : Issues(p, s, m, X, i, p2, s2)
<1> DEFINE i == s.watermark
           p2 == [p EXCEPT !.watermark = p.watermark + 1, !.freeBlockCount = p.freeBlockCount - 1]
           s2 == [s EXCEPT !.watermark = s.watermark + 1]
<1>1. /\ p \in Pools /\ s \in Shadows /\ m \in Memories
      /\ Counted(p, s) /\ Placed(p, s) /\ Parted(s, X) /\ Linked(p, s, m) /\ Filled(p, s, m)
  BY DEF Agree
<1>2. i \in Nat /\ p.watermark = i /\ p.blockCount = s.blockCount /\ s.blockCount \in Nat
  BY <1>1 DEF Shadows, Counted
<1>3. p.freeList = Null
  BY <1>1 DEF Linked
<1>4. p.freeBlockCount - 1 \in Int /\ i + 1 \in Nat
  BY <1>1, <1>2 DEF Pools
<1>5. /\ p2 \in Pools /\ p2.memory = p.memory /\ p2.blockCount = p.blockCount
      /\ p2.watermark = i + 1 /\ p2.freeList = p.freeList
      /\ p2.freeBlockCount = p.freeBlockCount - 1
  BY <1>1, <1>2, <1>4 DEF Pools
<1>6. /\ s2 \in Shadows /\ s2.live = s.live /\ s2.base = s.base /\ s2.nextTag = s.nextTag
      /\ s2.watermark = i + 1 /\ s2.blockCount = s.blockCount /\ s2.freeStack = s.freeStack
  BY <1>1, <1>2, <1>4 DEF Shadows
<1>7. Acquire(p, m) = [got |-> Block(p.memory, i), pool |-> p2]
  <2>1. [p EXCEPT !.watermark = @ + 1, !.freeBlockCount = @ - 1] = p2
    BY <1>1 DEF Pools
  <2> HIDE DEF p2, i
  <2> QED BY <1>2, <1>3, <2>1 DEF Acquire, i
<1>8. TakeNext(s) = [idx |-> i, s |-> s2]
  BY DEF TakeNext
<1> HIDE DEF p2, s2, i
<1>9. LiveBlocks(s2) = LiveBlocks(s) /\ FreeBlocks(s2) = FreeBlocks(s)
  BY <1>6 DEF LiveBlocks, FreeBlocks
<1>10. i \notin X /\ i \notin LiveBlocks(s) /\ i \notin FreeBlocks(s)
  <2>1. i \notin 0 .. i - 1
    BY <1>2
  <2>2. FreeBlocks(s) \cup LiveBlocks(s) \cup X = 0 .. i - 1
    BY <1>1 DEF Parted, i
  <2> QED BY <2>1, <2>2
<1>11. Counted(p2, s2)
  <2>1. Len(s.freeStack) \in Nat
    BY <1>1 DEF Shadows
  <2>2. i + 1 <= s.blockCount
    BY <1>2 DEF i
  <2>3. p.freeBlockCount = Len(s.freeStack) + (s.blockCount - i)
    BY <1>1 DEF Counted, i
  <2>4. p.freeBlockCount - 1 = Len(s.freeStack) + (s.blockCount - (i + 1))
    BY <1>2, <2>1, <2>3
  <2> QED BY <1>2, <1>5, <1>6, <2>2, <2>4 DEF Counted
<1>12. Placed(p2, s2)
  BY <1>1, <1>5, <1>6 DEF Placed
<1>13. Parted(s2, X \cup {i})
  <2>1. FreeBlocks(s2) \cup LiveBlocks(s2) \cup (X \cup {i}) = 0 .. s2.watermark - 1
    <3>1. FreeBlocks(s) \cup LiveBlocks(s) \cup X = 0 .. i - 1
      BY <1>1 DEF Parted, i
    <3>2. 0 .. (i + 1) - 1 = (0 .. i - 1) \cup {i}
      BY <1>2
    <3> QED BY <1>6, <1>9, <3>1, <3>2
  <2>2. /\ FreeBlocks(s2) \cap LiveBlocks(s2) = {}
        /\ (X \cup {i}) \cap (FreeBlocks(s2) \cup LiveBlocks(s2)) = {}
    BY <1>1, <1>9, <1>10 DEF Parted
  <2> QED BY <1>1, <1>6, <2>1, <2>2 DEF Parted
<1>14. Linked(p2, s2, m) /\ Filled(p2, s2, m)
  BY <1>1, <1>5, <1>6 DEF Linked, Filled
<1>15. Agree(p2, s2, m, X \cup {i})
  BY <1>1, <1>5, <1>6, <1>11, <1>12, <1>13, <1>14 DEF Agree
<1>16. Issues(p, s, m, X, i, p2, s2)
  BY <1>2, <1>5, <1>6, <1>7, <1>8, <1>9, <1>10, <1>15 DEF Issues
<1> QED BY <1>16

(* The pool hands out the block the shadow says is due, and none if none   *)
(* is.                                                                     *)
LEMMA Issue ==
  ASSUME NEW p, NEW s, NEW m, NEW X, Agree(p, s, m, X)
  PROVE  \/ \E i, p2, s2 : Issues(p, s, m, X, i, p2, s2)
         \/ Acquire(p, m) = [got |-> Null, pool |-> p] /\ TakeNext(s) = [idx |-> Null, s |-> s]
<1>1. CASE s.freeStack # <<>>
  BY <1>1, IssueFree
<1>2. CASE s.freeStack = <<>> /\ s.watermark < s.blockCount
  BY <1>2, IssueVirgin
<1>3. CASE s.freeStack = <<>> /\ ~ (s.watermark < s.blockCount)
  <2>1. p.freeList = Null /\ ~ (p.watermark < p.blockCount)
    BY <1>3 DEF Agree, Linked, Counted
  <2> QED BY <1>3, <2>1 DEF Acquire, TakeNext
<1> QED BY <1>1, <1>2, <1>3

(* The pool and memory once block i is back.                               *)
PoolBack(p, i) == [p EXCEPT !.freeList = Block(p.memory, i), !.freeBlockCount = p.freeBlockCount + 1]

MemoryBack(p, m, i) == [m EXCEPT ![Block(p.memory, i)] = p.freeList]

(* A block on its way is released: it is linked in at the head, and goes   *)
(* on the shadow's stack.                                                  *)
LEMMA Release ==
  ASSUME NEW p, NEW s, NEW m, NEW X, Agree(p, s, m, X), NEW i \in X
  PROVE  Agree(PoolBack(p, i), [s EXCEPT !.freeStack = Append(s.freeStack, i)], MemoryBack(p, m, i), X \ {i})
<1> DEFINE f == s.freeStack
           n == Len(f)
           c == Block(p.memory, i)
           p2 == [p EXCEPT !.freeList = c, !.freeBlockCount = p.freeBlockCount + 1]
           s2 == [s EXCEPT !.freeStack = Append(f, i)]
           m2 == [m EXCEPT ![c] = p.freeList]
<1>1. /\ p \in Pools /\ s \in Shadows /\ m \in Memories
      /\ Counted(p, s) /\ Placed(p, s) /\ Parted(s, X) /\ Linked(p, s, m) /\ Filled(p, s, m)
  BY DEF Agree
<1>2. i \in Nat /\ c \in Cells
  BY IssuedAreCells
<1>3. f \in Seq(Nat) /\ n \in Nat
  BY <1>1 DEF Shadows
<1>4. /\ Append(f, i) \in Seq(Nat) /\ Len(Append(f, i)) = n + 1
      /\ Append(f, i)[n + 1] = i /\ \A k \in 1 .. n : Append(f, i)[k] = f[k]
  <2> HIDE DEF f
  <2> QED BY <1>2, <1>3
<1>5. p.freeBlockCount + 1 \in Int /\ p.freeList \in Cells \cup {Null}
  BY <1>1 DEF Pools
<1>6. /\ p2 \in Pools /\ p2.memory = p.memory /\ p2.blockCount = p.blockCount
      /\ p2.watermark = p.watermark /\ p2.freeList = c
      /\ p2.freeBlockCount = p.freeBlockCount + 1
  BY <1>1, <1>2, <1>5 DEF Pools
<1>7. /\ s2 \in Shadows /\ s2.live = s.live /\ s2.base = s.base
      /\ s2.watermark = s.watermark /\ s2.blockCount = s.blockCount /\ s2.freeStack = Append(f, i)
  BY <1>1, <1>4 DEF Shadows
<1>8. /\ m2 \in Memories /\ m2[c] = p.freeList /\ \A d \in Cells : d # c => m2[d] = m[d]
  <2>1. p.freeList \in Words
    BY <1>5 DEF Words
  <2> HIDE DEF c
  <2> QED BY <1>1, <1>2, <2>1 DEF Memories
<1> HIDE DEF p2, s2, m2, c, f, n
<1>9. LiveBlocks(s2) = LiveBlocks(s)
  BY <1>7 DEF LiveBlocks
<1>10. FreeBlocks(s2) = FreeBlocks(s) \cup {i}
  <2>1. FreeBlocks(s2) = {Append(f, i)[k] : k \in 1 .. n + 1}
    BY <1>4, <1>7 DEF FreeBlocks
  <2>2. FreeBlocks(s) = {f[k] : k \in 1 .. n}
    BY DEF FreeBlocks, f, n
  <2>3. \A k \in 1 .. n + 1 : k = n + 1 \/ k \in 1 .. n
    BY <1>3
  <2>4. n + 1 \in 1 .. n + 1 /\ \A k \in 1 .. n : k \in 1 .. n + 1
    BY <1>3
  <2> QED BY <1>4, <2>1, <2>2, <2>3, <2>4
<1>11. i \notin FreeBlocks(s) /\ i \notin LiveBlocks(s)
  BY <1>1 DEF Parted
<1>12. Counted(p2, s2)
  <2>1. Len(s2.freeStack) = Len(s.freeStack) + 1 /\ Len(s.freeStack) \in Nat
    BY <1>3, <1>4, <1>7 DEF f, n
  <2>2. /\ p.blockCount = s.blockCount /\ p.watermark = s.watermark /\ s.watermark <= s.blockCount
        /\ p.freeBlockCount = Len(s.freeStack) + (s.blockCount - s.watermark)
    BY <1>1 DEF Counted
  <2>3. s.blockCount \in Nat /\ s.watermark \in Nat
    BY <1>1 DEF Shadows
  <2>4. p2.freeBlockCount = Len(s2.freeStack) + (s2.blockCount - s2.watermark)
    BY <1>6, <1>7, <2>1, <2>2, <2>3
  <2> QED BY <1>6, <1>7, <2>2, <2>4 DEF Counted
<1>13. Placed(p2, s2)
  BY <1>1, <1>6, <1>7 DEF Placed
<1>14. Parted(s2, X \ {i})
  <2>1. ASSUME NEW j \in 1 .. Len(s2.freeStack), NEW k \in 1 .. Len(s2.freeStack), j # k
        PROVE  s2.freeStack[j] # s2.freeStack[k]
    <3>1. \A l \in 1 .. n : f[l] # i /\ s2.freeStack[l] = f[l]
      <4>1. \A l \in 1 .. n : f[l] \in FreeBlocks(s)
        BY DEF FreeBlocks, f, n
      <4> QED BY <1>4, <1>7, <1>11, <4>1
    <3>2. \A l, o \in 1 .. n : l # o => f[l] # f[o]
      BY <1>1 DEF Parted, f, n
    <3>3. s2.freeStack[n + 1] = i /\ Len(s2.freeStack) = n + 1
      BY <1>4, <1>7
    <3>4. (j = n + 1 \/ j \in 1 .. n) /\ (k = n + 1 \/ k \in 1 .. n)
      BY <1>3, <3>3
    <3> QED BY <2>1, <3>1, <3>2, <3>3, <3>4
  <2>2. \A j, k \in 1 .. Len(s2.live) : j # k => s2.live[j].index # s2.live[k].index
    BY <1>1, <1>7 DEF Parted
  <2>3. /\ FreeBlocks(s2) \cap LiveBlocks(s2) = {}
        /\ (X \ {i}) \cap (FreeBlocks(s2) \cup LiveBlocks(s2)) = {}
    BY <1>1, <1>9, <1>10, <1>11 DEF Parted
  <2>4. FreeBlocks(s2) \cup LiveBlocks(s2) \cup (X \ {i}) = 0 .. s2.watermark - 1
    BY <1>1, <1>7, <1>9, <1>10 DEF Parted
  <2> QED BY <2>1, <2>2, <2>3, <2>4 DEF Parted
<1>15. \A j \in FreeBlocks(s) \cup LiveBlocks(s) : m2[Block(p.memory, j)] = m[Block(p.memory, j)]
  <2> SUFFICES ASSUME NEW j \in FreeBlocks(s) \cup LiveBlocks(s)
               PROVE  m2[Block(p.memory, j)] = m[Block(p.memory, j)]
    OBVIOUS
  <2>1. Block(p.memory, j) \in Cells
    BY IssuedAreCells
  <2>2. Block(p.memory, j) # c
    BY <1>11, Addresses DEF c
  <2> QED BY <1>8, <2>1, <2>2
<1>16. Linked(p2, s2, m2)
  <2>1. Len(s2.freeStack) = n + 1 /\ s2.freeStack[n + 1] = i /\ \A k \in 1 .. n : s2.freeStack[k] = f[k]
    BY <1>4, <1>7
  <2>2. s2.freeStack # <<>>
    BY <1>3, <1>7, <2>1, EmptySeq
  <2>3. p2.freeList = IF s2.freeStack = <<>> THEN Null ELSE Block(p2.memory, s2.freeStack[Len(s2.freeStack)])
    BY <1>6, <2>1, <2>2 DEF c
  <2>4. ASSUME NEW k \in 1 .. Len(s2.freeStack)
        PROVE  m2[Block(p2.memory, s2.freeStack[k])]
                 = IF k = 1 THEN Null ELSE Block(p2.memory, s2.freeStack[k-1])
    <3>1. CASE k = n + 1
      <4>1. m2[Block(p2.memory, s2.freeStack[k])] = p.freeList
        BY <1>6, <1>8, <2>1, <3>1 DEF c
      <4>2. CASE n = 0
        <5>1. f = <<>>
          BY <1>3, <4>2, EmptySeq DEF n
        <5> QED BY <1>1, <3>1, <4>1, <4>2, <5>1 DEF Linked, f
      <4>3. CASE n # 0
        <5>1. f # <<>> /\ n \in 1 .. n /\ k # 1 /\ k - 1 = n
          BY <1>3, <3>1, <4>3, EmptySeq DEF n
        <5>2. p.freeList = Block(p.memory, f[n])
          BY <1>1, <5>1 DEF Linked, f, n
        <5> QED BY <1>6, <2>1, <4>1, <5>1, <5>2
      <4> QED BY <4>2, <4>3
    <3>2. CASE k \in 1 .. n
      <4>1. m[Block(p.memory, f[k])] = IF k = 1 THEN Null ELSE Block(p.memory, f[k-1])
        BY <1>1, <3>2 DEF Linked, f, n
      <4>2. f[k] \in FreeBlocks(s)
        BY <3>2 DEF FreeBlocks, f, n
      <4>3. k # 1 => k - 1 \in 1 .. n
        BY <1>3, <3>2
      <4>4. s2.freeStack[k] = f[k] /\ (k # 1 => s2.freeStack[k-1] = f[k-1])
        BY <2>1, <3>2, <4>3
      <4> QED BY <1>6, <1>15, <4>1, <4>2, <4>4
    <3> QED BY <1>3, <2>1, <3>1, <3>2
  <2> QED BY <2>3, <2>4 DEF Linked
<1>17. Filled(p2, s2, m2)
  <2> SUFFICES ASSUME NEW k \in 1 .. Len(s2.live)
               PROVE  m2[Block(p2.memory, s2.live[k].index)] = Content(s2.live[k])
    BY DEF Filled
  <2>1. k \in 1 .. Len(s.live) /\ s2.live[k] = s.live[k]
    BY <1>7
  <2>2. s.live[k].index \in LiveBlocks(s)
    BY <2>1 DEF LiveBlocks
  <2>3. m[Block(p.memory, s.live[k].index)] = Content(s.live[k])
    BY <1>1, <2>1 DEF Filled
  <2> QED BY <1>6, <1>15, <2>1, <2>2, <2>3
<1>18. Agree(p2, s2, m2, X \ {i})
  BY <1>1, <1>6, <1>7, <1>8, <1>12, <1>13, <1>14, <1>16, <1>17 DEF Agree
<1> QED BY <1>18 DEF p2, s2, m2, c, f, PoolBack, MemoryBack

(* What a holder fills a block with is a word of memory.                   *)
LEMMA ContentIsWord ==
  ASSUME NEW l \in Lives
  PROVE  Content(l) \in Words
<1>1. l.isObject \in BOOLEAN /\ l.tag \in Tags
  BY DEF Lives
<1>2. Content(l) = <<"probe", l.tag>> \/ Content(l) = <<"raw", l.tag>>
  BY DEF Content
<1> QED BY <1>1, <1>2 DEF Words

(* A block on its way gets a holder: it is filled, and entered in the      *)
(* shadow, which knows by now where the arena is.                          *)
LEMMA Hold ==
  ASSUME NEW p, NEW s, NEW m, NEW X, Agree(p, s, m, X), NEW i \in X,
         NEW l \in Lives, l.index = i, NEW t \in Tags
  PROVE  Agree(p, [s EXCEPT !.base = Block(p.memory, 0), !.nextTag = t, !.live = Append(s.live, l)],
               [m EXCEPT ![Block(p.memory, i)] = Content(l)], X \ {i})
<1> DEFINE q == s.live
           n == Len(q)
           c == Block(p.memory, i)
           b == Block(p.memory, 0)
           s2 == [s EXCEPT !.base = b, !.nextTag = t, !.live = Append(q, l)]
           m2 == [m EXCEPT ![c] = Content(l)]
<1>1. /\ p \in Pools /\ s \in Shadows /\ m \in Memories
      /\ Counted(p, s) /\ Placed(p, s) /\ Parted(s, X) /\ Linked(p, s, m) /\ Filled(p, s, m)
  BY DEF Agree
<1>2. i \in Nat /\ c \in Cells /\ i \in 0 .. s.blockCount - 1
  BY IssuedAreCells
<1>3. b \in Cells
  <2>1. 0 \in 0 .. s.blockCount - 1
    BY <1>1, <1>2 DEF Shadows
  <2> QED BY <1>1, <2>1, BlocksAreCells
<1>4. q \in Seq(Lives) /\ n \in Nat
  BY <1>1 DEF Shadows
<1>5. /\ Append(q, l) \in Seq(Lives) /\ Len(Append(q, l)) = n + 1
      /\ Append(q, l)[n + 1] = l /\ \A k \in 1 .. n : Append(q, l)[k] = q[k]
  <2> HIDE DEF q
  <2> QED BY <1>4
<1>6. /\ s2 \in Shadows /\ s2.live = Append(q, l) /\ s2.base = b
      /\ s2.watermark = s.watermark /\ s2.blockCount = s.blockCount /\ s2.freeStack = s.freeStack
  <2> HIDE DEF b, q
  <2> QED BY <1>1, <1>3, <1>5 DEF Shadows
<1>7. /\ m2 \in Memories /\ m2[c] = Content(l) /\ \A d \in Cells : d # c => m2[d] = m[d]
  <2>1. Content(l) \in Words
    BY ContentIsWord
  <2> HIDE DEF c
  <2> QED BY <1>1, <1>2, <2>1 DEF Memories
<1> HIDE DEF s2, m2, c, b, q, n
<1>8. FreeBlocks(s2) = FreeBlocks(s)
  BY <1>6 DEF FreeBlocks
<1>9. LiveBlocks(s2) = LiveBlocks(s) \cup {i}
  <2>1. LiveBlocks(s2) = {Append(q, l)[k].index : k \in 1 .. n + 1}
    BY <1>5, <1>6 DEF LiveBlocks
  <2>2. LiveBlocks(s) = {q[k].index : k \in 1 .. n}
    BY DEF LiveBlocks, q, n
  <2>3. \A k \in 1 .. n + 1 : k = n + 1 \/ k \in 1 .. n
    BY <1>4
  <2>4. n + 1 \in 1 .. n + 1 /\ \A k \in 1 .. n : k \in 1 .. n + 1
    BY <1>4
  <2> QED BY <1>5, <2>1, <2>2, <2>3, <2>4
<1>10. i \notin FreeBlocks(s) /\ i \notin LiveBlocks(s)
  BY <1>1 DEF Parted
<1>11. Counted(p, s2)
  BY <1>1, <1>6 DEF Counted
<1>12. Placed(p, s2)
  BY <1>1, <1>3, <1>6, FuzzAssumption DEF Placed, b
<1>13. Parted(s2, X \ {i})
  <2>1. ASSUME NEW j \in 1 .. Len(s2.live), NEW k \in 1 .. Len(s2.live), j # k
        PROVE  s2.live[j].index # s2.live[k].index
    <3>1. \A o \in 1 .. n : q[o].index # i /\ s2.live[o] = q[o]
      <4>1. \A o \in 1 .. n : q[o].index \in LiveBlocks(s)
        BY DEF LiveBlocks, q, n
      <4> QED BY <1>5, <1>6, <1>10, <4>1
    <3>2. \A r, o \in 1 .. n : r # o => q[r].index # q[o].index
      BY <1>1 DEF Parted, q, n
    <3>3. s2.live[n + 1].index = i /\ Len(s2.live) = n + 1
      BY <1>5, <1>6
    <3>4. (j = n + 1 \/ j \in 1 .. n) /\ (k = n + 1 \/ k \in 1 .. n)
      BY <1>4, <3>3
    <3> QED BY <2>1, <3>1, <3>2, <3>3, <3>4
  <2>2. \A j, k \in 1 .. Len(s2.freeStack) : j # k => s2.freeStack[j] # s2.freeStack[k]
    BY <1>1, <1>6 DEF Parted
  <2>3. /\ FreeBlocks(s2) \cap LiveBlocks(s2) = {}
        /\ (X \ {i}) \cap (FreeBlocks(s2) \cup LiveBlocks(s2)) = {}
    BY <1>1, <1>8, <1>9, <1>10 DEF Parted
  <2>4. FreeBlocks(s2) \cup LiveBlocks(s2) \cup (X \ {i}) = 0 .. s2.watermark - 1
    BY <1>1, <1>6, <1>8, <1>9 DEF Parted
  <2> QED BY <2>1, <2>2, <2>3, <2>4 DEF Parted
<1>14. \A j \in FreeBlocks(s) \cup LiveBlocks(s) : m2[Block(p.memory, j)] = m[Block(p.memory, j)]
  <2> SUFFICES ASSUME NEW j \in FreeBlocks(s) \cup LiveBlocks(s)
               PROVE  m2[Block(p.memory, j)] = m[Block(p.memory, j)]
    OBVIOUS
  <2>1. Block(p.memory, j) \in Cells
    BY IssuedAreCells
  <2>2. Block(p.memory, j) # c
    BY <1>10, Addresses DEF c
  <2> QED BY <1>7, <2>1, <2>2
<1>15. Linked(p, s2, m2)
  <2>1. \A k \in 1 .. Len(s.freeStack) : s.freeStack[k] \in FreeBlocks(s)
    BY DEF FreeBlocks
  <2> QED BY <1>1, <1>6, <1>14, <2>1 DEF Linked
<1>16. Filled(p, s2, m2)
  <2> SUFFICES ASSUME NEW k \in 1 .. Len(s2.live)
               PROVE  m2[Block(p.memory, s2.live[k].index)] = Content(s2.live[k])
    BY DEF Filled
  <2>1. CASE k = n + 1
    BY <1>5, <1>6, <1>7, <2>1 DEF c
  <2>2. CASE k \in 1 .. n
    <3>1. s2.live[k] = q[k] /\ q[k].index \in LiveBlocks(s)
      BY <1>5, <1>6, <2>2 DEF LiveBlocks, q, n
    <3>2. m[Block(p.memory, q[k].index)] = Content(q[k])
      BY <1>1, <2>2 DEF Filled, q, n
    <3> QED BY <1>14, <3>1, <3>2
  <2> QED BY <1>4, <1>5, <1>6, <2>1, <2>2
<1>17. Agree(p, s2, m2, X \ {i})
  BY <1>1, <1>6, <1>7, <1>11, <1>12, <1>13, <1>15, <1>16 DEF Agree
<1> QED BY <1>17 DEF s2, m2, c, b, q

(* Holders give up the blocks D: those entries leave the shadow, the other *)
(* ones stay, in any order.                                                *)
LEMMA GiveUp ==
  ASSUME NEW p, NEW s, NEW m, NEW X, Agree(p, s, m, X),
         NEW D, D \subseteq LiveBlocks(s), NEW q \in Seq(Lives),
         \A j, k \in 1 .. Len(q) : j # k => q[j].index # q[k].index,
         \A j \in 1 .. Len(q) : \E k \in 1 .. Len(s.live) : q[j] = s.live[k] /\ s.live[k].index \notin D,
         \A k \in 1 .. Len(s.live) : s.live[k].index \notin D => \E j \in 1 .. Len(q) : q[j] = s.live[k]
  PROVE  Agree(p, [s EXCEPT !.live = q], m, X \cup D)
<1> DEFINE s2 == [s EXCEPT !.live = q]
<1>1. /\ p \in Pools /\ s \in Shadows /\ m \in Memories
      /\ Counted(p, s) /\ Placed(p, s) /\ Parted(s, X) /\ Linked(p, s, m) /\ Filled(p, s, m)
  BY DEF Agree
<1>2. /\ s2 \in Shadows /\ s2.live = q /\ s2.base = s.base
      /\ s2.watermark = s.watermark /\ s2.blockCount = s.blockCount /\ s2.freeStack = s.freeStack
  BY <1>1 DEF Shadows
<1>3. s.live \in Seq(Lives)
  BY <1>1 DEF Shadows
<1> HIDE DEF s2
<1>4. FreeBlocks(s2) = FreeBlocks(s)
  BY <1>2 DEF FreeBlocks
<1>5. LiveBlocks(s2) = LiveBlocks(s) \ D
  <2>1. ASSUME NEW d \in LiveBlocks(s2) PROVE d \in LiveBlocks(s) \ D
    <3>1. LiveBlocks(s2) = {q[j].index : j \in 1 .. Len(q)}
      BY <1>2 DEF LiveBlocks
    <3>2. PICK j \in 1 .. Len(q) : d = q[j].index
      BY <3>1
    <3>3. PICK k \in 1 .. Len(s.live) : q[j] = s.live[k] /\ s.live[k].index \notin D
      OBVIOUS
    <3>4. d = s.live[k].index
      BY <3>2, <3>3
    <3> QED BY <3>3, <3>4 DEF LiveBlocks
  <2>2. ASSUME NEW d \in LiveBlocks(s), d \notin D PROVE d \in LiveBlocks(s2)
    <3>1. PICK k \in 1 .. Len(s.live) : d = s.live[k].index
      BY DEF LiveBlocks
    <3>2. PICK j \in 1 .. Len(q) : q[j] = s.live[k]
      BY <2>2, <3>1
    <3>3. LiveBlocks(s2) = {q[l].index : l \in 1 .. Len(q)}
      BY <1>2 DEF LiveBlocks
    <3>4. d = q[j].index
      BY <3>1, <3>2
    <3> QED BY <3>3, <3>4
  <2> QED BY <2>1, <2>2
<1>6. Counted(p, s2)
  BY <1>1, <1>2 DEF Counted
<1>7. Placed(p, s2)
  <2>1. ASSUME q # <<>> PROVE s.base # Null
    <3>1. 1 \in 1 .. Len(q)
      <4>1. Len(q) \in Nat \ {0}
        BY <2>1, EmptySeq
      <4> QED BY <4>1
    <3>2. PICK k \in 1 .. Len(s.live) : q[1] = s.live[k]
      BY <3>1
    <3>3. s.live # <<>>
      BY <3>2, <1>3, EmptySeq
    <3> QED BY <1>1, <3>3 DEF Placed
  <2> QED BY <1>1, <1>2, <2>1 DEF Placed
<1>8. Parted(s2, X \cup D)
  <2>1. /\ FreeBlocks(s2) \cap LiveBlocks(s2) = {}
        /\ (X \cup D) \cap (FreeBlocks(s2) \cup LiveBlocks(s2)) = {}
        /\ FreeBlocks(s2) \cup LiveBlocks(s2) \cup (X \cup D) = 0 .. s2.watermark - 1
    BY <1>1, <1>2, <1>4, <1>5 DEF Parted
  <2> QED BY <1>1, <1>2, <2>1 DEF Parted
<1>9. Linked(p, s2, m)
  BY <1>1, <1>2 DEF Linked
<1>10. Filled(p, s2, m)
  <2> SUFFICES ASSUME NEW j \in 1 .. Len(q) PROVE m[Block(p.memory, q[j].index)] = Content(q[j])
    BY <1>2 DEF Filled
  <2>1. PICK k \in 1 .. Len(s.live) : q[j] = s.live[k]
    OBVIOUS
  <2> QED BY <1>1, <2>1 DEF Filled
<1> QED BY <1>1, <1>2, <1>6, <1>7, <1>8, <1>9, <1>10 DEF Agree, s2

---------------------------------------------------------------------------
(* How many of the live blocks hold an object.                             *)

ObjectsIn(q) == {k \in 1 .. Len(q) : q[k].isObject}

(* The count is the number of positions that hold one.                     *)
LEMMA ObjectsAreCounted ==
  ASSUME NEW s \in Shadows
  PROVE  /\ LiveObjectCount(s) = Cardinality(ObjectsIn(s.live))
         /\ IsFiniteSet(ObjectsIn(s.live)) /\ LiveObjectCount(s) \in Nat
<1>1. s.live \in Seq(Lives) /\ Len(s.live) \in Nat /\ DOMAIN s.live = 1 .. Len(s.live)
  BY DEF Shadows
<1>2. LiveObjectCount(s) = Cardinality(ObjectsIn(s.live))
  BY <1>1 DEF LiveObjectCount, ObjectsIn
<1>3. IsFiniteSet(1 .. Len(s.live))
  BY <1>1, FS_Interval
<1>4. ObjectsIn(s.live) \subseteq 1 .. Len(s.live)
  BY DEF ObjectsIn
<1>5. IsFiniteSet(ObjectsIn(s.live))
  BY <1>3, <1>4, FS_Subset
<1> QED BY <1>2, <1>5, FS_CardinalityType

(* Positions can be counted by the blocks there.                           *)
LEMMA PositionsAreBlocks ==
  ASSUME NEW q \in Seq(Lives), NEW K, K \subseteq 1 .. Len(q),
         \A j, k \in 1 .. Len(q) : j # k => q[j].index # q[k].index
  PROVE  /\ IsFiniteSet(K) /\ IsFiniteSet({q[k].index : k \in K})
         /\ Cardinality({q[k].index : k \in K}) = Cardinality(K)
<1> DEFINE B == {q[k].index : k \in K}
           f == [k \in K |-> q[k].index]
<1>1. IsFiniteSet(K)
  <2>1. Len(q) \in Nat
    OBVIOUS
  <2>2. IsFiniteSet(1 .. Len(q))
    BY <2>1, FS_Interval
  <2> QED BY <2>2, FS_Subset
<1>2. f \in Bijection(K, B)
  <2>1. \A j, k \in K : j # k => q[j].index # q[k].index
    OBVIOUS
  <2>2. f \in [K -> B]
    OBVIOUS
  <2>3. \A j, k \in K : f[j] = f[k] => j = k
    BY <2>1
  <2>4. \A b \in B : \E k \in K : f[k] = b
    OBVIOUS
  <2> HIDE DEF f, B
  <2> QED BY <2>2, <2>3, <2>4 DEF Bijection, Injection, Surjection, IsInjective
<1> HIDE DEF f, B
<1>3. ExistsBijection(K, B)
  BY <1>2 DEF ExistsBijection
<1>4. IsFiniteSet(B) /\ Cardinality(B) = Cardinality(K)
  BY <1>1, <1>3, FS_Bijection
<1> QED BY <1>1, <1>4 DEF B

(* One more entry, one more object or none.                                *)
LEMMA OneMore ==
  ASSUME NEW q \in Seq(Lives), NEW l \in Lives
  PROVE  Cardinality(ObjectsIn(Append(q, l))) = Cardinality(ObjectsIn(q)) + (IF l.isObject THEN 1 ELSE 0)
<1> DEFINE n == Len(q)
<1>1. n \in Nat
  OBVIOUS
<1>2. /\ Len(Append(q, l)) = n + 1 /\ Append(q, l)[n + 1] = l
      /\ \A k \in 1 .. n : Append(q, l)[k] = q[k]
  OBVIOUS
<1>3. IsFiniteSet(1 .. n)
  BY <1>1, FS_Interval
<1> HIDE DEF n
<1>4. ObjectsIn(q) \subseteq 1 .. n
  BY DEF ObjectsIn, n
<1>5. IsFiniteSet(ObjectsIn(q))
  BY <1>3, <1>4, FS_Subset
<1>6. n + 1 \notin ObjectsIn(q)
  BY <1>1, <1>4
<1>7. \A k \in 1 .. n + 1 : k = n + 1 \/ k \in 1 .. n
  BY <1>1
<1>8. \A k \in 1 .. n : k \in 1 .. n + 1
  BY <1>1
<1>9. n + 1 \in 1 .. n + 1
  BY <1>1
<1>10. CASE l.isObject
  <2>1. ObjectsIn(Append(q, l)) = ObjectsIn(q) \cup {n + 1}
    BY <1>2, <1>7, <1>8, <1>9, <1>10 DEF ObjectsIn, n
  <2>2. Cardinality(ObjectsIn(q) \cup {n + 1}) = Cardinality(ObjectsIn(q)) + 1
    BY <1>5, <1>6, FS_AddElement
  <2> QED BY <1>10, <2>1, <2>2
<1>11. CASE ~ l.isObject
  <2>1. ObjectsIn(Append(q, l)) = ObjectsIn(q)
    BY <1>2, <1>7, <1>8, <1>11 DEF ObjectsIn, n
  <2>2. Cardinality(ObjectsIn(q)) \in Nat
    BY <1>5, FS_CardinalityType
  <2> QED BY <1>11, <2>1, <2>2
<1> QED BY <1>10, <1>11

(* r is q without the entries at the positions A, in any order.            *)
Without(q, r, A) ==
  /\ r \in Seq(Lives)
  /\ \A j, k \in 1 .. Len(r) : j # k => r[j].index # r[k].index
  /\ \A j \in 1 .. Len(r) : \E k \in (1 .. Len(q)) \ A : r[j] = q[k]
  /\ \A k \in (1 .. Len(q)) \ A : \E j \in 1 .. Len(r) : r[j] = q[k]

BlocksAt(q, A) == {q[k].index : k \in A}

ObjectsAt(q, A) == {k \in A : q[k].isObject}

(* When the entries at the positions A leave, their objects do.            *)
LEMMA SomeLess ==
  ASSUME NEW q \in Seq(Lives), NEW r, NEW A, A \subseteq 1 .. Len(q), Without(q, r, A),
         \A j, k \in 1 .. Len(q) : j # k => q[j].index # q[k].index
  PROVE  Cardinality(ObjectsIn(r)) = Cardinality(ObjectsIn(q)) - Cardinality(ObjectsAt(q, A))
<1> DEFINE K == ObjectsIn(q)
           L == ObjectsAt(q, A)
           R == ObjectsIn(r)
           BK == {q[k].index : k \in K \ L}
           BR == {r[j].index : j \in R}
<1>0. /\ r \in Seq(Lives)
      /\ \A j, k \in 1 .. Len(r) : j # k => r[j].index # r[k].index
      /\ \A j \in 1 .. Len(r) : \E k \in (1 .. Len(q)) \ A : r[j] = q[k]
      /\ \A k \in (1 .. Len(q)) \ A : \E j \in 1 .. Len(r) : r[j] = q[k]
  BY DEF Without
<1>1. /\ K \subseteq 1 .. Len(q) /\ L \subseteq K /\ K \ L \subseteq 1 .. Len(q)
      /\ R \subseteq 1 .. Len(r)
  BY DEF ObjectsIn, ObjectsAt
<1>2. BR = BK
  <2>1. ASSUME NEW j \in R PROVE r[j].index \in BK
    <3>1. j \in 1 .. Len(r) /\ r[j].isObject
      BY DEF ObjectsIn
    <3>2. PICK k \in (1 .. Len(q)) \ A : r[j] = q[k]
      BY <1>0, <3>1
    <3>3. k \in K \ L
      BY <3>1, <3>2 DEF ObjectsIn, ObjectsAt
    <3> QED BY <3>2, <3>3
  <2>2. ASSUME NEW k \in K \ L PROVE q[k].index \in BR
    <3>1. k \in (1 .. Len(q)) \ A /\ q[k].isObject
      BY DEF ObjectsIn, ObjectsAt
    <3>2. PICK j \in 1 .. Len(r) : r[j] = q[k]
      BY <1>0, <3>1
    <3>3. j \in R
      BY <3>1, <3>2 DEF ObjectsIn
    <3> QED BY <3>2, <3>3
  <2> HIDE DEF K, L, R
  <2>3. ASSUME NEW b \in BR PROVE b \in BK
    <3>1. PICK j \in R : b = r[j].index
      OBVIOUS
    <3> HIDE DEF BK
    <3> QED BY <2>1, <3>1
  <2>4. ASSUME NEW b \in BK PROVE b \in BR
    <3>1. PICK k \in K \ L : b = q[k].index
      OBVIOUS
    <3> HIDE DEF BR
    <3> QED BY <2>2, <3>1
  <2> HIDE DEF BK, BR
  <2> QED BY <2>3, <2>4
<1> HIDE DEF K, L, R
<1>3. IsFiniteSet(R) /\ Cardinality(BR) = Cardinality(R)
  BY <1>0, <1>1, PositionsAreBlocks
<1>4. IsFiniteSet(K) /\ IsFiniteSet(K \ L) /\ Cardinality(BK) = Cardinality(K \ L)
  <2>1. IsFiniteSet(K)
    BY <1>1, PositionsAreBlocks
  <2>2. IsFiniteSet(K \ L) /\ Cardinality(BK) = Cardinality(K \ L)
    BY <1>1, PositionsAreBlocks
  <2> QED BY <2>1, <2>2
<1> HIDE DEF BK, BR
<1>5. /\ Cardinality(K \ L) = Cardinality(K) - Cardinality(K \cap L)
  BY <1>4, <1>1, FS_Subset, FS_Difference
<1>6. K \cap L = L
  BY <1>1
<1> QED BY <1>2, <1>3, <1>4, <1>5, <1>6 DEF K, L, R

---------------------------------------------------------------------------
(* The operations on one harness.                                          *)

(* What an operation may change: its own pool, shadow and arena, and the   *)
(* number of objects as the shadow's.                                      *)
Keeps(p, s, m, n, p2, s2, m2, n2) ==
  /\ Agree(p2, s2, m2, {}) /\ n2 \in Int
  /\ p2.memory = p.memory
  /\ \A c \in Cells : c[1] # p.memory => m2[c] = m[c]
  /\ n2 - LiveObjectCount(s2) = n - LiveObjectCount(s)

(* x is what such an operation makes of a harness, and no check failed.    *)
Sound(p, s, m, n, x) == \E p2, s2, m2, n2 : x = State(p2, s2, m2, n2) /\ Keeps(p, s, m, n, p2, s2, m2, n2)

(* What State is made of.                                                  *)
LEMMA StateFields ==
  ASSUME NEW p, NEW s, NEW m, NEW n
  PROVE  /\ State(p, s, m, n).pool = p /\ State(p, s, m, n).s = s /\ State(p, s, m, n).m = m
         /\ State(p, s, m, n).alive = n /\ State(p, s, m, n).ok
         /\ \A x : [State(p, s, m, n) EXCEPT !.pool = x] = State(x, s, m, n)
         /\ \A x : [State(p, s, m, n) EXCEPT !.s = x] = State(p, x, m, n)
         /\ \A x : [State(p, s, m, n) EXCEPT !.alive = x] = State(p, s, m, x)
<1>1. /\ State(p, s, m, n).pool = p /\ State(p, s, m, n).s = s /\ State(p, s, m, n).m = m
      /\ State(p, s, m, n).alive = n
  BY DEF State
<1>2. State(p, s, m, n).ok
  BY DEF State
<1>3. ASSUME NEW x, NEW r, r = [State(p, s, m, n) EXCEPT !.pool = x] PROVE r = State(x, s, m, n)
  BY <1>3 DEF State
<1>4. ASSUME NEW x, NEW r, r = [State(p, s, m, n) EXCEPT !.s = x] PROVE r = State(p, x, m, n)
  BY <1>4 DEF State
<1>5. ASSUME NEW x, NEW r, r = [State(p, s, m, n) EXCEPT !.alive = x] PROVE r = State(p, s, m, x)
  BY <1>5 DEF State
<1> QED BY <1>1, <1>2, <1>3, <1>4, <1>5

(* Where ptr() says a block is, once the shadow knows the arena.           *)
LEMMA AtIsBlock ==
  ASSUME NEW s, NEW a, NEW i \in Nat, s.base = Block(a, 0)
  PROVE  At(s, i) = Block(a, i)
BY DEF At, Block

(* What adopting block i makes of the shadow and of memory.                *)
Entry(s, i, isObject) == [index |-> i, tag |-> s.nextTag, isObject |-> isObject]

Entered(p, s, i, isObject) ==
  [s EXCEPT !.base = Block(p.memory, 0), !.nextTag = (s.nextTag + 1) % TagMod,
            !.live = Append(s.live, Entry(s, i, isObject))]

Filling(p, s, m, i, isObject) == [m EXCEPT ![Block(p.memory, i)] = Content(Entry(s, i, isObject))]

(* The pointer the pool returned is where the model expects it, and the    *)
(* block gets its holder.                                                  *)
LEMMA LocateAndAdopt ==
  ASSUME NEW p, NEW s, NEW m, NEW X, Agree(p, s, m, X), NEW i \in X,
         NEW p3, NEW n, NEW isObject \in BOOLEAN
  PROVE  /\ Locate(State(p3, s, m, n), Block(p.memory, i), i).ok
         /\ Adopt(Locate(State(p3, s, m, n), Block(p.memory, i), i), i, isObject)
              = State(p3, Entered(p, s, i, isObject), Filling(p, s, m, i, isObject), n)
<1> DEFINE c == Block(p.memory, i)
           b == Block(p.memory, 0)
           st == State(p3, s, m, n)
           sb == [s EXCEPT !.base = b]
           l == [index |-> i, tag |-> s.nextTag, isObject |-> isObject]
           found == State(p3, sb, m, n)
<1>1. i \in Nat /\ s \in Shadows /\ Placed(p, s)
  BY IssuedAreCells DEF Agree
<1>2. <<c[1], c[2] - i, c[3]>> = b /\ c[3] = 0
  BY <1>1 DEF Block
<1>3. sb = IF s.base = Null THEN [s EXCEPT !.base = <<c[1], c[2] - i, c[3]>>] ELSE s
  <2>1. CASE s.base = Null
    BY <1>2, <2>1
  <2>2. CASE s.base # Null
    <3>1. s.base = b
      BY <1>1, <2>2 DEF Placed
    <3> HIDE DEF b
    <3> QED BY <1>1, <2>2, <3>1 DEF Shadows
  <2> QED BY <2>1, <2>2
<1>4. sb.base = b /\ sb.nextTag = s.nextTag /\ sb.live = s.live
  BY <1>1 DEF Shadows
<1> HIDE DEF sb
<1>5. At(sb, i) = c
  BY <1>1, <1>4, AtIsBlock
<1>6. st.s = s /\ [st EXCEPT !.s = sb] = found
  BY StateFields
<1> HIDE DEF c, b, st
<1>7. Locate(st, c, i) = found
  BY <1>2, <1>3, <1>5, <1>6 DEF Locate, Check
<1>8. found.ok /\ found.s = sb
  BY StateFields
<1> DEFINE t == (sb.nextTag + 1) % TagMod
           q == Append(sb.live, l)
           s2 == [sb EXCEPT !.nextTag = t, !.live = q]
           m2 == [m EXCEPT ![c] = Content(l)]
<1>9. Adopt(found, i, isObject) = State(p3, s2, m2, n)
  <2> HIDE DEF l
  <2>1. Adopt(found, i, isObject) = [found EXCEPT !.m[c] = Content(l), !.s.nextTag = (@ + 1) % TagMod,
                                                  !.s.live = Append(@, l)]
    BY <1>4, <1>5, <1>8 DEF Adopt, l
  <2> QED BY <2>1 DEF State
<1>10. s2 = [s EXCEPT !.base = b, !.nextTag = (s.nextTag + 1) % TagMod, !.live = Append(s.live, l)]
  <2> HIDE DEF l
  <2> QED BY <1>1, <1>4 DEF sb, Shadows
<1>11. s2 = Entered(p, s, i, isObject) /\ m2 = Filling(p, s, m, i, isObject)
  <2>1. s2 = Entered(p, s, i, isObject)
    BY <1>10 DEF Entered, Entry, b
  <2>2. m2 = Filling(p, s, m, i, isObject)
    BY <1>4 DEF Filling, Entry, c
  <2> QED BY <2>1, <2>2
<1> HIDE DEF s2, m2
<1> QED BY <1>7, <1>8, <1>9, <1>11 DEF c, st

(* What a holder does to a block that was on its way.                      *)
LEMMA Held ==
  ASSUME NEW p, NEW s, NEW m, NEW i, Agree(p, s, m, {i}), NEW isObject \in BOOLEAN
  PROVE  LET s2 == Entered(p, s, i, isObject)
             m2 == Filling(p, s, m, i, isObject)
         IN  /\ Agree(p, s2, m2, {})
             /\ LiveObjectCount(s2) = LiveObjectCount(s) + (IF isObject THEN 1 ELSE 0)
             /\ FreeBlocks(s2) = FreeBlocks(s)
             /\ \A j \in FreeBlocks(s) : m2[Block(p.memory, j)] = m[Block(p.memory, j)]
             /\ \A d \in Cells : d[1] # p.memory => m2[d] = m[d]
<1> DEFINE c == Block(p.memory, i)
           b == Block(p.memory, 0)
           l == Entry(s, i, isObject)
           t == (s.nextTag + 1) % TagMod
           s2 == [s EXCEPT !.base = b, !.nextTag = t, !.live = Append(s.live, l)]
           m2 == [m EXCEPT ![c] = Content(l)]
<1>1. s2 = Entered(p, s, i, isObject) /\ m2 = Filling(p, s, m, i, isObject)
  BY DEF Entered, Filling
<1>2. i \in {i} /\ {i} \ {i} = {}
  OBVIOUS
<1>3. i \in Nat /\ c \in Cells /\ p.memory \in Arenas
  BY <1>2, IssuedAreCells
<1>4. s \in Shadows /\ m \in Memories /\ Parted(s, {i})
  BY DEF Agree
<1>5. l \in Lives /\ l.index = i /\ l.isObject = isObject /\ t \in Tags
  BY <1>3, <1>4, FuzzAssumption DEF Lives, Shadows, Tags, Entry
<1> HIDE DEF l, t
<1>6. Agree(p, s2, m2, {})
  <2>1. Agree(p, s2, m2, {i} \ {i})
    BY <1>2, <1>5, Hold
  <2> HIDE DEF s2, m2
  <2> QED BY <1>2, <2>1
<1>7. s2.live = Append(s.live, l) /\ s2.freeStack = s.freeStack
  BY <1>4 DEF Shadows
<1>8. \A d \in Cells : d # c => m2[d] = m[d]
  <2> HIDE DEF c
  <2> QED BY <1>3, <1>4 DEF Memories
<1> HIDE DEF s2, m2
<1>9. LiveObjectCount(s2) = LiveObjectCount(s) + (IF isObject THEN 1 ELSE 0)
  <2>1. s.live \in Seq(Lives)
    BY <1>4 DEF Shadows
  <2>2. Cardinality(ObjectsIn(s2.live)) = Cardinality(ObjectsIn(s.live)) + (IF l.isObject THEN 1 ELSE 0)
    BY <1>5, <1>7, <2>1, OneMore
  <2>3. s2 \in Shadows
    BY <1>6 DEF Agree
  <2>4. /\ LiveObjectCount(s2) = Cardinality(ObjectsIn(s2.live))
        /\ LiveObjectCount(s) = Cardinality(ObjectsIn(s.live))
    BY <1>4, <2>3, ObjectsAreCounted
  <2> QED BY <1>5, <2>2, <2>4
<1>10. FreeBlocks(s2) = FreeBlocks(s)
  BY <1>7 DEF FreeBlocks
<1>11. ASSUME NEW j \in FreeBlocks(s) PROVE m2[Block(p.memory, j)] = m[Block(p.memory, j)]
  <2>1. j # i
    BY <1>4 DEF Parted
  <2>2. Block(p.memory, j) \in Cells
    BY IssuedAreCells
  <2>3. Block(p.memory, j) # c
    BY <2>1, Addresses DEF c
  <2> QED BY <1>8, <2>2, <2>3
<1>12. \A d \in Cells : d[1] # p.memory => m2[d] = m[d]
  <2>1. c[1] = p.memory
    BY DEF Block
  <2> HIDE DEF c
  <2> QED BY <1>8, <2>1
<1> QED BY <1>1, <1>6, <1>9, <1>10, <1>11, <1>12

(* A block of the pool is taken back.                                      *)
LEMMA TakenBack ==
  ASSUME NEW p, NEW s, NEW m, NEW X, Agree(p, s, m, X),
         NEW i \in FreeBlocks(s) \cup LiveBlocks(s) \cup X, NEW s3, NEW n
  PROVE  PoolDeallocate(State(p, s3, m, n), Block(p.memory, i))
           = State(PoolBack(p, i), s3, MemoryBack(p, m, i), n)
<1> DEFINE c == Block(p.memory, i)
           st == State(p, s3, m, n)
<1>1. Owns(p, c) /\ c \in Cells
  BY IssuedAreCells
<1>2. c # Null
  BY <1>1, FuzzAssumption
<1>3. st.pool = p
  BY StateFields
<1> HIDE DEF c
<1>4. PoolDeallocate(st, c)
        = [st EXCEPT !.m[c] = st.pool.freeList, !.pool.freeList = c, !.pool.freeBlockCount = @ + 1]
  <2> HIDE DEF st
  <2> QED BY <1>1, <1>2, <1>3 DEF PoolDeallocate
<1> DEFINE p2 == [p EXCEPT !.freeList = c, !.freeBlockCount = p.freeBlockCount + 1]
           m2 == [m EXCEPT ![c] = p.freeList]
<1>5. ASSUME NEW r,
             r = [st EXCEPT !.m[c] = st.pool.freeList, !.pool.freeList = c, !.pool.freeBlockCount = @ + 1]
      PROVE  r = State(p2, s3, m2, n)
  BY <1>5 DEF State
<1> HIDE DEF st, p2, m2
<1>6. PoolDeallocate(st, c) = State(p2, s3, m2, n)
  BY <1>4, <1>5
<1> QED BY <1>6 DEF st, p2, m2, c, PoolBack, MemoryBack

(* consume() and adoptRaw() of the pointer the pool returned: the check    *)
(* holds whatever the pool has done meanwhile.                             *)
ConsumedAs(p, s, m, n, s2, m2) ==
  /\ \A p3 : Consume(State(p3, s, m, n), Acquire(p, m).got) = State(p3, s2, m2, n)
  /\ Keeps(p, s, m, n, Acquire(p, m).pool, s2, m2, n)
  /\ FreeBlocks(s2) \subseteq FreeBlocks(s)
  /\ \A j \in FreeBlocks(s2) : m2[Block(p.memory, j)] = m[Block(p.memory, j)]

(* Whatever the pool returns is what its shadow expects.                   *)
LEMMA ConsumeDue ==
  ASSUME NEW p, NEW s, NEW m, Agree(p, s, m, {}), NEW n \in Int
  PROVE  \E s2, m2 : ConsumedAs(p, s, m, n, s2, m2)
<1>1. s \in Shadows /\ p \in Pools
  BY DEF Agree
<1>2. CASE Acquire(p, m) = [got |-> Null, pool |-> p] /\ TakeNext(s) = [idx |-> Null, s |-> s]
  <2>1. Acquire(p, m).got = Null /\ Acquire(p, m).pool = p /\ TakeNext(s).idx = Null
    BY <1>2
  <2>2. ASSUME NEW p3 PROVE Consume(State(p3, s, m, n), Acquire(p, m).got) = State(p3, s, m, n)
    <3>1. State(p3, s, m, n).s = s
      BY StateFields
    <3> QED BY <2>1, <3>1 DEF Consume, Check
  <2>3. Keeps(p, s, m, n, Acquire(p, m).pool, s, m, n)
    BY <2>1 DEF Keeps
  <2>4. ConsumedAs(p, s, m, n, s, m)
    BY <2>2, <2>3 DEF ConsumedAs
  <2> QED BY <2>4
<1>3. ASSUME NEW i, NEW p1, NEW s1, Issues(p, s, m, {}, i, p1, s1)
      PROVE  \E s2, m2 : ConsumedAs(p, s, m, n, s2, m2)
  <2>0. PICK raw \in BOOLEAN : raw = FALSE
    OBVIOUS
  <2> DEFINE c == Block(p.memory, i)
             s2 == Entered(p1, s1, i, raw)
             m2 == Filling(p1, s1, m, i, raw)
  <2>1. /\ Acquire(p, m).got = c /\ Acquire(p, m).pool = p1
        /\ TakeNext(s).idx = i /\ TakeNext(s).s = s1
        /\ i \in Nat /\ p1.memory = p.memory
        /\ s1.live = s.live /\ FreeBlocks(s1) \subseteq FreeBlocks(s)
    BY <1>3 DEF Issues
  <2>2. Agree(p1, s1, m, {i})
    <3>1. Agree(p1, s1, m, {} \cup {i})
      BY <1>3 DEF Issues
    <3>2. {} \cup {i} = {i}
      OBVIOUS
    <3> QED BY <3>1, <3>2
  <2>3. i \in {i} /\ c # Null /\ i # Null
    <3>1. i \in {i}
      OBVIOUS
    <3>2. Block(p1.memory, i) \in Cells
      BY <2>2, <3>1, IssuedAreCells
    <3> QED BY <2>1, <3>1, <3>2, FuzzAssumption
  <2>4. /\ Agree(p1, s2, m2, {})
        /\ LiveObjectCount(s2) = LiveObjectCount(s1) + (IF raw THEN 1 ELSE 0)
        /\ FreeBlocks(s2) = FreeBlocks(s1)
        /\ \A j \in FreeBlocks(s1) : m2[Block(p1.memory, j)] = m[Block(p1.memory, j)]
        /\ \A d \in Cells : d[1] # p1.memory => m2[d] = m[d]
    BY <2>2, Held
  <2>5. ASSUME NEW p3 PROVE Consume(State(p3, s, m, n), Acquire(p, m).got) = State(p3, s2, m2, n)
    <3> DEFINE st == State(p3, s, m, n)
               found == Locate(State(p3, s1, m, n), c, i)
    <3>1. st.s = s /\ [st EXCEPT !.s = s1] = State(p3, s1, m, n)
      BY StateFields
    <3>2. found.ok /\ Adopt(found, i, raw) = State(p3, s2, m2, n)
      BY <2>1, <2>2, <2>3, LocateAndAdopt
    <3> HIDE DEF st, c, s2, m2, found
    <3>3. Locate([st EXCEPT !.s = s1], c, i) = found
      BY <3>1 DEF found
    <3>4. Consume(st, c) = Adopt(found, i, FALSE)
      BY <2>1, <2>3, <3>1, <3>2, <3>3 DEF Consume
    <3>5. Adopt(found, i, FALSE) = Adopt(found, i, raw)
      BY <2>0
    <3> QED BY <2>1, <3>2, <3>4, <3>5 DEF st
  <2>6. LiveObjectCount(s2) = LiveObjectCount(s)
    <3>1. s1 \in Shadows
      BY <2>2 DEF Agree
    <3>2. /\ LiveObjectCount(s1) = Cardinality(ObjectsIn(s1.live)) /\ LiveObjectCount(s1) \in Nat
          /\ LiveObjectCount(s) = Cardinality(ObjectsIn(s.live))
      BY <1>1, <3>1, ObjectsAreCounted
    <3>3. LiveObjectCount(s2) = LiveObjectCount(s1)
      BY <2>0, <2>4, <3>2
    <3> QED BY <2>1, <3>2, <3>3
  <2> HIDE DEF s2, m2
  <2>7. Keeps(p, s, m, n, Acquire(p, m).pool, s2, m2, n)
    BY <2>1, <2>4, <2>6 DEF Keeps
  <2>8. ConsumedAs(p, s, m, n, s2, m2)
    BY <2>1, <2>4, <2>5, <2>7 DEF ConsumedAs
  <2> QED BY <2>8
<1> QED BY <1>2, <1>3, Issue

(* allocate() is consume() of what the pool has returned.                  *)
LEMMA AllocateIsConsume ==
  ASSUME NEW p, NEW s, NEW m, NEW n
  PROVE  Allocate(State(p, s, m, n)) = Consume(State(Acquire(p, m).pool, s, m, n), Acquire(p, m).got)
<1> DEFINE st == State(p, s, m, n)
           x == Acquire(p, m)
<1>1. st.pool = p /\ st.m = m /\ [st EXCEPT !.pool = x.pool] = State(x.pool, s, m, n)
  BY StateFields
<1> HIDE DEF st
<1>2. Acquire(st.pool, st.m) = x
  BY <1>1
<1> HIDE DEF x
<1>3. Allocate(st) = Consume([st EXCEPT !.pool = x.pool], x.got)
  BY <1>2 DEF Allocate
<1> QED BY <1>1, <1>3 DEF st, x

(* An operation after an operation.                                        *)
LEMMA KeepsOn ==
  ASSUME NEW p, NEW s, NEW m, NEW n \in Int, Agree(p, s, m, {}),
         NEW p1, NEW s1, NEW m1, NEW n1, Keeps(p, s, m, n, p1, s1, m1, n1),
         NEW p2, NEW s2, NEW m2, NEW n2, Keeps(p1, s1, m1, n1, p2, s2, m2, n2)
  PROVE  Keeps(p, s, m, n, p2, s2, m2, n2)
<1>1. s \in Shadows /\ s1 \in Shadows /\ s2 \in Shadows /\ n1 \in Int /\ n2 \in Int
  BY DEF Keeps, Agree
<1>2. LiveObjectCount(s) \in Nat /\ LiveObjectCount(s1) \in Nat /\ LiveObjectCount(s2) \in Nat
  BY <1>1, ObjectsAreCounted
<1>3. n2 - LiveObjectCount(s2) = n - LiveObjectCount(s)
  BY <1>1, <1>2 DEF Keeps
<1>4. p2.memory = p.memory /\ \A c \in Cells : c[1] # p.memory => m2[c] = m[c]
  BY DEF Keeps
<1> QED BY <1>1, <1>3, <1>4 DEF Keeps

(* What a number of calls of allocate() can make of a harness.             *)
States == [pool : Pools, s : Shadows, m : Memories, alive : Int, ok : {TRUE}]

Drawn(p, s, m, n) ==
  {x \in States :
     /\ Keeps(p, s, m, n, x.pool, x.s, x.m, x.alive)
     /\ FreeBlocks(x.s) \subseteq FreeBlocks(s)
     /\ \A j \in FreeBlocks(x.s) : x.m[Block(p.memory, j)] = m[Block(p.memory, j)]}

(* Such a call takes one of these states to the next.                      *)
LEMMA DrawOne ==
  ASSUME NEW p, NEW s, NEW m, NEW n \in Int, Agree(p, s, m, {}), NEW x \in Drawn(p, s, m, n)
  PROVE  /\ Allocate(x) \in Drawn(p, s, m, n)
         /\ x = State(x.pool, x.s, x.m, x.alive)
         /\ Allocate(x).pool = Acquire(x.pool, m).pool
         /\ \A p3 : Consume(State(p3, x.s, x.m, x.alive), Acquire(x.pool, m).got)
                      = State(p3, Allocate(x).s, Allocate(x).m, Allocate(x).alive)
<1> DEFINE q == x.pool
           r == x.s
           w == x.m
           o == x.alive
           a == Acquire(q, w)
<1>1. /\ x \in States /\ Keeps(p, s, m, n, q, r, w, o)
      /\ FreeBlocks(r) \subseteq FreeBlocks(s)
      /\ \A j \in FreeBlocks(r) : w[Block(p.memory, j)] = m[Block(p.memory, j)]
  BY DEF Drawn
<1>2. x = State(q, r, w, o)
  BY <1>1 DEF States, State
<1> HIDE DEF q, r, w, o
<1>3. Agree(q, r, w, {}) /\ o \in Int /\ q.memory = p.memory
  BY <1>1 DEF Keeps
<1>4. PICK s2, m2 : ConsumedAs(q, r, w, o, s2, m2)
  BY <1>3, ConsumeDue
<1> DEFINE y == State(a.pool, s2, m2, o)
<1>5. Allocate(x) = y
  <2>1. Allocate(State(q, r, w, o)) = Consume(State(a.pool, r, w, o), a.got)
    BY AllocateIsConsume
  <2>2. Consume(State(a.pool, r, w, o), a.got) = State(a.pool, s2, m2, o)
    BY <1>4 DEF ConsumedAs
  <2> HIDE DEF a
  <2> QED BY <1>2, <2>1, <2>2
<1>6. y.pool = a.pool /\ y.s = s2 /\ y.m = m2 /\ y.alive = o
  BY StateFields
<1>7. Acquire(q, m) = a
  <2>1. CASE q.freeList = Null
    BY <2>1 DEF Acquire
  <2>2. CASE q.freeList # Null
    <3> DEFINE f == r.freeStack
    <3>1. /\ q.freeList = IF f = <<>> THEN Null ELSE Block(q.memory, f[Len(f)])
          /\ f \in Seq(Nat)
      BY <1>3 DEF Agree, Linked, Shadows
    <3>2. f # <<>> /\ Len(f) \in 1 .. Len(f)
      <4>1. f # <<>>
        BY <2>2, <3>1
      <4>2. Len(f) \in Nat \ {0}
        BY <3>1, <4>1, EmptySeq
      <4> QED BY <4>1, <4>2
    <3>3. f[Len(f)] \in FreeBlocks(r)
      BY <3>2 DEF FreeBlocks
    <3>4. w[q.freeList] = m[q.freeList]
      BY <1>1, <1>3, <3>1, <3>2, <3>3
    <3> QED BY <2>2, <3>4 DEF Acquire
  <2> QED BY <2>1, <2>2
<1>8. Keeps(q, r, w, o, a.pool, s2, m2, o)
  BY <1>4 DEF ConsumedAs
<1>9. Keeps(p, s, m, n, a.pool, s2, m2, o)
  <2> HIDE DEF a
  <2> QED BY <1>1, <1>8, KeepsOn
<1>10. y \in Drawn(p, s, m, n)
  <2>1. y \in States
    <3>1. a.pool \in Pools /\ s2 \in Shadows /\ m2 \in Memories /\ o \in Int
      BY <1>9 DEF Keeps, Agree
    <3> HIDE DEF a
    <3> QED BY <3>1 DEF States, State
  <2>2. /\ FreeBlocks(s2) \subseteq FreeBlocks(s)
        /\ \A j \in FreeBlocks(s2) : m2[Block(p.memory, j)] = m[Block(p.memory, j)]
    BY <1>1, <1>3, <1>4 DEF ConsumedAs
  <2> HIDE DEF y, a
  <2> QED BY <1>6, <1>9, <2>1, <2>2 DEF Drawn
<1>11. \A p3 : Consume(State(p3, r, w, o), a.got) = State(p3, s2, m2, o)
  BY <1>4 DEF ConsumedAs
<1> HIDE DEF a, y
<1> QED BY <1>2, <1>5, <1>6, <1>7, <1>10, <1>11 DEF q, r, w, o

(* One call of allocate() after the other.                                 *)
Calls(f, k, p, s, m, n) ==
  /\ f \in [0 .. k -> Drawn(p, s, m, n)]
  /\ f[0] = State(p, s, m, n)
  /\ \A i \in 1 .. k : f[i] = Allocate(f[i-1])

(* Such calls can be made one after the other.                             *)
LEMMA CallsExist ==
  ASSUME NEW p, NEW s, NEW m, NEW n \in Int, Agree(p, s, m, {}), NEW k \in Nat
  PROVE  \E f : Calls(f, k, p, s, m, n)
<1> DEFINE V == Drawn(p, s, m, n)
           z == State(p, s, m, n)
           step == [i \in 1 .. k |-> [x \in V |-> Allocate(x)]]
<1>1. z \in V
  <2>1. z \in States
    <3>1. p \in Pools /\ s \in Shadows /\ m \in Memories
      BY DEF Agree
    <3> QED BY <3>1 DEF States, State
  <2>2. z.pool = p /\ z.s = s /\ z.m = m /\ z.alive = n
    BY StateFields
  <2>3. Keeps(p, s, m, n, p, s, m, n)
    BY DEF Keeps
  <2> HIDE DEF z
  <2> QED BY <2>1, <2>2, <2>3 DEF Drawn
<1>2. \A x \in V : Allocate(x) \in V
  BY DrawOne
<1> HIDE DEF V
<1>3. step \in [1 .. k -> [V -> V]]
  BY <1>2
<1>4. \A i \in 1 .. k, x \in V : step[i][x] = Allocate(x)
  OBVIOUS
<1> HIDE DEF step, z
<1>5. PICK f : Follows(f, k, V, z, step)
  BY <1>1, <1>3, RangeRecursion
<1>6. \A i \in 1 .. k : f[i] = Allocate(f[i-1])
  <2> SUFFICES ASSUME NEW i \in 1 .. k PROVE f[i] = Allocate(f[i-1])
    OBVIOUS
  <2>1. i - 1 \in 0 .. k
    OBVIOUS
  <2>2. f[i-1] \in V /\ f[i] = step[i][f[i-1]]
    BY <1>5, <2>1 DEF Follows
  <2> QED BY <1>4, <2>2
<1>7. Calls(f, k, p, s, m, n)
  BY <1>5, <1>6 DEF Calls, Follows, V, z
<1> QED BY <1>7

(* fill() is such a run.                                                   *)
LEMMA FillIsCalls ==
  ASSUME NEW p, NEW s, NEW m, NEW n \in Int, Agree(p, s, m, {}),
         NEW f, Calls(f, s.blockCount + 1, p, s, m, n)
  PROVE  Fill(State(p, s, m, n)) = f[s.blockCount + 1]
<1> DEFINE k == s.blockCount + 1
           st == State(p, s, m, n)
           Step(g, i) == IF i = 0 THEN st ELSE IF g[i-1].ok THEN Allocate(g[i-1]) ELSE g[i-1]
           Solves(g) == g = [i \in 0 .. k |-> Step(g, i)]
           c == CHOOSE g : Solves(g)
<1>1. k \in Nat
  <2>1. s.blockCount \in Nat
    BY DEF Agree, Shadows
  <2> QED BY <2>1
<1>2. Fill(st) = c[k]
  <2>1. st.s = s
    BY StateFields
  <2> HIDE DEF st
  <2> QED BY <2>1 DEF Fill
<1> HIDE DEF k, st
<1>3. /\ f[0] = st /\ f \in [0 .. k -> Drawn(p, s, m, n)]
      /\ \A i \in 1 .. k : f[i] = Allocate(f[i-1])
  BY DEF Calls, k, st
<1>4. \A i \in 0 .. k : f[i].ok
  BY <1>3 DEF Drawn, States
<1>5. Solves(f)
  <2>1. ASSUME NEW i \in 0 .. k PROVE f[i] = Step(f, i)
    <3>1. CASE i = 0
      BY <1>3, <3>1
    <3>2. CASE i # 0
      <4>1. i \in 1 .. k /\ i - 1 \in 0 .. k
        BY <1>1, <3>2
      <4> QED BY <1>3, <1>4, <3>2, <4>1
    <3> QED BY <3>1, <3>2
  <2>2. f = [i \in 0 .. k |-> f[i]]
    BY <1>3
  <2> HIDE DEF Step
  <2> QED BY <2>1, <2>2
<1> HIDE DEF Solves
<1>6. Solves(c)
  BY <1>5
<1> HIDE DEF c
<1>7. \A i \in 0 .. k : c[i] = Step(c, i)
  <2>1. c = [i \in 0 .. k |-> Step(c, i)]
    BY <1>6 DEF Solves
  <2> HIDE DEF Step
  <2> QED BY <2>1
<1> DEFINE T == {i \in 0 .. k : c[i] = f[i]}
<1>8. 0 \in T
  BY <1>1, <1>3, <1>7
<1>9. ASSUME NEW i \in 1 .. k, i - 1 \in T PROVE i \in T
  <2>1. i \in 0 .. k /\ i - 1 \in 0 .. k /\ i # 0
    BY <1>1
  <2>2. c[i] = f[i]
    BY <1>3, <1>4, <1>7, <1>9, <2>1
  <2> QED BY <2>1, <2>2
<1> HIDE DEF T
<1>10. \A i \in 0 .. k : i \in T
  BY <1>1, <1>8, <1>9, RangeInduction
<1>11. k \in T
  BY <1>1, <1>10
<1> QED BY <1>2, <1>11 DEF T, k, st

(* A stack of different blocks holds as many as it is long.                *)
LEMMA StackIsCounted ==
  ASSUME NEW q \in Seq(Nat), \A j, k \in 1 .. Len(q) : j # k => q[j] # q[k]
  PROVE  /\ IsFiniteSet({q[k] : k \in 1 .. Len(q)})
         /\ Cardinality({q[k] : k \in 1 .. Len(q)}) = Len(q)
<1> DEFINE n == Len(q)
           K == 1 .. n
           B == {q[k] : k \in K}
           f == [k \in K |-> q[k]]
<1>1. n \in Nat
  OBVIOUS
<1>2. \A j, k \in K : j # k => q[j] # q[k]
  OBVIOUS
<1> HIDE DEF n
<1>3. IsFiniteSet(K) /\ Cardinality(K) = n
  <2>1. /\ IsFiniteSet(1 .. n)
        /\ Cardinality(1 .. n) = IF 1 > n THEN 0 ELSE n - 1 + 1
    BY <1>1, FS_Interval
  <2> QED BY <1>1, <2>1
<1> HIDE DEF K
<1>4. f \in Bijection(K, B)
  <2>1. f \in [K -> B]
    OBVIOUS
  <2>2. \A j, k \in K : f[j] = f[k] => j = k
    BY <1>2
  <2>3. \A b \in B : \E k \in K : f[k] = b
    OBVIOUS
  <2> HIDE DEF f, B
  <2> QED BY <2>1, <2>2, <2>3 DEF Bijection, Injection, Surjection, IsInjective
<1> HIDE DEF f, B
<1>5. ExistsBijection(K, B)
  BY <1>4 DEF ExistsBijection
<1>6. IsFiniteSet(B) /\ Cardinality(B) = n
  BY <1>3, <1>5, FS_Bijection
<1> QED BY <1>6 DEF B, K, n

(* With none on its way, free and live blocks together are those issued.   *)
LEMMA NoneIsMissing ==
  ASSUME NEW p, NEW s, NEW m, Agree(p, s, m, {})
  PROVE  /\ Len(s.freeStack) \in Nat /\ Len(s.live) \in Nat
         /\ Len(s.freeStack) + Len(s.live) = s.watermark
<1> DEFINE F == FreeBlocks(s)
           L == LiveBlocks(s)
           w == s.watermark
<1>1. /\ s \in Shadows /\ s.freeStack \in Seq(Nat) /\ s.live \in Seq(Lives) /\ w \in Nat
      /\ F \cap L = {} /\ F \cup L = 0 .. w - 1
      /\ \A i, j \in 1 .. Len(s.freeStack) : i # j => s.freeStack[i] # s.freeStack[j]
      /\ \A i, j \in 1 .. Len(s.live) : i # j => s.live[i].index # s.live[j].index
  BY DEF Agree, Parted, Shadows
<1>2. IsFiniteSet(F) /\ Cardinality(F) = Len(s.freeStack) /\ Len(s.freeStack) \in Nat
  <2> DEFINE f == s.freeStack
             B == {f[k] : k \in 1 .. Len(f)}
  <2>1. f \in Seq(Nat) /\ \A i, j \in 1 .. Len(f) : i # j => f[i] # f[j]
    BY <1>1
  <2>2. F = B
    BY DEF FreeBlocks
  <2> HIDE DEF f
  <2>3. IsFiniteSet(B) /\ Cardinality(B) = Len(f)
    BY <2>1, StackIsCounted
  <2>4. Len(f) \in Nat
    BY <2>1
  <2> HIDE DEF F, B
  <2> QED BY <2>2, <2>3, <2>4 DEF f
<1>3. IsFiniteSet(L) /\ Cardinality(L) = Len(s.live) /\ Len(s.live) \in Nat
  <2> DEFINE K == 1 .. Len(s.live)
  <2>1. Len(s.live) \in Nat /\ K \subseteq 1 .. Len(s.live)
    BY <1>1
  <2>2. IsFiniteSet({s.live[k].index : k \in K}) /\ Cardinality({s.live[k].index : k \in K}) = Cardinality(K)
    <3> HIDE DEF K
    <3> QED BY <1>1, <2>1, PositionsAreBlocks
  <2>3. Cardinality(K) = Len(s.live)
    <3> DEFINE n == Len(s.live)
    <3>1. n \in Nat
      BY <2>1
    <3> HIDE DEF n
    <3>2. n \in Int
      BY <3>1
    <3>3. Cardinality(1 .. n) = IF 1 > n THEN 0 ELSE n - 1 + 1
      BY <3>2, FS_Interval
    <3>4. Cardinality(1 .. n) = n
      BY <3>1, <3>3
    <3> QED BY <3>4 DEF n
  <2> QED BY <2>1, <2>2, <2>3 DEF LiveBlocks
<1> HIDE DEF F, L, w
<1>4. Cardinality(F \cup L) = Cardinality(F) + Cardinality(L) - Cardinality(F \cap L)
  BY <1>2, <1>3, FS_Union
<1>5. Cardinality(F \cap L) = 0
  BY <1>1, FS_EmptySet
<1>6. Cardinality(0 .. w - 1) = w
  <2>1. w - 1 \in Int
    BY <1>1
  <2>2. Cardinality(0 .. w - 1) = IF 0 > w - 1 THEN 0 ELSE (w - 1) - 0 + 1
    BY <2>1, FS_Interval
  <2> QED BY <1>1, <2>2
<1>7. Cardinality(F \cup L) = w
  BY <1>1, <1>6
<1>8. Len(s.freeStack) + Len(s.live) = w
  <2> DEFINE x == Len(s.freeStack)
             y == Len(s.live)
  <2>1. /\ x \in Nat /\ y \in Nat /\ Cardinality(F) = x /\ Cardinality(L) = y
        /\ Cardinality(F \cap L) = 0
    BY <1>2, <1>3, <1>5
  <2> HIDE DEF x, y
  <2>2. w = x + y - 0
    BY <1>4, <1>7, <2>1
  <2>3. x + y = w
    BY <2>1, <2>2
  <2> QED BY <2>3 DEF x, y
<1> QED BY <1>2, <1>3, <1>8 DEF w

(* So a pool that agrees with its shadow has as many blocks in use.        *)
LEMMA UsedAreLive ==
  ASSUME NEW p, NEW s, NEW m, Agree(p, s, m, {})
  PROVE  /\ p.freeBlockCount \in Int /\ p.blockCount \in Nat /\ Len(s.live) \in Nat
         /\ p.blockCount - p.freeBlockCount = Len(s.live)
<1>1. p \in Pools /\ s \in Shadows /\ Counted(p, s)
  BY DEF Agree
<1> DEFINE x == Len(s.freeStack)
           y == Len(s.live)
           b == s.blockCount
           w == s.watermark
<1>2. /\ x \in Nat /\ y \in Nat /\ b \in Nat /\ w \in Nat /\ x + y = w
      /\ p.blockCount = b /\ p.freeBlockCount = x + (b - w)
  BY <1>1, NoneIsMissing DEF Counted, Shadows
<1> HIDE DEF x, y, b, w
<1>3. b - (x + (b - w)) = y
  BY <1>2
<1>4. p.freeBlockCount \in Int
  BY <1>2
<1> QED BY <1>2, <1>3, <1>4 DEF y

(* The pointers such a run of calls gets from the pool.                    *)
Got(f, k, m) == [i \in 1 .. k |-> Acquire(f[i-1].pool, m).got]

(* A call of the pool takes one block off its count, unless it has none.   *)
LEMMA AcquireCounts ==
  ASSUME NEW p, NEW s, NEW w, NEW m, Agree(p, s, w, {})
  PROVE  /\ Acquire(p, m).pool.blockCount = p.blockCount
         /\ Acquire(p, m).pool.freeBlockCount
              = p.freeBlockCount - (IF Acquire(p, m).got = Null THEN 0 ELSE 1)
<1> DEFINE a == Acquire(p, m)
           c == p.freeBlockCount
<1>1. p \in Pools /\ s \in Shadows /\ Counted(p, s) /\ Placed(p, s)
  BY DEF Agree
<1>2. CASE p.freeList # Null
  <2>1. a = [got |-> p.freeList, pool |-> [p EXCEPT !.freeList = m[p.freeList], !.freeBlockCount = c - 1]]
    BY <1>2 DEF Acquire
  <2> DEFINE q == [p EXCEPT !.freeList = m[p.freeList], !.freeBlockCount = c - 1]
  <2>2. q.blockCount = p.blockCount /\ q.freeBlockCount = c - 1
    BY <1>1 DEF Pools
  <2> HIDE DEF q
  <2>3. a.got = p.freeList /\ a.pool = q
    <3> HIDE DEF a
    <3> QED BY <2>1 DEF q
  <2> HIDE DEF a, c
  <2> QED BY <1>2, <2>2, <2>3 DEF a, c
<1>3. CASE p.freeList = Null /\ p.watermark < p.blockCount
  <2> DEFINE b == Block(p.memory, p.watermark)
             q == [p EXCEPT !.watermark = p.watermark + 1, !.freeBlockCount = c - 1]
  <2>1. a = [got |-> b, pool |-> q]
    BY <1>3 DEF Acquire
  <2>2. p.watermark \in 0 .. s.blockCount - 1
    BY <1>1, <1>3 DEF Counted, Pools, Shadows
  <2>3. b # Null
    BY <1>1, <2>2, BlocksAreCells, FuzzAssumption
  <2>4. q.blockCount = p.blockCount /\ q.freeBlockCount = c - 1
    BY <1>1 DEF Pools
  <2> HIDE DEF q, b
  <2>5. a.got = b /\ a.pool = q
    <3> HIDE DEF a
    <3> QED BY <2>1
  <2> HIDE DEF a, c
  <2> QED BY <2>3, <2>4, <2>5 DEF a, c
<1>4. CASE p.freeList = Null /\ ~ (p.watermark < p.blockCount)
  <2>1. a.got = Null /\ a.pool = p
    BY <1>4 DEF Acquire
  <2>2. c = c - 0
    BY <1>1 DEF Pools
  <2> HIDE DEF a
  <2> QED BY <2>1, <2>2 DEF a
<1> QED BY <1>2, <1>3, <1>4

(* What a run of calls has taken off the pool's count is what the shadow   *)
(* has gained in live blocks, at most one a call.                          *)
TakenBy(f, i, p) == p.freeBlockCount - f[i].pool.freeBlockCount

Tallied(f, k, p, s, m) ==
  /\ f[0].pool = p
  /\ \A i \in 1 .. k : /\ f[i].pool = Acquire(f[i-1].pool, m).pool
                       /\ TakenBy(f, i, p) = TakenBy(f, i - 1, p)
                            + (IF Acquire(f[i-1].pool, m).got = Null THEN 0 ELSE 1)
  /\ TakenBy(f, k, p) <= k
  /\ TakenBy(f, k, p) = Len(f[k].s.live) - Len(s.live)

LEMMA CallsAreCounted ==
  ASSUME NEW p, NEW s, NEW m, NEW n \in Int, Agree(p, s, m, {}), NEW k \in Nat,
         NEW f, Calls(f, k, p, s, m, n)
  PROVE  Tallied(f, k, p, s, m)
<1>1. /\ f[0] = State(p, s, m, n) /\ f \in [0 .. k -> Drawn(p, s, m, n)]
      /\ \A i \in 1 .. k : f[i] = Allocate(f[i-1])
  BY DEF Calls
<1>2. f[0].pool = p /\ f[0].s = s
  BY <1>1, StateFields
<1>3. ASSUME NEW i \in 0 .. k
      PROVE  /\ Agree(f[i].pool, f[i].s, f[i].m, {})
             /\ f[i].pool.freeBlockCount \in Int /\ f[i].pool.blockCount \in Nat
             /\ Len(f[i].s.live) \in Nat
             /\ f[i].pool.blockCount - f[i].pool.freeBlockCount = Len(f[i].s.live)
  <2>1. f[i] \in Drawn(p, s, m, n)
    BY <1>1
  <2>2. Agree(f[i].pool, f[i].s, f[i].m, {})
    BY <2>1 DEF Drawn, Keeps
  <2> QED BY <2>2, UsedAreLive
<1>4. ASSUME NEW i \in 1 .. k
      PROVE  /\ f[i].pool = Acquire(f[i-1].pool, m).pool
             /\ f[i].pool.blockCount = f[i-1].pool.blockCount
             /\ f[i].pool.freeBlockCount = f[i-1].pool.freeBlockCount
                                             - (IF Acquire(f[i-1].pool, m).got = Null THEN 0 ELSE 1)
  <2>1. i - 1 \in 0 .. k
    OBVIOUS
  <2>2. f[i].pool = Acquire(f[i-1].pool, m).pool
    BY <1>1, <2>1, DrawOne
  <2>3. Agree(f[i-1].pool, f[i-1].s, f[i-1].m, {})
    BY <1>3, <2>1
  <2> QED BY <2>2, <2>3, AcquireCounts
<1>5. p.freeBlockCount \in Int /\ p.blockCount \in Nat /\ p.blockCount - p.freeBlockCount = Len(s.live)
      /\ Len(s.live) \in Nat
  BY UsedAreLive
<1>6. ASSUME NEW i \in 1 .. k
      PROVE  TakenBy(f, i, p) = TakenBy(f, i - 1, p)
                                  + (IF Acquire(f[i-1].pool, m).got = Null THEN 0 ELSE 1)
  <2> DEFINE a == f[i-1].pool.freeBlockCount
             b == f[i].pool.freeBlockCount
             c == IF Acquire(f[i-1].pool, m).got = Null THEN 0 ELSE 1
             o == p.freeBlockCount
  <2>1. a \in Int /\ c \in Int /\ o \in Int /\ b = a - c
    <3>1. i - 1 \in 0 .. k
      OBVIOUS
    <3> QED BY <1>3, <1>4, <1>5, <3>1
  <2> HIDE DEF a, b, c, o
  <2>2. o - b = (o - a) + c
    BY <2>1
  <2> QED BY <2>2 DEF TakenBy, a, b, c, o
<1> DEFINE T == {i \in 0 .. k : f[i].pool.blockCount = p.blockCount /\ TakenBy(f, i, p) <= i}
<1>7. 0 \in T
  <2>1. TakenBy(f, 0, p) = 0
    BY <1>2, <1>5 DEF TakenBy
  <2> QED BY <1>2, <2>1
<1>8. ASSUME NEW i \in 1 .. k, i - 1 \in T PROVE i \in T
  <2>1. TakenBy(f, i - 1, p) \in Int
    <3>1. i - 1 \in 0 .. k
      OBVIOUS
    <3> QED BY <1>3, <1>5, <3>1 DEF TakenBy
  <2> DEFINE x == TakenBy(f, i - 1, p)
             y == TakenBy(f, i, p)
             c == IF Acquire(f[i-1].pool, m).got = Null THEN 0 ELSE 1
  <2>2. y = x + c /\ c <= 1 /\ c \in Int /\ x \in Int /\ x <= i - 1
    BY <1>6, <1>8, <2>1
  <2> HIDE DEF x, y, c
  <2>3. y <= i
    BY <2>2
  <2> QED BY <1>4, <1>8, <2>3 DEF y
<1> HIDE DEF T
<1>9. \A i \in 0 .. k : i \in T
  BY <1>7, <1>8, RangeInduction
<1>10. f[k].pool.blockCount = p.blockCount /\ TakenBy(f, k, p) <= k
  BY <1>9 DEF T
<1>11. TakenBy(f, k, p) = Len(f[k].s.live) - Len(s.live)
  <2> DEFINE a == p.freeBlockCount
             b == f[k].pool.freeBlockCount
             u == Len(s.live)
             v == Len(f[k].s.live)
             c == p.blockCount
  <2>1. a \in Int /\ b \in Int /\ c \in Nat /\ c - a = u /\ c - b = v
    <3>1. k \in 0 .. k
      OBVIOUS
    <3> QED BY <1>3, <1>5, <1>10, <3>1
  <2> HIDE DEF a, b, c, u, v
  <2>2. a - b = v - u
    BY <2>1
  <2> QED BY <2>2 DEF TakenBy, a, b, u, v
<1> QED BY <1>2, <1>4, <1>6, <1>10, <1>11 DEF Tallied

(* The pool's batch gets them too, and leaves the pool as the calls do.    *)
LEMMA BatchGetsThem ==
  ASSUME NEW p, NEW s, NEW m, NEW n \in Int, Agree(p, s, m, {}), NEW k \in Nat,
         NEW f, Calls(f, k, p, s, m, n)
  PROVE  AcquireBatch(p, m, k) = [got |-> Got(f, k, m), count |-> TakenBy(f, k, p), pool |-> f[k].pool]
<1> DEFINE z == [got |-> <<>>, count |-> 0, pool |-> p]
           One(q) == IF Acquire(q, m).got = Null THEN 0 ELSE 1
           Next_(r) == [got  |-> Append(r.got, Acquire(r.pool, m).got), count |-> r.count + One(r.pool),
                        pool |-> Acquire(r.pool, m).pool]
           Step(g, i) == IF i = 0 THEN z ELSE Next_(g[i-1])
           Solves(g) == g = [i \in 0 .. k |-> Step(g, i)]
           c == CHOOSE g : Solves(g)
           h == [i \in 0 .. k |-> [got |-> Got(f, i, m), count |-> TakenBy(f, i, p), pool |-> f[i].pool]]
<1>1. AcquireBatch(p, m, k) = c[k]
  BY DEF AcquireBatch
<1>2. p.freeBlockCount \in Int /\ Tallied(f, k, p, s, m)
  BY UsedAreLive, CallsAreCounted
<1>3. f[0].pool = p
  BY <1>2 DEF Tallied
<1>4. \A i \in 1 .. k : /\ f[i].pool = Acquire(f[i-1].pool, m).pool
                       /\ TakenBy(f, i, p) = TakenBy(f, i - 1, p) + One(f[i-1].pool)
  BY <1>2 DEF Tallied
<1> HIDE DEF One
<1>5. \A i \in 0 .. k : h[i].got = Got(f, i, m) /\ h[i].count = TakenBy(f, i, p) /\ h[i].pool = f[i].pool
  OBVIOUS
<1>6. h[0] = z
  <2>1. Got(f, 0, m) = <<>>
    BY DEF Got
  <2>2. TakenBy(f, 0, p) = 0
    BY <1>2, <1>3 DEF TakenBy
  <2> QED BY <1>3, <2>1, <2>2
<1>7. ASSUME NEW i \in 1 .. k PROVE h[i] = Next_(h[i-1])
  <2> DEFINE G == Got(f, i - 1, m)
             a == Acquire(f[i-1].pool, m)
  <2>1. i \in Nat /\ i - 1 \in 0 .. k /\ i \in 0 .. k /\ i - 1 \in Nat
    OBVIOUS
  <2>2. h[i-1].got = G /\ h[i-1].count = TakenBy(f, i - 1, p) /\ h[i-1].pool = f[i-1].pool
    BY <1>5, <2>1
  <2>3. Append(G, a.got) = Got(f, i, m)
    <3>1. /\ Len(G) = i - 1 /\ G \in [1 .. i - 1 -> {Acquire(f[j-1].pool, m).got : j \in 1 .. k}]
          /\ \A j \in 1 .. i - 1 : G[j] = Acquire(f[j-1].pool, m).got
      BY <2>1 DEF Got
    <3>2. G \in Seq({Acquire(f[j-1].pool, m).got : j \in 1 .. k})
      BY <2>1, <3>1, SeqDef
    <3> HIDE DEF a, G
    <3>3. /\ Append(G, a.got) = [j \in 1 .. i |-> IF j = i THEN a.got ELSE G[j]]
      BY <2>1, <3>1, <3>2
    <3>4. \A j \in 1 .. i : j # i => j \in 1 .. i - 1
      BY <2>1
    <3>5. ASSUME NEW j \in 1 .. i PROVE (IF j = i THEN a.got ELSE G[j]) = Acquire(f[j-1].pool, m).got
      BY <3>1, <3>4 DEF a
    <3> QED BY <3>3, <3>5 DEF Got
  <2>4. h[i] = [got |-> Got(f, i, m), count |-> TakenBy(f, i - 1, p) + One(f[i-1].pool), pool |-> a.pool]
    BY <1>4, <2>1
  <2> HIDE DEF h, G
  <2> QED BY <2>2, <2>3, <2>4
<1> HIDE DEF Next_
<1>8. Solves(h)
  <2>1. ASSUME NEW i \in 0 .. k PROVE h[i] = Step(h, i)
    <3>1. CASE i = 0
      BY <1>6, <3>1
    <3>2. CASE i # 0
      <4>1. i \in 1 .. k
        BY <3>2
      <4> HIDE DEF h
      <4> QED BY <1>7, <3>2, <4>1
    <3> QED BY <3>1, <3>2
  <2>2. h = [i \in 0 .. k |-> h[i]]
    OBVIOUS
  <2> HIDE DEF Step, h
  <2> QED BY <2>1, <2>2
<1> HIDE DEF Solves, h
<1>9. Solves(c)
  BY <1>8
<1> HIDE DEF c
<1>10. \A i \in 0 .. k : c[i] = Step(c, i)
  <2>1. c = [i \in 0 .. k |-> Step(c, i)]
    BY <1>9 DEF Solves
  <2> HIDE DEF Step
  <2> QED BY <2>1
<1> DEFINE T == {i \in 0 .. k : c[i] = h[i]}
<1> HIDE DEF z
<1>11. 0 \in T
  BY <1>6, <1>10
<1>12. ASSUME NEW i \in 1 .. k, i - 1 \in T PROVE i \in T
  <2>1. i \in 0 .. k /\ i # 0 /\ c[i-1] = h[i-1]
    BY <1>12
  <2>2. c[i] = Next_(c[i-1])
    BY <1>10, <2>1
  <2> QED BY <1>7, <2>1, <2>2
<1> HIDE DEF T
<1>13. \A i \in 0 .. k : i \in T
  BY <1>11, <1>12, RangeInduction
<1>14. c[k] = h[k] /\ k \in 0 .. k
  BY <1>13 DEF T
<1>15. h[k] = [got |-> Got(f, k, m), count |-> TakenBy(f, k, p), pool |-> f[k].pool]
  BY <1>14 DEF h
<1> QED BY <1>1, <1>14, <1>15

(* allocateBatch() of the harness is such a run: all the pointers first,   *)
(* then all the checks, comes to the same.                                 *)
LEMMA BatchIsCalls ==
  ASSUME NEW p, NEW s, NEW m, NEW n \in Int, Agree(p, s, m, {}), NEW k \in Nat,
         NEW f, Calls(f, k, p, s, m, n)
  PROVE  AllocateBatch(State(p, s, m, n), k) = f[k]
<1> DEFINE q == f[k].pool
           G == Got(f, k, m)
           z == State(q, s, m, n)
           Step(g, i) == IF i = 0 THEN z ELSE IF g[i-1].ok THEN Consume(g[i-1], G[i]) ELSE g[i-1]
           Solves(g) == g = [i \in 0 .. k |-> Step(g, i)]
           c == CHOOSE g : Solves(g)
           h == [i \in 0 .. k |-> State(q, f[i].s, f[i].m, f[i].alive)]
           st == State(p, s, m, n)
<1>1. AllocateBatch(st, k) = Check(c[k], TakenBy(f, k, p) <= k /\ TakenBy(f, k, p) = Len(c[k].s.live) - Len(s.live))
  <2>1. st.pool = p /\ st.s = s /\ st.m = m /\ [st EXCEPT !.pool = q] = z
    BY StateFields
  <2> DEFINE x == AcquireBatch(p, m, k)
  <2>2. x.got = G /\ x.count = TakenBy(f, k, p) /\ x.pool = q
    <3>1. x = [got |-> G, count |-> TakenBy(f, k, p), pool |-> q]
      BY BatchGetsThem
    <3> HIDE DEF x, G, q
    <3> QED BY <3>1
  <2> HIDE DEF st, x, G, q, z
  <2>3. AcquireBatch(st.pool, st.m, k) = x
    BY <2>1 DEF x
  <2>4. ConsumeEach(z, G, k) = c[k]
    BY DEF ConsumeEach
  <2> HIDE DEF c
  <2> QED BY <2>1, <2>2, <2>3, <2>4 DEF AllocateBatch
<1>2. /\ f[0] = st /\ f \in [0 .. k -> Drawn(p, s, m, n)]
      /\ \A i \in 1 .. k : f[i] = Allocate(f[i-1])
  BY DEF Calls
<1>3. f[0].s = s /\ f[0].m = m /\ f[0].alive = n
  BY <1>2, StateFields
<1>4. \A i \in 1 .. k : G[i] = Acquire(f[i-1].pool, m).got
  BY DEF Got
<1> HIDE DEF q, G, st
<1>5. h[0] = z
  BY <1>3
<1>6. \A i \in 0 .. k : h[i] = State(q, f[i].s, f[i].m, f[i].alive)
  OBVIOUS
<1>7. \A i \in 0 .. k : h[i].ok
  BY <1>6, StateFields
<1>8. ASSUME NEW i \in 1 .. k PROVE h[i] = Consume(h[i-1], G[i])
  <2>1. i \in 0 .. k /\ i - 1 \in 0 .. k
    OBVIOUS
  <2>2. f[i-1] \in Drawn(p, s, m, n) /\ f[i] = Allocate(f[i-1])
    BY <1>2, <2>1
  <2> DEFINE x == f[i-1]
  <2> HIDE DEF x
  <2>3. \A p3 : Consume(State(p3, x.s, x.m, x.alive), Acquire(x.pool, m).got)
                  = State(p3, Allocate(x).s, Allocate(x).m, Allocate(x).alive)
    BY <2>2, DrawOne DEF x
  <2>4. G[i] = Acquire(x.pool, m).got
    BY <1>4 DEF x
  <2>5. h[i-1] = State(q, x.s, x.m, x.alive) /\ h[i] = State(q, Allocate(x).s, Allocate(x).m, Allocate(x).alive)
    BY <1>6, <2>1, <2>2 DEF x
  <2> QED BY <2>3, <2>4, <2>5
<1> HIDE DEF z
<1>9. Solves(h)
  <2>1. ASSUME NEW i \in 0 .. k PROVE h[i] = Step(h, i)
    <3>1. CASE i = 0
      BY <1>5, <3>1
    <3>2. CASE i # 0
      <4>1. i \in 1 .. k /\ i - 1 \in 0 .. k
        BY <3>2
      <4> HIDE DEF h
      <4> QED BY <1>7, <1>8, <3>2, <4>1
    <3> QED BY <3>1, <3>2
  <2>2. h = [i \in 0 .. k |-> h[i]]
    OBVIOUS
  <2> HIDE DEF Step, h
  <2> QED BY <2>1, <2>2
<1> HIDE DEF Solves, h
<1>10. Solves(c)
  BY <1>9
<1> HIDE DEF c
<1>11. \A i \in 0 .. k : c[i] = Step(c, i)
  <2>1. c = [i \in 0 .. k |-> Step(c, i)]
    BY <1>10 DEF Solves
  <2> HIDE DEF Step
  <2> QED BY <2>1
<1> DEFINE T == {i \in 0 .. k : c[i] = h[i]}
<1>12. 0 \in T
  BY <1>5, <1>11
<1>13. ASSUME NEW i \in 1 .. k, i - 1 \in T PROVE i \in T
  <2>1. i \in 0 .. k /\ i # 0 /\ c[i-1] = h[i-1] /\ i - 1 \in 0 .. k
    BY <1>13
  <2>2. c[i] = Consume(c[i-1], G[i])
    BY <1>7, <1>11, <2>1
  <2> QED BY <1>8, <2>1, <2>2
<1> HIDE DEF T
<1>14. \A i \in 0 .. k : i \in T
  BY <1>12, <1>13, RangeInduction
<1>15. c[k] = h[k]
  BY <1>14 DEF T
<1>16. f[k] = h[k]
  <2>1. f[k] \in Drawn(p, s, m, n)
    BY <1>2
  <2>2. f[k] = State(f[k].pool, f[k].s, f[k].m, f[k].alive)
    BY <2>1, DrawOne
  <2> QED BY <1>6, <2>2 DEF q
<1>17. TakenBy(f, k, p) <= k /\ TakenBy(f, k, p) = Len(f[k].s.live) - Len(s.live)
  <2>1. Tallied(f, k, p, s, m)
    BY CallsAreCounted
  <2> QED BY <2>1 DEF Tallied
<1> QED BY <1>1, <1>15, <1>16, <1>17 DEF st, Check

(* Allocation, one by one, until the pool is exhausted, or as a batch,     *)
(* keeps the two in step.                                                  *)
LEMMA AllocationSound ==
  ASSUME NEW p, NEW s, NEW m, NEW n \in Int, Agree(p, s, m, {})
  PROVE  /\ Sound(p, s, m, n, Allocate(State(p, s, m, n)))
         /\ Sound(p, s, m, n, Fill(State(p, s, m, n)))
         /\ \A k \in Nat : Sound(p, s, m, n, AllocateBatch(State(p, s, m, n), k))
<1>1. ASSUME NEW x \in Drawn(p, s, m, n) PROVE Sound(p, s, m, n, x)
  <2>1. x = State(x.pool, x.s, x.m, x.alive)
    BY DrawOne
  <2>2. Keeps(p, s, m, n, x.pool, x.s, x.m, x.alive)
    BY DEF Drawn
  <2> QED BY <2>1, <2>2 DEF Sound
<1>2. Sound(p, s, m, n, Allocate(State(p, s, m, n)))
  <2>1. PICK f : Calls(f, 1, p, s, m, n)
    BY CallsExist
  <2>2. 1 \in 1 .. 1 /\ 1 \in 0 .. 1 /\ 1 - 1 = 0
    OBVIOUS
  <2>3. f[1] = Allocate(f[1-1]) /\ f[0] = State(p, s, m, n) /\ f[1] \in Drawn(p, s, m, n)
    BY <2>1, <2>2 DEF Calls
  <2> QED BY <1>1, <2>2, <2>3
<1>3. Sound(p, s, m, n, Fill(State(p, s, m, n)))
  <2> DEFINE k == s.blockCount + 1
  <2>1. k \in Nat
    <3>1. s.blockCount \in Nat
      BY DEF Agree, Shadows
    <3> QED BY <3>1
  <2> HIDE DEF k
  <2>2. PICK f : Calls(f, k, p, s, m, n)
    BY <2>1, CallsExist
  <2>3. f[k] \in Drawn(p, s, m, n)
    <3>1. k \in 0 .. k
      BY <2>1
    <3> QED BY <2>2, <3>1 DEF Calls
  <2>4. Fill(State(p, s, m, n)) = f[k]
    BY <2>2, FillIsCalls DEF k
  <2> QED BY <1>1, <2>3, <2>4
<1>4. ASSUME NEW k \in Nat PROVE Sound(p, s, m, n, AllocateBatch(State(p, s, m, n), k))
  <2>1. PICK f : Calls(f, k, p, s, m, n)
    BY CallsExist
  <2>2. f[k] \in Drawn(p, s, m, n)
    BY <2>1 DEF Calls
  <2>3. AllocateBatch(State(p, s, m, n), k) = f[k]
    BY <2>1, BatchIsCalls
  <2> QED BY <1>1, <2>2, <2>3
<1> QED BY <1>2, <1>3, <1>4

---------------------------------------------------------------------------
(* Blocks go back.                                                         *)

(* What then becomes of the two, and of the number of objects.             *)
LEMMA Leave ==
  ASSUME NEW p, NEW s, NEW m, NEW X, Agree(p, s, m, X),
         NEW A, A \subseteq 1 .. Len(s.live), NEW q, Without(s.live, q, A)
  PROVE  /\ Agree(p, [s EXCEPT !.live = q], m, X \cup BlocksAt(s.live, A))
         /\ LiveObjectCount([s EXCEPT !.live = q]) = LiveObjectCount(s) - Cardinality(ObjectsAt(s.live, A))
<1> DEFINE l == s.live
           D == BlocksAt(l, A)
           s2 == [s EXCEPT !.live = q]
<1>1. s \in Shadows /\ l \in Seq(Lives) /\ q \in Seq(Lives)
  BY DEF Agree, Shadows, Without
<1>2. \A j, k \in 1 .. Len(l) : j # k => l[j].index # l[k].index
  BY DEF Agree, Parted
<1>3. \A k \in 1 .. Len(l) : l[k].index \notin D <=> k \notin A
  BY <1>2 DEF BlocksAt
<1>4. D \subseteq LiveBlocks(s)
  BY DEF BlocksAt, LiveBlocks
<1> HIDE DEF D
<1>5. \A j, k \in 1 .. Len(q) : j # k => q[j].index # q[k].index
  BY DEF Without
<1>6. /\ \A j \in 1 .. Len(q) : \E k \in (1 .. Len(l)) \ A : q[j] = l[k]
      /\ \A k \in (1 .. Len(l)) \ A : \E j \in 1 .. Len(q) : q[j] = l[k]
  BY DEF Without
<1>7. \A j \in 1 .. Len(q) : \E k \in 1 .. Len(s.live) : q[j] = s.live[k] /\ s.live[k].index \notin D
  BY <1>3, <1>6
<1>8. \A k \in 1 .. Len(s.live) : s.live[k].index \notin D => \E j \in 1 .. Len(q) : q[j] = s.live[k]
  BY <1>3, <1>6
<1>9. Agree(p, s2, m, X \cup D)
  BY <1>1, <1>4, <1>5, <1>7, <1>8, GiveUp
<1>10. s2 \in Shadows /\ s2.live = q
  BY <1>1 DEF Shadows
<1> HIDE DEF l, s2
<1>11. Cardinality(ObjectsIn(q)) = Cardinality(ObjectsIn(s.live)) - Cardinality(ObjectsAt(s.live, A))
  BY <1>1, <1>2, SomeLess DEF l
<1>12. LiveObjectCount(s) = Cardinality(ObjectsIn(s.live)) /\ LiveObjectCount(s2) = Cardinality(ObjectsIn(s2.live))
  BY <1>1, <1>10, ObjectsAreCounted
<1> QED BY <1>9, <1>10, <1>11, <1>12 DEF D, l, s2

(* A live block was seen, so the shadow knows where it is.                 *)
LEMMA LiveIsAt ==
  ASSUME NEW p, NEW s, NEW m, NEW X, Agree(p, s, m, X), NEW k \in 1 .. Len(s.live)
  PROVE  /\ s.live[k].index \in LiveBlocks(s)
         /\ At(s, s.live[k].index) = Block(p.memory, s.live[k].index)
         /\ m[At(s, s.live[k].index)] = Content(s.live[k])
<1>1. s.live \in Seq(Lives)
  BY DEF Agree, Shadows
<1>2. s.live # <<>>
  BY <1>1, EmptySeq
<1>3. s.base = Block(p.memory, 0)
  BY <1>2 DEF Agree, Placed
<1>4. s.live[k].index \in LiveBlocks(s)
  BY DEF LiveBlocks
<1>5. s.live[k].index \in Nat
  BY <1>4, IssuedAreCells
<1> QED BY <1>3, <1>4, <1>5, AtIsBlock DEF Agree, Filled

(* The holders of the blocks at A give them up: their contents are right.  *)
RelinquishesTo(p, s, m, n, A) ==
  Relinquish(State(p, s, m, n), A) = State(p, s, m, n - Cardinality(ObjectsAt(s.live, A)))

(* They do so with no check failing.                                       *)
LEMMA RelinquishPasses ==
  ASSUME NEW p, NEW s, NEW m, NEW X, Agree(p, s, m, X), NEW A, A \subseteq 1 .. Len(s.live), NEW n
  PROVE  RelinquishesTo(p, s, m, n, A)
<1> DEFINE st == State(p, s, m, n)
<1>1. st.s = s /\ st.m = m /\ st.alive = n
  BY StateFields
<1>2. \A k \in A : CheckLive(st, st.s.live[k])
  <2> HIDE DEF st
  <2> QED BY <1>1, LiveIsAt DEF CheckLive
<1>3. [st EXCEPT !.alive = @ - Cardinality({k \in A : st.s.live[k].isObject})]
        = State(p, s, m, n - Cardinality(ObjectsAt(s.live, A)))
  <2>1. st.alive - Cardinality({k \in A : st.s.live[k].isObject}) = n - Cardinality(ObjectsAt(s.live, A))
    BY <1>1 DEF ObjectsAt
  <2>2. \A x : [st EXCEPT !.alive = x] = State(p, s, m, x)
    BY StateFields
  <2> HIDE DEF st
  <2> QED BY <2>1, <2>2
<1> HIDE DEF st
<1>4. Relinquish(st, A) = [st EXCEPT !.alive = @ - Cardinality({k \in A : st.s.live[k].isObject})]
  BY <1>2 DEF Relinquish, Check
<1> QED BY <1>3, <1>4 DEF st, RelinquishesTo

(* dropLive(): the last entry takes the place of the one that goes.        *)
LEMMA DropLiveIsWithout ==
  ASSUME NEW p, NEW s, NEW m, NEW X, Agree(p, s, m, X), NEW at \in 1 .. Len(s.live)
  PROVE  /\ DropLive(s, at) = [s EXCEPT !.live = DropLive(s, at).live]
         /\ Without(s.live, DropLive(s, at).live, {at})
<1> DEFINE l == s.live
           n == Len(l)
           t == [l EXCEPT ![at] = Last(l)]
           q == Front(t)
<1>1. s \in Shadows /\ l \in Seq(Lives) /\ at \in 1 .. n /\ n \in Nat
  BY DEF Agree, Shadows
<1>2. \A j, k \in 1 .. Len(l) : j # k => l[j].index # l[k].index
  BY DEF Agree, Parted
<1>3. DropLive(s, at).live = q /\ DropLive(s, at) = [s EXCEPT !.live = q]
  <2> HIDE DEF q
  <2>1. [s EXCEPT !.live = q].live = q
    BY <1>1 DEF Shadows
  <2>2. DropLive(s, at) = [s EXCEPT !.live = q]
    BY DEF DropLive, q
  <2> QED BY <2>1, <2>2
<1> HIDE DEF l
<1>4. l # <<>> /\ n >= 1
  BY <1>1, EmptySeq
<1>5. Last(l) = l[n] /\ Last(l) \in Lives
  BY <1>1, <1>4, FrontLast
<1> HIDE DEF n
<1>6. t \in Seq(Lives) /\ Len(t) = n /\ \A j \in 1 .. n : t[j] = IF j = at THEN l[n] ELSE l[j]
  BY <1>1, <1>5, ExceptSeq DEF n
<1> HIDE DEF t
<1>7. t # <<>>
  BY <1>4, <1>6, EmptySeq
<1>8. q \in Seq(Lives) /\ Len(q) = n - 1 /\ \A j \in 1 .. n - 1 : q[j] = t[j]
  BY <1>6, <1>7, FrontLast
<1> HIDE DEF q
<1>9. \A j \in 1 .. n - 1 : j \in 1 .. n /\ j # n /\ q[j] = IF j = at THEN l[n] ELSE l[j]
  BY <1>1, <1>6, <1>8
<1>10. n \in 1 .. n
  BY <1>1, <1>4
<1>11. \A j, k \in 1 .. n : j # k => l[j].index # l[k].index
  BY <1>2 DEF n
<1>12. ASSUME NEW j \in 1 .. Len(q), NEW k \in 1 .. Len(q), j # k PROVE q[j].index # q[k].index
  BY <1>8, <1>9, <1>10, <1>11, <1>12
<1>13. ASSUME NEW j \in 1 .. Len(q) PROVE \E k \in (1 .. n) \ {at} : q[j] = l[k]
  <2>1. CASE j = at
    BY <1>8, <1>9, <1>10, <2>1
  <2>2. CASE j # at
    BY <1>8, <1>9, <2>2
  <2> QED BY <2>1, <2>2
<1>14. ASSUME NEW k \in (1 .. n) \ {at} PROVE \E j \in 1 .. Len(q) : q[j] = l[k]
  <2>1. CASE k = n
    <3>1. at \in 1 .. n - 1
      BY <1>1, <2>1
    <3> QED BY <1>8, <1>9, <2>1, <3>1
  <2>2. CASE k # n
    <3>1. k \in 1 .. n - 1
      BY <1>1, <2>2
    <3> QED BY <1>8, <1>9, <3>1
  <2> QED BY <2>1, <2>2
<1>15. Without(l, q, {at})
  BY <1>8, <1>12, <1>13, <1>14 DEF Without, n
<1> QED BY <1>3, <1>15 DEF l

(* One live block goes back, with its object if it holds one.              *)
LEMMA OneBack ==
  ASSUME NEW p, NEW s, NEW m, NEW n \in Int, Agree(p, s, m, {}), NEW at \in 1 .. Len(s.live)
  PROVE  /\ Keeps(p, s, m, n, PoolBack(p, s.live[at].index), Returned(s, at),
                  MemoryBack(p, m, s.live[at].index), n - Cardinality(ObjectsAt(s.live, {at})))
         /\ Cardinality(ObjectsAt(s.live, {at})) = IF s.live[at].isObject THEN 1 ELSE 0
<1> DEFINE i == s.live[at].index
           d == DropLive(s, at)
           q == d.live
           p2 == PoolBack(p, i)
           m2 == MemoryBack(p, m, i)
           s2 == Returned(s, at)
           o == Cardinality(ObjectsAt(s.live, {at}))
<1>1. p \in Pools /\ s \in Shadows /\ m \in Memories
  BY DEF Agree
<1>2. d = [s EXCEPT !.live = q] /\ Without(s.live, q, {at})
  BY DropLiveIsWithout
<1> HIDE DEF d, q
<1>3. {} \cup BlocksAt(s.live, {at}) = {i}
  BY DEF BlocksAt
<1>4. /\ Agree(p, d, m, {} \cup BlocksAt(s.live, {at}))
      /\ LiveObjectCount(d) = LiveObjectCount(s) - o
  <2>1. {at} \subseteq 1 .. Len(s.live)
    OBVIOUS
  <2> QED BY <1>2, <2>1, Leave
<1>5. Agree(p, d, m, {i})
  BY <1>3, <1>4
<1>6. d \in Shadows /\ d.freeStack = s.freeStack
  BY <1>1, <1>2, <1>5 DEF Agree, Shadows
<1> HIDE DEF i
<1>7. Agree(p2, [d EXCEPT !.freeStack = Append(d.freeStack, i)], m2, {i} \ {i})
  <2>1. i \in {i}
    OBVIOUS
  <2> QED BY <1>5, <2>1, Release
<1>8. s2 = [d EXCEPT !.freeStack = Append(d.freeStack, i)]
  BY DEF Returned, i, d
<1>9. {i} \ {i} = {}
  OBVIOUS
<1>10. Agree(p2, s2, m2, {})
  <2> HIDE DEF s2
  <2> QED BY <1>7, <1>8, <1>9
<1>11. s2.live = d.live /\ s2 \in Shadows
  <2> HIDE DEF s2
  <2> QED BY <1>6, <1>8, <1>10 DEF Shadows, Agree
<1> HIDE DEF s2
<1>12. LiveObjectCount(s2) = LiveObjectCount(d)
  BY <1>6, <1>11, ObjectsAreCounted
<1>13. p2.memory = p.memory
  BY <1>1 DEF PoolBack, Pools
<1>14. \A c \in Cells : c[1] # p.memory => m2[c] = m[c]
  <2>1. Block(p.memory, i)[1] = p.memory
    BY DEF Block
  <2> QED BY <1>1, <2>1 DEF MemoryBack, Memories
<1>15. o = IF s.live[at].isObject THEN 1 ELSE 0
  <2>1. CASE s.live[at].isObject
    <3>1. ObjectsAt(s.live, {at}) = {at}
      BY <2>1 DEF ObjectsAt
    <3> QED BY <2>1, <3>1, FS_Singleton
  <2>2. CASE ~ s.live[at].isObject
    <3>1. ObjectsAt(s.live, {at}) = {}
      BY <2>2 DEF ObjectsAt
    <3> QED BY <2>2, <3>1, FS_EmptySet
  <2> QED BY <2>1, <2>2
<1> HIDE DEF o, p2, m2
<1>16. LiveObjectCount(s) \in Nat /\ o \in Int
  BY <1>1, <1>15, ObjectsAreCounted
<1>17. Keeps(p, s, m, n, p2, s2, m2, n - o)
  BY <1>4, <1>10, <1>12, <1>13, <1>14, <1>16 DEF Keeps
<1> QED BY <1>15, <1>17 DEF i, p2, s2, m2, o

(* deallocate() of one live block keeps the two in step.                   *)
LEMMA DeallocateOneSound ==
  ASSUME NEW p, NEW s, NEW m, NEW n \in Int, Agree(p, s, m, {}), NEW at \in 1 .. Len(s.live)
  PROVE  Sound(p, s, m, n, DeallocateOne(State(p, s, m, n), at))
<1> DEFINE st == State(p, s, m, n)
           i == s.live[at].index
           o == Cardinality(ObjectsAt(s.live, {at}))
           p2 == PoolBack(p, i)
           m2 == MemoryBack(p, m, i)
           s2 == Returned(s, at)
<1>1. st.s = s
  BY StateFields
<1>2. At(s, i) = Block(p.memory, i) /\ i \in LiveBlocks(s)
  BY LiveIsAt
<1>3. Relinquish(st, {at}) = State(p, s, m, n - o)
  <2>1. {at} \subseteq 1 .. Len(s.live)
    OBVIOUS
  <2> QED BY <2>1, RelinquishPasses DEF RelinquishesTo
<1>4. Keeps(p, s, m, n, p2, s2, m2, n - o)
  BY OneBack
<1> HIDE DEF i, o
<1>5. PoolDeallocate(State(p, s, m, n - o), Block(p.memory, i)) = State(p2, s, m2, n - o)
  BY <1>2, TakenBack
<1> DEFINE done == State(p2, s, m2, n - o)
<1>6. done.s = s /\ [done EXCEPT !.s = s2] = State(p2, s2, m2, n - o)
  BY StateFields
<1> HIDE DEF st, done, p2, m2
<1>7. DeallocateOne(st, at) = [done EXCEPT !.s = Returned(@, at)]
  BY <1>1, <1>2, <1>3, <1>5 DEF DeallocateOne, done, i
<1>8. DeallocateOne(st, at) = State(p2, s2, m2, n - o)
  <2> HIDE DEF s2
  <2> QED BY <1>6, <1>7 DEF s2
<1> HIDE DEF s2
<1> QED BY <1>4, <1>8 DEF Sound, st

(* destroy() of one object keeps the two in step, and takes one object.    *)
LEMMA DestroyOneSound ==
  ASSUME NEW p, NEW s, NEW m, NEW n \in Int, Agree(p, s, m, {}), NEW at \in 1 .. Len(s.live),
         s.live[at].isObject
  PROVE  Sound(p, s, m, n, DestroyOne(State(p, s, m, n), at))
<1> DEFINE st == State(p, s, m, n)
           i == s.live[at].index
           p2 == PoolBack(p, i)
           m2 == MemoryBack(p, m, i)
           s2 == Returned(s, at)
           c == Block(p.memory, i)
           done == State(p2, s, m2, n - 1)
<1>1. /\ st.s = s /\ st.pool = p /\ st.m = m /\ st.alive = n
      /\ [st EXCEPT !.alive = n - 1] = State(p, s, m, n - 1)
  BY StateFields
<1>2. At(s, i) = c /\ i \in LiveBlocks(s) /\ m[c] = Content(s.live[at])
  BY LiveIsAt
<1>3. Keeps(p, s, m, n, p2, s2, m2, n - 1)
  <2> DEFINE o == Cardinality(ObjectsAt(s.live, {at}))
  <2>1. Keeps(p, s, m, n, p2, s2, m2, n - o) /\ o = IF s.live[at].isObject THEN 1 ELSE 0
    BY OneBack
  <2> HIDE DEF o, p2, s2, m2
  <2>2. o = 1
    BY <2>1
  <2> QED BY <2>1, <2>2
<1> HIDE DEF i
<1>4. PoolDeallocate(State(p, s, m, n - 1), c) = done
  BY <1>2, TakenBack
<1>5. Owns(p, c) /\ c # Null
  <2>1. Owns(p, c) /\ c \in Cells
    BY <1>2, IssuedAreCells
  <2> HIDE DEF c
  <2> QED BY <2>1, FuzzAssumption
<1>6. done.s = s /\ done.alive = n - 1 /\ [done EXCEPT !.s = s2] = State(p2, s2, m2, n - 1)
  BY StateFields
<1> HIDE DEF st, c, done, p2, m2
<1>7. PoolDestroy(st, c) = done
  <2>1. PoolDestroy(st, c) = PoolDeallocate([st EXCEPT !.alive = n - 1], c)
    BY <1>1, <1>5 DEF PoolDestroy
  <2> QED BY <1>1, <1>4, <2>1
<1>8. CheckLive(st, st.s.live[at])
  BY <1>1, <1>2 DEF CheckLive, i
<1>9. Check(done, CheckLive(st, st.s.live[at]) /\ done.alive = st.alive - 1) = done
  BY <1>1, <1>6, <1>8 DEF Check
<1>10. DestroyOne(st, at) = [done EXCEPT !.s = Returned(@, at)]
  BY <1>1, <1>2, <1>7, <1>9 DEF DestroyOne, i
<1>11. DestroyOne(st, at) = State(p2, s2, m2, n - 1)
  <2> HIDE DEF s2
  <2> QED BY <1>6, <1>10 DEF s2
<1> HIDE DEF s2
<1> QED BY <1>3, <1>11 DEF Sound, st

---------------------------------------------------------------------------
(* Blocks go back in a batch.                                              *)

(* What the release of blocks of this arena can make of a harness.         *)
BackStates(p, s, m, n) ==
  {x \in States :
     /\ x.pool.memory = p.memory /\ x.pool.blockCount = p.blockCount /\ x.alive = n
     /\ x.s = [s EXCEPT !.freeStack = x.s.freeStack]
     /\ \A c \in Cells : c[1] # p.memory => x.m[c] = m[c]}

BackOne(x, i) ==
  State(PoolBack(x.pool, i), [x.s EXCEPT !.freeStack = Append(x.s.freeStack, i)],
        MemoryBack(x.pool, x.m, i), x.alive)

(* One block of the order after the other.                                 *)
Backs(f, order, p, s, m, n) ==
  /\ f \in [0 .. Len(order) -> BackStates(p, s, m, n)]
  /\ f[0] = State(p, s, m, n)
  /\ \A j \in 1 .. Len(order) : f[j] = BackOne(f[j-1], order[j])

(* The order names each of the blocks X once.                              *)
Lists(order, X) ==
  /\ order \in Seq(Nat)
  /\ \A j, k \in 1 .. Len(order) : j # k => order[j] # order[k]
  /\ X = {order[k] : k \in 1 .. Len(order)}

Rest(order, j) == {order[k] : k \in j + 1 .. Len(order)}

(* After j of them, the others are still travelling.                       *)
BackSoFar(f, order, s, j) ==
  /\ Agree(f[j].pool, f[j].s, f[j].m, Rest(order, j))
  /\ f[j].s.freeStack = s.freeStack \o SubSeq(order, 1, j)

(* Releasing a block of the arena leads from such a state to another.      *)
LEMMA BackStep ==
  ASSUME NEW p, NEW s, NEW m, NEW X, Agree(p, s, m, X), NEW n \in Int,
         NEW i \in X, NEW x \in BackStates(p, s, m, n)
  PROVE  BackOne(x, i) \in BackStates(p, s, m, n)
<1> DEFINE q == x.pool
           r == x.s
           w == x.m
           c == Block(p.memory, i)
           q2 == PoolBack(q, i)
           r2 == [r EXCEPT !.freeStack = Append(r.freeStack, i)]
           w2 == MemoryBack(q, w, i)
<1>1. /\ q \in Pools /\ r \in Shadows /\ w \in Memories /\ q.memory = p.memory /\ q.blockCount = p.blockCount
      /\ x.alive = n /\ r = [s EXCEPT !.freeStack = r.freeStack]
      /\ \A d \in Cells : d[1] # p.memory => w[d] = m[d]
  BY DEF BackStates, States
<1>2. c \in Cells /\ i \in Nat /\ c[1] = p.memory
  BY IssuedAreCells, Addresses
<1>3. s \in Shadows
  BY DEF Agree
<1> HIDE DEF q, r, w, c
<1>4. q2 \in Pools /\ q2.memory = p.memory /\ q2.blockCount = p.blockCount
  <2>1. q2 = [q EXCEPT !.freeList = c, !.freeBlockCount = q.freeBlockCount + 1]
    BY <1>1 DEF PoolBack, c
  <2>2. q.freeBlockCount + 1 \in Int
    BY <1>1 DEF Pools
  <2> HIDE DEF q2
  <2> QED BY <1>1, <1>2, <2>1, <2>2 DEF Pools
<1>5. r2 \in Shadows /\ r2 = [s EXCEPT !.freeStack = r2.freeStack]
  <2> DEFINE t == Append(r.freeStack, i)
  <2>1. t \in Seq(Nat)
    <3>1. r.freeStack \in Seq(Nat)
      BY <1>1 DEF Shadows
    <3> QED BY <1>2, <3>1
  <2> HIDE DEF t
  <2>2. r2 \in Shadows /\ r2.freeStack = t
    BY <1>1, <2>1 DEF Shadows, t
  <2>3. r2 = [s EXCEPT !.freeStack = t]
    BY <1>1, <1>3, <2>1 DEF Shadows, t
  <2> QED BY <2>2, <2>3
<1>6. w2 \in Memories /\ \A d \in Cells : d[1] # p.memory => w2[d] = m[d]
  <2>1. w2 = [w EXCEPT ![c] = q.freeList]
    BY <1>1 DEF MemoryBack, c
  <2>2. q.freeList \in Words
    BY <1>1 DEF Pools, Words
  <2> HIDE DEF w2
  <2> QED BY <1>1, <1>2, <2>1, <2>2 DEF Memories
<1> HIDE DEF q2, r2, w2
<1>7. BackOne(x, i) = State(q2, r2, w2, n)
  BY <1>1 DEF BackOne, q, r, w, q2, r2, w2
<1>8. State(q2, r2, w2, n) \in States
  BY <1>4, <1>5, <1>6 DEF State, States
<1>9. /\ State(q2, r2, w2, n).pool = q2 /\ State(q2, r2, w2, n).s = r2
      /\ State(q2, r2, w2, n).m = w2 /\ State(q2, r2, w2, n).alive = n
  BY StateFields
<1> QED BY <1>4, <1>5, <1>6, <1>7, <1>8, <1>9 DEF BackStates

(* There is such a run.                                                    *)
LEMMA BacksExist ==
  ASSUME NEW p, NEW s, NEW m, NEW X, Agree(p, s, m, X), NEW n \in Int, NEW order, Lists(order, X)
  PROVE  \E f : Backs(f, order, p, s, m, n)
<1> DEFINE k == Len(order)
           V == BackStates(p, s, m, n)
           z == State(p, s, m, n)
           step == [i \in 1 .. k |-> [x \in V |-> BackOne(x, order[i])]]
<1>1. k \in Nat /\ \A i \in 1 .. k : order[i] \in X
  BY DEF Lists
<1>2. z \in V
  <2>1. p \in Pools /\ s \in Shadows /\ m \in Memories
    BY DEF Agree
  <2>2. z \in States
    BY <2>1 DEF States, State
  <2>3. z.pool = p /\ z.s = s /\ z.m = m /\ z.alive = n
    BY StateFields
  <2>4. s = [s EXCEPT !.freeStack = s.freeStack]
    BY <2>1 DEF Shadows
  <2> HIDE DEF z
  <2> QED BY <2>2, <2>3, <2>4 DEF BackStates
<1>3. \A x \in V, i \in 1 .. k : BackOne(x, order[i]) \in V
  BY <1>1, BackStep
<1> HIDE DEF V, k
<1>4. step \in [1 .. k -> [V -> V]]
  BY <1>3
<1>5. \A i \in 1 .. k, x \in V : step[i][x] = BackOne(x, order[i])
  OBVIOUS
<1> HIDE DEF step, z
<1>6. PICK f : Follows(f, k, V, z, step)
  BY <1>1, <1>2, <1>4, RangeRecursion
<1>7. \A i \in 1 .. k : f[i] = BackOne(f[i-1], order[i])
  <2> SUFFICES ASSUME NEW i \in 1 .. k PROVE f[i] = BackOne(f[i-1], order[i])
    OBVIOUS
  <2>1. i - 1 \in 0 .. k
    BY <1>1
  <2>2. f[i-1] \in V /\ f[i] = step[i][f[i-1]]
    BY <1>6, <2>1 DEF Follows
  <2> QED BY <1>5, <2>2
<1>8. Backs(f, order, p, s, m, n)
  BY <1>6, <1>7 DEF Backs, Follows, V, z, k
<1> QED BY <1>8

(* Joining three sequences of blocks.                                      *)
LEMMA Joined == \A a, b, c \in Seq(Nat) : (a \o b) \o c = a \o (b \o c)
BY ConcatAssociative, SMTT(30)

(* On the way, the blocks that are not yet back are still travelling.      *)
LEMMA BacksAgree ==
  ASSUME NEW p, NEW s, NEW m, NEW X, Agree(p, s, m, X), NEW n \in Int, NEW order, Lists(order, X),
         NEW f, Backs(f, order, p, s, m, n)
  PROVE  \A j \in 0 .. Len(order) : BackSoFar(f, order, s, j)
<1> DEFINE k == Len(order)
           free == s.freeStack
           Good(j) == /\ Agree(f[j].pool, f[j].s, f[j].m, Rest(order, j))
                      /\ f[j].s.freeStack = free \o SubSeq(order, 1, j)
           T == {j \in 0 .. k : Good(j)}
<1>1. /\ k \in Nat /\ order \in Seq(Nat) /\ X = {order[i] : i \in 1 .. k}
      /\ \A i, j \in 1 .. k : i # j => order[i] # order[j]
  BY DEF Lists
<1>2. /\ f[0] = State(p, s, m, n) /\ \A j \in 1 .. k : f[j] = BackOne(f[j-1], order[j])
      /\ f \in [0 .. k -> BackStates(p, s, m, n)]
  BY DEF Backs
<1>3. free \in Seq(Nat)
  BY DEF Agree, Shadows
<1> HIDE DEF k
<1>4. 0 \in T
  <2>1. f[0].pool = p /\ f[0].s = s /\ f[0].m = m
    BY <1>2, StateFields
  <2>2. Rest(order, 0) = X
    BY <1>1 DEF Rest, k
  <2>3. free \o SubSeq(order, 1, 0) = free
    <3> DEFINE e == SubSeq(order, 1, 0)
    <3>1. e = <<>>
      BY <1>1 DEF k
    <3> HIDE DEF e, free
    <3> QED BY <1>3, <3>1
  <2>4. Good(0)
    BY <2>1, <2>2, <2>3
  <2> QED BY <1>1, <2>4
<1>5. ASSUME NEW j \in 1 .. k, j - 1 \in T PROVE j \in T
  <2> DEFINE x == f[j-1]
             i == order[j]
             Y == Rest(order, j - 1)
             got == SubSeq(order, 1, j - 1)
  <2>1. j \in Nat /\ j - 1 \in 0 .. k /\ j \in 0 .. k /\ j - 1 + 1 = j /\ j \in j .. k
    BY <1>1
  <2>2. Good(j - 1)
    BY <1>5
  <2>3. f[j] = BackOne(x, i) /\ i \in Nat
    BY <1>1, <1>2 DEF k
  <2>4. i \in Y
    BY <2>1 DEF Rest, k
  <2>5. Y \ {i} = Rest(order, j)
    <3>1. Y = {order[l] : l \in j .. k} /\ Rest(order, j) = {order[l] : l \in j + 1 .. k}
      BY <2>1 DEF Rest, k
    <3>2. \A l \in j .. k : l = j \/ l \in j + 1 .. k
      BY <2>1
    <3>3. \A l \in j + 1 .. k : l \in j .. k /\ order[l] # order[j]
      BY <1>1, <2>1
    <3> HIDE DEF Y
    <3> QED BY <3>1, <3>2, <3>3
  <2>6. Agree(PoolBack(x.pool, i), [x.s EXCEPT !.freeStack = Append(x.s.freeStack, i)],
              MemoryBack(x.pool, x.m, i), Y \ {i})
    <3>1. Agree(x.pool, x.s, x.m, Y)
      BY <2>2
    <3> HIDE DEF x, i, Y
    <3> QED BY <2>4, <3>1, Release
  <2> DEFINE q2 == PoolBack(x.pool, i)
             r2 == [x.s EXCEPT !.freeStack = Append(x.s.freeStack, i)]
             w2 == MemoryBack(x.pool, x.m, i)
  <2>7. f[j].pool = q2 /\ f[j].s = r2 /\ f[j].m = w2
    <3> HIDE DEF x, q2, r2, w2
    <3>1. f[j] = State(q2, r2, w2, x.alive)
      BY <2>3 DEF BackOne, q2, r2, w2
    <3> QED BY <3>1, StateFields
  <2>8. x.s \in Shadows
    BY <2>2 DEF Agree
  <2>9. r2.freeStack = Append(x.s.freeStack, i)
    <3> HIDE DEF x, i
    <3> QED BY <2>8 DEF Shadows
  <2>10. Append(free \o got, i) = free \o SubSeq(order, 1, j)
    <3>1. SubSeq(order, 1, j) = got \o <<i>>
      <4>1. 1 \in 1 .. Len(order) /\ j \in 1 .. Len(order)
        BY <1>1, <2>1 DEF k
      <4> QED BY <1>1, <4>1, SubSeqRecursiveSecond
    <3>2. got \in Seq(Nat)
      <4>1. 1 \in Int /\ j - 1 \in Int /\ \A l \in 1 .. j - 1 : order[l] \in Nat
        BY <1>1, <2>1 DEF k
      <4> QED BY <4>1, SubSeqProperties
    <3> HIDE DEF got, i, free
    <3>3. <<i>> \in Seq(Nat) /\ free \o got \in Seq(Nat)
      BY <1>3, <2>3, <3>2, ConcatProperties
    <3>4. Append(free \o got, i) = (free \o got) \o <<i>>
      BY <2>3, <3>3, AppendIsConcat
    <3>5. (free \o got) \o <<i>> = free \o (got \o <<i>>)
      BY <1>3, <3>2, <3>3, Joined, Zenon
    <3> QED BY <3>1, <3>4, <3>5
  <2>11. f[j].s.freeStack = free \o SubSeq(order, 1, j)
    <3>1. x.s.freeStack = free \o got
      BY <2>2
    <3> HIDE DEF x, got, free, r2
    <3> QED BY <2>7, <2>9, <2>10, <3>1
  <2>12. Agree(f[j].pool, f[j].s, f[j].m, Rest(order, j))
    <3> HIDE DEF q2, r2, w2, x, Y
    <3> QED BY <2>5, <2>6, <2>7 DEF q2, r2, w2
  <2> QED BY <2>1, <2>11, <2>12
<1> HIDE DEF T
<1>6. \A j \in 0 .. k : j \in T
  BY <1>1, <1>4, <1>5, RangeInduction
<1> QED BY <1>6 DEF T, k, BackSoFar

(* A pointer the pool ignores.                                             *)
Foreign(p, x) == x = Null \/ ~Owns(p, x)

(* The pointers are the blocks of the order, with foreign ones between     *)
(* them: of the first k, g[k] are blocks.                                  *)
Sends(p, order, ptrs, g) ==
  /\ g \in [0 .. Len(ptrs) -> 0 .. Len(order)]
  /\ g[0] = 0 /\ g[Len(ptrs)] = Len(order)
  /\ \A k \in 1 .. Len(ptrs) :
       \/ g[k] = g[k-1] /\ Foreign(p, ptrs[k])
       \/ g[k] = g[k-1] + 1 /\ ptrs[k] = Block(p.memory, order[g[k]])

(* deallocateBatch() of the pool releases the blocks in the order, and     *)
(* ignores the rest.                                                       *)
LEMMA BatchIsBacks ==
  ASSUME NEW p, NEW s, NEW m, NEW X, Agree(p, s, m, X), NEW n \in Int, NEW order, Lists(order, X),
         NEW f, Backs(f, order, p, s, m, n), NEW s3, NEW ptrs, Len(ptrs) \in Nat,
         NEW g, Sends(p, order, ptrs, g)
  PROVE  PoolDeallocateBatch(State(p, s3, m, n), ptrs)
           = State(f[Len(order)].pool, s3, f[Len(order)].m, n)
<1> DEFINE k == Len(ptrs)
           N == Len(order)
           st == State(p, s3, m, n)
           Step(h, i) == IF i = 0 THEN st ELSE PoolDeallocate(h[i-1], ptrs[i])
           Solves(h) == h = [i \in 0 .. k |-> Step(h, i)]
           c == CHOOSE h : Solves(h)
           h == [i \in 0 .. k |-> State(f[g[i]].pool, s3, f[g[i]].m, n)]
<1>1. PoolDeallocateBatch(st, ptrs) = c[k]
  BY DEF PoolDeallocateBatch
<1>2. /\ f[0] = State(p, s, m, n) /\ \A j \in 1 .. N : f[j] = BackOne(f[j-1], order[j])
      /\ f \in [0 .. N -> BackStates(p, s, m, n)]
  BY DEF Backs
<1>3. /\ g \in [0 .. k -> 0 .. N] /\ g[0] = 0 /\ g[k] = N
      /\ \A i \in 1 .. k : \/ g[i] = g[i-1] /\ Foreign(p, ptrs[i])
                           \/ g[i] = g[i-1] + 1 /\ ptrs[i] = Block(p.memory, order[g[i]])
  BY DEF Sends
<1>4. \A j \in 0 .. N : Agree(f[j].pool, f[j].s, f[j].m, Rest(order, j))
  BY BacksAgree DEF BackSoFar
<1>5. N \in Nat /\ k \in Nat
  BY DEF Lists
<1> HIDE DEF N, k, st
<1>6. ASSUME NEW j \in 0 .. N
      PROVE  f[j].pool.memory = p.memory /\ f[j].pool.blockCount = p.blockCount /\ f[j].alive = n
  BY <1>2 DEF BackStates
<1>7. \A i \in 0 .. k : h[i] = State(f[g[i]].pool, s3, f[g[i]].m, n)
  OBVIOUS
<1>8. h[0] = st
  <2>1. f[0].pool = p /\ f[0].m = m
    BY <1>2, StateFields
  <2> QED BY <1>3, <1>5, <2>1 DEF st
<1> HIDE DEF h
<1>9. ASSUME NEW i \in 1 .. k PROVE h[i] = PoolDeallocate(h[i-1], ptrs[i])
  <2> DEFINE j == g[i-1]
             q == f[j].pool
             w == f[j].m
             y == State(q, s3, w, n)
  <2>1. i \in 0 .. k /\ i - 1 \in 0 .. k /\ j \in 0 .. N /\ g[i] \in 0 .. N
    BY <1>3, <1>5
  <2>2. h[i-1] = y /\ h[i] = State(f[g[i]].pool, s3, f[g[i]].m, n)
    BY <1>7, <2>1
  <2>3. y.pool = q
    BY StateFields
  <2> HIDE DEF y
  <2>4. CASE g[i] = j /\ Foreign(p, ptrs[i])
    <3>1. q.memory = p.memory /\ q.blockCount = p.blockCount
      BY <1>6, <2>1
    <3>2. ptrs[i] = Null \/ ~Owns(q, ptrs[i])
      <4> HIDE DEF q
      <4> QED BY <2>4, <3>1 DEF Foreign, Owns
    <3>3. PoolDeallocate(y, ptrs[i]) = y
      <4> HIDE DEF q
      <4> QED BY <2>3, <3>2 DEF PoolDeallocate
    <3>4. h[i] = y
      BY <2>2, <2>4 DEF y
    <3> QED BY <2>2, <3>3, <3>4
  <2>5. CASE g[i] = j + 1 /\ ptrs[i] = Block(p.memory, order[g[i]])
    <3> DEFINE o == order[j+1]
    <3>1. j + 1 \in 1 .. N /\ (j + 1) - 1 = j
      BY <1>5, <2>1, <2>5
    <3>2. f[j+1] = BackOne(f[j], o)
      BY <1>2, <3>1
    <3>3. f[j+1].pool = PoolBack(q, o) /\ f[j+1].m = MemoryBack(q, w, o)
      <4> HIDE DEF q, w, o
      <4>1. f[j+1] = State(PoolBack(q, o), [f[j].s EXCEPT !.freeStack = Append(f[j].s.freeStack, o)],
                           MemoryBack(q, w, o), f[j].alive)
        BY <3>2 DEF BackOne, q, w
      <4> HIDE DEF j
      <4> QED BY <4>1, StateFields
    <3>4. o \in Rest(order, j)
      BY <3>1 DEF Rest, N
    <3>5. Agree(q, f[j].s, w, Rest(order, j)) /\ q.memory = p.memory
      BY <1>4, <1>6, <2>1
    <3> HIDE DEF q, w, o, j
    <3>6. PoolDeallocate(State(q, s3, w, n), Block(q.memory, o)) = State(PoolBack(q, o), s3, MemoryBack(q, w, o), n)
      BY <3>4, <3>5, TakenBack
    <3> QED BY <2>2, <2>5, <3>3, <3>5, <3>6 DEF y, o
  <2> QED BY <1>3, <2>4, <2>5
<1>10. Solves(h)
  <2>1. ASSUME NEW i \in 0 .. k PROVE h[i] = Step(h, i)
    <3>1. CASE i = 0
      BY <1>8, <3>1
    <3>2. CASE i # 0
      <4>1. i \in 1 .. k
        BY <1>5, <3>2
      <4> QED BY <1>9, <3>2, <4>1
    <3> QED BY <3>1, <3>2
  <2>2. h = [i \in 0 .. k |-> h[i]]
    BY DEF h
  <2> HIDE DEF Step
  <2> QED BY <2>1, <2>2
<1> HIDE DEF Solves
<1>11. Solves(c)
  BY <1>10
<1> HIDE DEF c
<1>12. \A i \in 0 .. k : c[i] = Step(c, i)
  <2>1. c = [i \in 0 .. k |-> Step(c, i)]
    BY <1>11 DEF Solves
  <2> HIDE DEF Step
  <2> QED BY <2>1
<1> DEFINE T == {i \in 0 .. k : c[i] = h[i]}
<1>13. 0 \in T
  BY <1>5, <1>8, <1>12
<1>14. ASSUME NEW i \in 1 .. k, i - 1 \in T PROVE i \in T
  <2>1. i \in 0 .. k /\ i # 0 /\ c[i-1] = h[i-1]
    BY <1>5, <1>14
  <2>2. c[i] = PoolDeallocate(c[i-1], ptrs[i])
    BY <1>12, <2>1
  <2> QED BY <1>9, <2>1, <2>2
<1> HIDE DEF T
<1>15. \A i \in 0 .. k : i \in T
  BY <1>5, <1>13, <1>14, RangeInduction
<1>16. c[k] = h[k] /\ k \in 0 .. k
  BY <1>5, <1>15 DEF T
<1>17. h[k] = State(f[N].pool, s3, f[N].m, n)
  BY <1>3, <1>7, <1>16
<1> QED BY <1>1, <1>16, <1>17 DEF N, st

(* In short: the blocks on their way are all back, the last of the order   *)
(* on top.                                                                 *)
BatchBack(p, s, m, n, order, p2, m2) ==
  /\ Agree(p2, [s EXCEPT !.freeStack = s.freeStack \o order], m2, {})
  /\ p2.memory = p.memory /\ p2.blockCount = p.blockCount
  /\ \A c \in Cells : c[1] # p.memory => m2[c] = m[c]
  /\ \A s3, ptrs, g : Len(ptrs) \in Nat /\ Sends(p, order, ptrs, g) =>
       PoolDeallocateBatch(State(p, s3, m, n), ptrs) = State(p2, s3, m2, n)

(* A batch that sends every block on its way has them back.                *)
LEMMA AllBack ==
  ASSUME NEW p, NEW s, NEW m, NEW X, Agree(p, s, m, X), NEW n \in Int, NEW order, Lists(order, X)
  PROVE  \E p2, m2 : BatchBack(p, s, m, n, order, p2, m2)
<1>1. PICK f : Backs(f, order, p, s, m, n)
  BY BacksExist
<1> DEFINE N == Len(order)
           x == f[N]
           s2 == [s EXCEPT !.freeStack = s.freeStack \o order]
<1>2. N \in Nat /\ N \in 0 .. N /\ order \in Seq(Nat)
  BY DEF Lists
<1>3. /\ Agree(x.pool, x.s, x.m, Rest(order, N))
      /\ x.s.freeStack = s.freeStack \o SubSeq(order, 1, N)
  <2>1. \A j \in 0 .. N : BackSoFar(f, order, s, j)
    BY <1>1, BacksAgree
  <2> QED BY <1>2, <2>1 DEF BackSoFar
<1>4. SubSeq(order, 1, N) = order
  BY <1>2, SubSeqFull
<1>5. Rest(order, N) = {}
  <2>1. N + 1 .. N = {}
    BY <1>2
  <2> HIDE DEF N
  <2> QED BY <2>1 DEF Rest, N
<1>6. /\ x.pool.memory = p.memory /\ x.pool.blockCount = p.blockCount
      /\ x.s = [s EXCEPT !.freeStack = x.s.freeStack]
      /\ \A c \in Cells : c[1] # p.memory => x.m[c] = m[c]
  <2>1. x \in BackStates(p, s, m, n)
    BY <1>1, <1>2 DEF Backs
  <2> HIDE DEF x
  <2> QED BY <2>1 DEF BackStates
<1>7. ASSUME NEW s3, NEW ptrs, NEW g, Len(ptrs) \in Nat /\ Sends(p, order, ptrs, g)
      PROVE  PoolDeallocateBatch(State(p, s3, m, n), ptrs) = State(x.pool, s3, x.m, n)
  BY <1>1, <1>7, BatchIsBacks
<1> HIDE DEF x, N
<1>8. x.s = s2
  BY <1>3, <1>4, <1>6
<1>9. Agree(x.pool, s2, x.m, {})
  BY <1>3, <1>5, <1>8
<1> HIDE DEF s2
<1>10. BatchBack(p, s, m, n, order, x.pool, x.m)
  BY <1>6, <1>7, <1>9 DEF s2, BatchBack
<1> QED BY <1>10

---------------------------------------------------------------------------
(* Pointers that are no block of the pool.                                 *)

(* The pointers made up to be rejected are all ignored; there is one.      *)
LEMMA JunkIsForeign ==
  ASSUME NEW p \in Pools, NEW s \in Shadows, Counted(p, s), Placed(p, s),
         NEW other, other.live # <<>> => other.base[1] # p.memory
  PROVE  /\ Len(ForeignPointers(s, other)) \in Nat \ {0}
         /\ DOMAIN ForeignPointers(s, other) = 1 .. Len(ForeignPointers(s, other))
         /\ \A k \in 1 .. Len(ForeignPointers(s, other)) : Foreign(p, ForeignPointers(s, other)[k])
<1> DEFINE a == s.base[1]
           n == s.blockCount
           x0 == Block(Elsewhere, 0)
           x1 == Block(a, n)
           x2 == Inside(a, -1)
           x3 == Inside(a, 0)
           x4 == Inside(a, n - 1)
           x5 == At(other, other.live[1].index)
           J == {x \in {Null, x0, x1, x2, x3, x4, x5} : Foreign(p, x)}
           first == <<Null, x0>>
           ends == IF s.base = Null THEN <<>> ELSE <<x1, x2, x3, x4>>
           last == IF other.live = <<>> THEN <<>> ELSE <<x5>>
<1>1. n \in Nat /\ p.blockCount = n /\ p.memory \in Arenas \cup {Null}
  BY DEF Shadows, Pools, Counted
<1>2. Foreign(p, Null)
  BY DEF Foreign
<1>3. Foreign(p, x0)
  <2>1. CASE p.memory = Null
    <3>1. p.blockCount = 0
      BY <2>1 DEF Placed
    <3> QED BY <3>1 DEF Foreign, Owns
  <2>2. CASE p.memory # Null
    <3>1. x0[1] = Elsewhere /\ Elsewhere # p.memory
      BY <1>1, <2>2, FuzzAssumption DEF Block
    <3> HIDE DEF x0
    <3> QED BY <3>1 DEF Foreign, Owns
  <2> QED BY <2>1, <2>2
<1>4. Foreign(p, x1)
  <2>1. x1[2] = n /\ n \notin 0 .. p.blockCount - 1
    BY <1>1 DEF Block
  <2> HIDE DEF x1
  <2> QED BY <2>1 DEF Foreign, Owns
<1>5. Foreign(p, x2) /\ Foreign(p, x3) /\ Foreign(p, x4)
  <2>1. x2[3] = 1 /\ x3[3] = 1 /\ x4[3] = 1
    BY DEF Inside
  <2> HIDE DEF x2, x3, x4
  <2> QED BY <2>1 DEF Foreign, Owns
<1>6. other.live # <<>> => Foreign(p, x5)
  <2>1. x5[1] = other.base[1]
    BY DEF At
  <2> HIDE DEF x5
  <2> QED BY <2>1 DEF Foreign, Owns
<1> HIDE DEF x0, x1, x2, x3, x4, x5
<1>7. Null \in J /\ x0 \in J /\ x1 \in J /\ x2 \in J /\ x3 \in J /\ x4 \in J /\ (other.live # <<>> => x5 \in J)
  BY <1>2, <1>3, <1>4, <1>5, <1>6
<1>8. \A x \in J : Foreign(p, x)
  OBVIOUS
<1> HIDE DEF J
<1>9. first \in Seq(J) /\ Len(first) = 2
  BY <1>7
<1>10. ends \in Seq(J)
  BY <1>7
<1>11. last \in Seq(J)
  BY <1>7
<1>12. ForeignPointers(s, other) = (first \o ends) \o last
  BY DEF ForeignPointers, x0, x1, x2, x3, x4, x5
<1> HIDE DEF first, ends, last
<1> DEFINE u == first \o ends
           w == u \o last
<1>13. u \in Seq(J) /\ Len(u) = Len(first) + Len(ends)
  BY <1>9, <1>10, ConcatProperties
<1> HIDE DEF u
<1>14. w \in Seq(J) /\ Len(w) = Len(u) + Len(last)
  BY <1>11, <1>13, ConcatProperties
<1>15. Len(ends) \in Nat /\ Len(last) \in Nat
  BY <1>10, <1>11
<1> HIDE DEF w
<1>16. Len(w) \in Nat \ {0} /\ DOMAIN w = 1 .. Len(w) /\ \A k \in 1 .. Len(w) : w[k] \in J
  BY <1>9, <1>13, <1>14, <1>15
<1> QED BY <1>8, <1>12, <1>16 DEF u, w

(* A batch of such pointers changes nothing.                               *)
Ignored(p, s, m, n, ptrs, p2, m2) ==
  /\ PoolDeallocateBatch(State(p, s, m, n), ptrs) = State(p2, s, m2, n)
  /\ Keeps(p, s, m, n, p2, s, m2, n) /\ p2.blockCount = p.blockCount

(* Whatever foreign pointers a batch sends, they are ignored.              *)
LEMMA JunkBatch ==
  ASSUME NEW p, NEW s, NEW m, Agree(p, s, m, {}), NEW n \in Int,
         NEW ptrs, Len(ptrs) \in Nat, \A k \in 1 .. Len(ptrs) : Foreign(p, ptrs[k])
  PROVE  \E p2, m2 : Ignored(p, s, m, n, ptrs, p2, m2)
<1> DEFINE g == [k \in 0 .. Len(ptrs) |-> 0]
<1>0. PICK none \in Seq(Nat) : none = <<>>
  BY EmptySeq
<1>1. Len(none) = 0
  BY <1>0
<1>2. Lists(none, {})
  <2>1. 1 .. 0 = {}
    OBVIOUS
  <2> QED BY <1>1, <2>1 DEF Lists
<1>3. Sends(p, none, ptrs, g)
  BY <1>1 DEF Sends
<1> HIDE DEF g
<1>4. PICK p2, m2 : BatchBack(p, s, m, n, none, p2, m2)
  BY <1>2, AllBack
<1>5. [s EXCEPT !.freeStack = s.freeStack \o none] = s
  <2>1. s \in Shadows
    BY DEF Agree
  <2>2. s.freeStack \o none = s.freeStack
    <3>1. s.freeStack \in Seq(Nat)
      BY <2>1 DEF Shadows
    <3> QED BY <1>0, <3>1, ConcatEmptySeq
  <2>3. [s EXCEPT !.freeStack = s.freeStack] = s
    BY <2>1 DEF Shadows
  <2> QED BY <2>2, <2>3
<1>6. PoolDeallocateBatch(State(p, s, m, n), ptrs) = State(p2, s, m2, n)
  BY <1>3, <1>4 DEF BatchBack
<1>7. Keeps(p, s, m, n, p2, s, m2, n)
  BY <1>4, <1>5 DEF Keeps, BatchBack
<1>8. Ignored(p, s, m, n, ptrs, p2, m2)
  BY <1>4, <1>6, <1>7 DEF Ignored, BatchBack
<1> QED BY <1>8

(* rejectForeign() keeps the two in step: twice as a batch, and one by one *)
(* through destroy(), nothing it sends is taken.                           *)
LEMMA RejectForeignSound ==
  ASSUME NEW p, NEW s, NEW m, NEW n \in Int, Agree(p, s, m, {}),
         NEW other, other.live # <<>> => other.base[1] # p.memory
  PROVE  Sound(p, s, m, n, RejectForeign(State(p, s, m, n), other))
<1> DEFINE st == State(p, s, m, n)
           junk == ForeignPointers(s, other)
           k == Len(junk)
<1>1. st.s = s /\ st.pool = p
  BY StateFields
<1>2. /\ p \in Pools /\ s \in Shadows /\ Counted(p, s) /\ Placed(p, s)
  BY DEF Agree
<1>3. k \in Nat /\ DOMAIN junk = 1 .. k /\ \A i \in 1 .. k : Foreign(p, junk[i])
  BY <1>2, JunkIsForeign
<1> HIDE DEF junk
<1>4. PICK p1, m1 : Ignored(p, s, m, n, junk, p1, m1)
  BY <1>3, JunkBatch
<1>5. Agree(p1, s, m1, {}) /\ \A i \in 1 .. k : Foreign(p1, junk[i])
  BY <1>3, <1>4 DEF Ignored, Keeps, Foreign, Owns
<1>6. PICK p2, m2 : Ignored(p1, s, m1, n, junk, p2, m2)
  BY <1>3, <1>5, JunkBatch
<1>7. Keeps(p, s, m, n, p2, s, m2, n)
  <2>1. Keeps(p, s, m, n, p1, s, m1, n) /\ Keeps(p1, s, m1, n, p2, s, m2, n)
    BY <1>4, <1>6 DEF Ignored
  <2> QED BY <2>1, KeepsOn
<1>8. \A i \in 1 .. k : Foreign(p2, junk[i])
  BY <1>3, <1>4, <1>6 DEF Ignored, Keeps, Foreign, Owns
<1> DEFINE sent == State(p2, s, m2, n)
           Step(f, i) == IF i = 0 THEN sent
                         ELSE IF junk[i] = Null \/ junk[i][3] = 0 THEN PoolDestroy(f[i-1], junk[i])
                         ELSE f[i-1]
           Solves(f) == f = [i \in 0 .. k |-> Step(f, i)]
           c == CHOOSE f : Solves(f)
           h == [i \in 0 .. k |-> sent]
<1> HIDE DEF k
<1>9. RejectForeign(st, other) = Check(c[k], \A i \in DOMAIN junk : ~Owns(p, junk[i]))
  <2> HIDE DEF st
  <2>1. PoolDeallocateBatch(PoolDeallocateBatch(st, junk), junk) = sent
    BY <1>4, <1>6 DEF Ignored, st
  <2>2. ForeignPointers(st.s, other) = junk
    BY <1>1 DEF junk
  <2> HIDE DEF sent
  <2> QED BY <1>1, <2>1, <2>2 DEF RejectForeign, k
<1>10. sent.pool = p2
  BY StateFields
<1> HIDE DEF sent
<1>11. ASSUME NEW i \in 1 .. k PROVE PoolDestroy(sent, junk[i]) = sent
  BY <1>8, <1>10 DEF PoolDestroy, Foreign
<1>12. Solves(h)
  <2>1. ASSUME NEW i \in 0 .. k PROVE h[i] = Step(h, i)
    <3>1. CASE i = 0
      BY <3>1
    <3>2. CASE i # 0
      <4>1. i \in 1 .. k /\ i - 1 \in 0 .. k
        BY <1>3, <3>2
      <4> QED BY <1>11, <3>2, <4>1
    <3> QED BY <3>1, <3>2
  <2>2. h = [i \in 0 .. k |-> h[i]]
    OBVIOUS
  <2> HIDE DEF Step, h
  <2> QED BY <2>1, <2>2
<1> HIDE DEF Solves
<1>13. Solves(c)
  BY <1>12
<1> HIDE DEF c
<1>14. \A i \in 0 .. k : c[i] = Step(c, i)
  <2>1. c = [i \in 0 .. k |-> Step(c, i)]
    BY <1>13 DEF Solves
  <2> HIDE DEF Step
  <2> QED BY <2>1
<1> DEFINE T == {i \in 0 .. k : c[i] = sent}
<1>15. 0 \in T
  BY <1>3, <1>14
<1>16. ASSUME NEW i \in 1 .. k, i - 1 \in T PROVE i \in T
  BY <1>3, <1>11, <1>14, <1>16
<1> HIDE DEF T
<1>17. \A i \in 0 .. k : i \in T
  BY <1>3, <1>15, <1>16, RangeInduction
<1>18. c[k] = sent
  BY <1>3, <1>17 DEF T
<1>19. \A i \in DOMAIN junk : ~Owns(p, junk[i])
  BY <1>3 DEF Foreign, Owns
<1>20. RejectForeign(st, other) = sent
  BY <1>9, <1>18, <1>19 DEF Check
<1> QED BY <1>7, <1>20 DEF Sound, sent, st

---------------------------------------------------------------------------
(* A batch of live blocks goes back.                                       *)

(* Counting around d places.                                               *)
LEMMA Around ==
  ASSUME NEW d \in Nat \ {0}, NEW x \in Nat, x < 2 * d
  PROVE  x % d = IF x < d THEN x ELSE x - d
<1>1. ASSUME NEW q \in Nat, NEW r \in 0 .. d - 1 PROVE (q * d + r) % d = r
  OBVIOUS
<1>2. CASE x < d
  <2>1. x \in 0 .. d - 1 /\ 0 * d + x = x
    BY <1>2
  <2>2. (0 * d + x) % d = x
    BY <1>1, <2>1
  <2> QED BY <1>2, <2>1, <2>2
<1>3. CASE ~ (x < d)
  <2>1. x - d \in 0 .. d - 1 /\ 1 * d + (x - d) = x
    BY <1>3
  <2>2. (1 * d + (x - d)) % d = x - d
    BY <1>1, <2>1
  <2> QED BY <1>3, <2>1, <2>2
<1> QED BY <1>2, <1>3

(* The batch takes n of the live blocks, from a start on and around.       *)
Positions(start, size, n) == [k \in 1 .. n |-> ((start + k - 1) % size) + 1]

Apart(at, n, size) ==
  at \in [1 .. n -> 1 .. size] /\ \A j, k \in 1 .. n : j # k => at[j] # at[k]

(* It takes no block twice.                                                *)
LEMMA PositionsDiffer ==
  ASSUME NEW size \in Nat \ {0}, NEW start \in 1 .. size, NEW n \in 1 .. size
  PROVE  Apart(Positions(start, size, n), n, size)
<1> DEFINE at == Positions(start, size, n)
<1>1. \A k \in 1 .. n : at[k] = ((start + k - 1) % size) + 1 /\ DOMAIN at = 1 .. n
      /\ at = [j \in 1 .. n |-> at[j]]
  BY DEF Positions
<1>2. ASSUME NEW k \in 1 .. n
      PROVE  /\ at[k] = IF start + k - 1 < size THEN start + k ELSE start + k - size
             /\ at[k] \in 1 .. size
  <2> DEFINE x == start + k - 1
  <2>1. x \in Nat /\ x < 2 * size
    OBVIOUS
  <2>2. at[k] = (x % size) + 1
    BY <1>1
  <2> HIDE DEF x, at
  <2>3. x % size = IF x < size THEN x ELSE x - size
    BY <2>1, Around
  <2>4. x = start + k - 1
    BY DEF x
  <2> QED BY <2>1, <2>2, <2>3, <2>4
<1>3. at \in [1 .. n -> 1 .. size]
  <2>1. at = [k \in 1 .. n |-> ((start + k - 1) % size) + 1]
    BY DEF Positions
  <2> HIDE DEF at
  <2> QED BY <1>1, <1>2, <2>1
<1> HIDE DEF at
<1>4. ASSUME NEW j \in 1 .. n, NEW k \in 1 .. n, j # k PROVE at[j] # at[k]
  BY <1>2, <1>4
<1> QED BY <1>3, <1>4 DEF at, Apart

(* The pointers of the batch, with one that is foreign after each block or *)
(* with none.                                                              *)
Pointers(s, order, junk, n, withJunk) ==
  IF ~withJunk THEN [k \in 1 .. n |-> At(s, order[k])]
  ELSE [k \in 1 .. 2 * n |->
         IF k % 2 = 1 THEN At(s, order[(k + 1) \div 2])
                      ELSE junk[((k \div 2 - 1) % Len(junk)) + 1]]

(* The batch sends the blocks in order, each once.                         *)
LEMMA PointersAreSent ==
  ASSUME NEW p, NEW s, NEW n \in Nat, NEW order, Len(order) = n,
         \A k \in 1 .. n : At(s, order[k]) = Block(p.memory, order[k]),
         NEW junk, Len(junk) \in Nat \ {0}, \A k \in 1 .. Len(junk) : Foreign(p, junk[k]),
         NEW withJunk \in BOOLEAN
  PROVE  /\ Len(Pointers(s, order, junk, n, withJunk)) \in Nat
         /\ \E g : Sends(p, order, Pointers(s, order, junk, n, withJunk), g)
<1> DEFINE ptrs == Pointers(s, order, junk, n, withJunk)
<1>1. CASE ~withJunk
  <2>1. ptrs = [k \in 1 .. n |-> At(s, order[k])]
    BY <1>1 DEF Pointers
  <2> HIDE DEF ptrs
  <2>2. Len(ptrs) = n /\ \A k \in 1 .. n : ptrs[k] = Block(p.memory, order[k])
    BY <2>1
  <2> DEFINE g == [k \in 0 .. n |-> k]
  <2>3. \A k \in 1 .. n : g[k] = g[k-1] + 1 /\ ptrs[k] = Block(p.memory, order[g[k]])
    BY <2>2
  <2>4. Sends(p, order, ptrs, g)
    BY <2>2, <2>3 DEF Sends
  <2> QED BY <2>2, <2>4 DEF ptrs
<1>2. CASE withJunk
  <2> DEFINE pos(k) == ((k \div 2 - 1) % Len(junk)) + 1
  <2>1. ptrs = [k \in 1 .. 2 * n |-> IF k % 2 = 1 THEN At(s, order[(k + 1) \div 2]) ELSE junk[pos(k)]]
    BY <1>2 DEF Pointers
  <2> HIDE DEF ptrs
  <2>2. /\ Len(ptrs) = 2 * n
        /\ \A k \in 1 .. 2 * n : ptrs[k] = IF k % 2 = 1 THEN At(s, order[(k + 1) \div 2]) ELSE junk[pos(k)]
    BY <2>1
  <2> DEFINE g == [k \in 0 .. 2 * n |-> (k + 1) \div 2]
  <2>3. g \in [0 .. 2 * n -> 0 .. n] /\ g[0] = 0 /\ g[2 * n] = n
    <3>1. \A k \in 0 .. 2 * n : (k + 1) \div 2 \in 0 .. n
      OBVIOUS
    <3>2. (0 + 1) \div 2 = 0 /\ (2 * n + 1) \div 2 = n
      OBVIOUS
    <3> QED BY <3>1, <3>2
  <2>4. ASSUME NEW k \in 1 .. 2 * n
        PROVE  \/ g[k] = g[k-1] /\ Foreign(p, ptrs[k])
               \/ g[k] = g[k-1] + 1 /\ ptrs[k] = Block(p.memory, order[g[k]])
    <3>1. g[k] = (k + 1) \div 2 /\ g[k-1] = k \div 2
      OBVIOUS
    <3> HIDE DEF g
    <3>2. CASE k % 2 = 1
      <4>1. (k + 1) \div 2 = k \div 2 + 1 /\ (k + 1) \div 2 \in 1 .. n
        BY <3>2
      <4>2. ptrs[k] = At(s, order[(k + 1) \div 2])
        BY <2>2, <3>2
      <4> QED BY <3>1, <4>1, <4>2
    <3>3. CASE k % 2 # 1
      <4>1. (k + 1) \div 2 = k \div 2
        BY <3>3
      <4>2. pos(k) \in 1 .. Len(junk)
        <5>1. k \div 2 - 1 \in Int
          OBVIOUS
        <5>2. \A x \in Int, d \in Nat \ {0} : x % d \in 0 .. d - 1
          OBVIOUS
        <5> DEFINE y == k \div 2 - 1
                   d == Len(junk)
        <5> HIDE DEF y, d
        <5>3. y % d \in 0 .. d - 1 /\ d \in Nat
          BY <5>1, <5>2 DEF y, d
        <5>4. (y % d) + 1 \in 1 .. d
          BY <5>3
        <5> QED BY <5>4 DEF y, d
      <4>3. ptrs[k] = junk[pos(k)]
        BY <2>2, <3>3
      <4> HIDE DEF pos
      <4> QED BY <3>1, <4>1, <4>2, <4>3
    <3> QED BY <3>2, <3>3
  <2> HIDE DEF g
  <2>5. Sends(p, order, ptrs, g)
    BY <2>2, <2>3, <2>4 DEF Sends
  <2> QED BY <2>2, <2>5 DEF ptrs
<1> QED BY <1>1, <1>2

(* What is kept of the live blocks is all but those of the order.          *)
Kept(q, order) == {l \in Range(q) : l.index \notin Range(order)}

(* The rest is kept, each block once.                                      *)
LEMMA KeptIsWithout ==
  ASSUME NEW q \in Seq(Lives), \A j, k \in 1 .. Len(q) : j # k => q[j].index # q[k].index,
         NEW A, A \subseteq 1 .. Len(q), NEW order \in Seq(Nat),
         {order[k] : k \in 1 .. Len(order)} = BlocksAt(q, A)
  PROVE  Without(q, Selected(q, Kept(q, order)), A)
<1> DEFINE S == Kept(q, order)
           r == Selected(q, S)
<1>1. Range(q) = {q[k] : k \in 1 .. Len(q)} /\ Range(order) = {order[k] : k \in 1 .. Len(order)}
  <2>1. DOMAIN q = 1 .. Len(q) /\ DOMAIN order = 1 .. Len(order)
    OBVIOUS
  <2> QED BY <2>1 DEF Range
<1>2. \A k \in 1 .. Len(q) : q[k] \in S <=> k \notin A
  BY <1>1 DEF Kept, BlocksAt
<1> HIDE DEF S
<1>3. /\ r \in Seq(Lives)
      /\ \A j \in 1 .. Len(r) : \E i \in 1 .. Len(q) : q[i] \in S /\ r[j] = q[i]
      /\ \A i \in 1 .. Len(q) : q[i] \in S => \E j \in 1 .. Len(r) : r[j] = q[i]
  BY SelectedElements
<1>4. \A j, k \in 1 .. Len(r) : j # k => r[j] # r[k]
  <2>1. \A j, k \in 1 .. Len(q) : j # k => q[j] # q[k]
    OBVIOUS
  <2> QED BY <2>1, SelectedApart
<1> HIDE DEF r
<1>5. ASSUME NEW j \in 1 .. Len(r), NEW k \in 1 .. Len(r), j # k PROVE r[j].index # r[k].index
  <2>1. PICK a \in 1 .. Len(q) : r[j] = q[a]
    BY <1>3
  <2>2. PICK b \in 1 .. Len(q) : r[k] = q[b]
    BY <1>3
  <2>3. r[j] # r[k]
    BY <1>4, <1>5
  <2> QED BY <2>1, <2>2, <2>3
<1>6. Without(q, r, A)
  BY <1>2, <1>3, <1>5 DEF Without
<1> QED BY <1>6 DEF r, S

(* The operation, with the shadow it starts from as an argument.           *)
BatchOn(st, s, start, want, withJunk) ==
  LET size  == Len(s.live)
      n     == IF want < size THEN want ELSE size
      at    == Positions(start, size, n)
      order == [k \in 1 .. n |-> s.live[at[k]].index]
      ptrs  == Pointers(s, order, ForeignPointers(s, EmptyShadow), n, withJunk)
      done  == PoolDeallocateBatch(Relinquish(st, {at[k] : k \in 1 .. n}), ptrs)
  IN  [done EXCEPT !.s.freeStack = @ \o order, !.s.live = Selected(@, Kept(s.live, order))]

(* It is the same operation.                                               *)
LEMMA BatchOnIs ==
  ASSUME NEW st, NEW start, NEW want, NEW withJunk
  PROVE  DeallocateBatch(st, start, want, withJunk) = BatchOn(st, st.s, start, want, withJunk)
BY DEF DeallocateBatch, BatchOn, Positions, Pointers, Kept

(* deallocateBatch() keeps the two in step, with and without junk between. *)
LEMMA DeallocateBatchSound ==
  ASSUME NEW p, NEW s, NEW m, NEW n \in Int, Agree(p, s, m, {}), NEW start \in 1 .. Len(s.live),
         NEW want \in Nat \ {0}, NEW withJunk \in BOOLEAN
  PROVE  Sound(p, s, m, n, DeallocateBatch(State(p, s, m, n), start, want, withJunk))
<1> DEFINE st == State(p, s, m, n)
           q == s.live
           size == Len(q)
           num == IF want < size THEN want ELSE size
           at == Positions(start, size, num)
           A == {at[k] : k \in 1 .. num}
           order == [k \in 1 .. num |-> q[at[k]].index]
           X == BlocksAt(q, A)
           junk == ForeignPointers(s, EmptyShadow)
           ptrs == Pointers(s, order, junk, num, withJunk)
           r == Selected(q, Kept(q, order))
           s1 == [s EXCEPT !.live = r]
           s2 == [s1 EXCEPT !.freeStack = s1.freeStack \o order]
           o == Cardinality(ObjectsAt(q, A))
<1>1. /\ p \in Pools /\ s \in Shadows /\ Counted(p, s) /\ Placed(p, s)
      /\ \A j, k \in 1 .. size : j # k => q[j].index # q[k].index
  BY DEF Agree, Parted
<1>2. q \in Seq(Lives) /\ size \in Nat /\ start \in 1 .. size
  BY <1>1 DEF Shadows
<1>3. \A k \in 1 .. size : q[k].index \in Nat /\ At(s, q[k].index) = Block(p.memory, q[k].index)
  <2>1. ASSUME NEW k \in 1 .. size
        PROVE  q[k].index \in Nat /\ At(s, q[k].index) = Block(p.memory, q[k].index)
    <3>1. q[k].index \in LiveBlocks(s) /\ At(s, q[k].index) = Block(p.memory, q[k].index)
      BY LiveIsAt
    <3> QED BY <3>1, IssuedAreCells
  <2> QED BY <2>1
<1> HIDE DEF q, size
<1>4. size \in Nat \ {0} /\ num \in 1 .. size /\ num \in Nat
  BY <1>2
<1> HIDE DEF num
<1>5. at \in [1 .. num -> 1 .. size] /\ \A j, k \in 1 .. num : j # k => at[j] # at[k]
  <2>1. Apart(at, num, size)
    BY <1>2, <1>4, PositionsDiffer
  <2> QED BY <2>1 DEF Apart
<1> HIDE DEF at
<1>6. A \subseteq 1 .. size
  BY <1>5
<1>7. /\ order \in Seq(Nat) /\ Len(order) = num /\ \A k \in 1 .. num : order[k] = q[at[k]].index
  <2>1. order \in [1 .. num -> Nat]
    BY <1>3, <1>5
  <2>2. Len(order) = num
    BY <1>4
  <2>3. order \in Seq(Nat)
    BY <1>4, <2>1, SeqDef
  <2> QED BY <2>2, <2>3
<1> HIDE DEF order
<1>8. X = {order[k] : k \in 1 .. Len(order)}
  <2>1. ASSUME NEW x \in X PROVE x \in {order[k] : k \in 1 .. Len(order)}
    <3>1. PICK j \in A : x = q[j].index
      BY DEF BlocksAt
    <3>2. PICK k \in 1 .. num : j = at[k]
      OBVIOUS
    <3> QED BY <1>7, <3>1, <3>2
  <2>2. ASSUME NEW k \in 1 .. Len(order) PROVE order[k] \in X
    <3>1. k \in 1 .. num /\ order[k] = q[at[k]].index
      BY <1>7
    <3>2. at[k] \in A
      BY <3>1
    <3> HIDE DEF A
    <3> QED BY <3>1, <3>2 DEF BlocksAt
  <2> HIDE DEF X
  <2>3. {order[k] : k \in 1 .. Len(order)} \subseteq X
    BY <2>2
  <2> QED BY <2>1, <2>3
<1> HIDE DEF A, X
<1>9. Lists(order, X)
  <2>1. ASSUME NEW j \in 1 .. num, NEW k \in 1 .. num, j # k PROVE order[j] # order[k]
    <3>1. at[j] \in 1 .. size /\ at[k] \in 1 .. size /\ at[j] # at[k]
      BY <1>5, <2>1
    <3> QED BY <1>1, <1>7, <3>1
  <2> QED BY <1>7, <1>8, <2>1 DEF Lists
<1>10. Without(q, r, A)
  <2>1. A \subseteq 1 .. Len(q)
    BY <1>6 DEF size
  <2>2. \A j, k \in 1 .. Len(q) : j # k => q[j].index # q[k].index
    BY <1>1 DEF size
  <2>3. {order[k] : k \in 1 .. Len(order)} = BlocksAt(q, A)
    BY <1>8 DEF X
  <2> QED BY <1>2, <1>7, <2>1, <2>2, <2>3, KeptIsWithout
<1> HIDE DEF r
<1>11. Agree(p, s1, m, X) /\ LiveObjectCount(s1) = LiveObjectCount(s) - o
  <2>1. A \subseteq 1 .. Len(s.live) /\ Without(s.live, r, A)
    BY <1>6, <1>10 DEF q, size
  <2>2. /\ Agree(p, [s EXCEPT !.live = r], m, {} \cup BlocksAt(s.live, A))
        /\ LiveObjectCount([s EXCEPT !.live = r]) = LiveObjectCount(s) - Cardinality(ObjectsAt(s.live, A))
    BY <2>1, Leave
  <2>3. {} \cup BlocksAt(s.live, A) = X
    BY DEF X, q
  <2> QED BY <2>2, <2>3 DEF q
<1>12. s1 \in Shadows /\ s1.freeStack = s.freeStack /\ s1.live = r /\ r \in Seq(Lives)
  BY <1>1, <1>10 DEF Shadows, Without
<1> HIDE DEF s1
<1>13. /\ s2 = [s EXCEPT !.freeStack = s.freeStack \o order, !.live = r]
       /\ s2.live = s1.live /\ s2.freeStack \in Seq(Nat)
  <2> DEFINE t == s.freeStack \o order
  <2>1. t \in Seq(Nat)
    <3>1. s.freeStack \in Seq(Nat)
      BY <1>1 DEF Shadows
    <3> QED BY <1>7, <3>1, ConcatProperties
  <2>2. s2 = [s1 EXCEPT !.freeStack = t]
    BY <1>12
  <2> HIDE DEF t, s2
  <2>3. s2 = [s EXCEPT !.freeStack = t, !.live = r]
    BY <1>1, <1>12, <2>1, <2>2 DEF s1, Shadows
  <2>4. s2.live = s1.live /\ s2.freeStack = t
    BY <1>12, <2>2 DEF Shadows
  <2> QED BY <2>1, <2>3, <2>4 DEF t
<1>14. o \in Nat
  <2>1. ObjectsAt(q, A) \subseteq 1 .. Len(q)
    BY <1>6 DEF ObjectsAt, size
  <2>2. IsFiniteSet(ObjectsAt(q, A))
    BY <1>1, <1>2, <2>1, PositionsAreBlocks DEF size
  <2> QED BY <2>2, FS_CardinalityType
<1> HIDE DEF o, s2
<1> DEFINE no == n - o
<1>15. no \in Int
  BY <1>14
<1> HIDE DEF no
<1>16. PICK p2, m2 : BatchBack(p, s1, m, no, order, p2, m2)
  BY <1>9, <1>11, <1>15, AllBack
<1>17. Agree(p2, s2, m2, {}) /\ p2.memory = p.memory /\ \A c \in Cells : c[1] # p.memory => m2[c] = m[c]
  BY <1>16 DEF BatchBack, s2
<1>18. Len(junk) \in Nat \ {0} /\ \A k \in 1 .. Len(junk) : Foreign(p, junk[k])
  <2>1. EmptyShadow.live = <<>>
    BY DEF EmptyShadow
  <2> QED BY <1>1, <2>1, JunkIsForeign
<1> HIDE DEF junk
<1>19. PICK g : Len(ptrs) \in Nat /\ Sends(p, order, ptrs, g)
  <2>1. \A k \in 1 .. num : At(s, order[k]) = Block(p.memory, order[k])
    <3> SUFFICES ASSUME NEW k \in 1 .. num PROVE At(s, order[k]) = Block(p.memory, order[k])
      OBVIOUS
    <3>1. at[k] \in 1 .. size
      BY <1>5
    <3>2. At(s, q[at[k]].index) = Block(p.memory, q[at[k]].index)
      BY <1>3, <3>1
    <3>3. order[k] = q[at[k]].index
      BY <1>7
    <3> QED BY <3>2, <3>3
  <2> QED BY <1>4, <1>7, <1>18, <2>1, PointersAreSent
<1> HIDE DEF ptrs
<1>20. PoolDeallocateBatch(State(p, s, m, no), ptrs) = State(p2, s, m2, no)
  BY <1>16, <1>19 DEF BatchBack
<1>21. Relinquish(st, A) = State(p, s, m, no)
  <2>1. A \subseteq 1 .. Len(s.live)
    BY <1>6 DEF size, q
  <2>2. Relinquish(State(p, s, m, n), A) = State(p, s, m, n - Cardinality(ObjectsAt(s.live, A)))
    <3>1. RelinquishesTo(p, s, m, n, A)
      BY <2>1, RelinquishPasses
    <3> QED BY <3>1 DEF RelinquishesTo
  <2> QED BY <2>2 DEF no, o, q
<1> DEFINE done == State(p2, s, m2, no)
<1>22. ASSUME NEW y, y = [done EXCEPT !.s.freeStack = @ \o order, !.s.live = Selected(@, Kept(q, order))]
       PROVE  y = State(p2, s2, m2, no)
  <2>1. s2 = [s EXCEPT !.freeStack = s.freeStack \o order, !.live = Selected(s.live, Kept(q, order))]
    BY <1>13 DEF r, q
  <2>2. y = State(p2, [s EXCEPT !.freeStack = s.freeStack \o order,
                                !.live = Selected(s.live, Kept(q, order))], m2, no)
    BY <1>22 DEF State
  <2> QED BY <2>1, <2>2
<1>23. DeallocateBatch(st, start, want, withJunk) = State(p2, s2, m2, no)
  <2>1. st.s = s
    BY StateFields
  <2> HIDE DEF st, done
  <2>2. PoolDeallocateBatch(Relinquish(st, A), ptrs) = done
    BY <1>20, <1>21 DEF done
  <2>3. DeallocateBatch(st, start, want, withJunk)
          = [done EXCEPT !.s.freeStack = @ \o order, !.s.live = Selected(@, Kept(q, order))]
    <3>1. DeallocateBatch(st, start, want, withJunk) = BatchOn(st, s, start, want, withJunk)
      BY <2>1, BatchOnIs
    <3>2. BatchOn(st, s, start, want, withJunk)
            = [PoolDeallocateBatch(Relinquish(st, A), ptrs)
                 EXCEPT !.s.freeStack = @ \o order, !.s.live = Selected(@, Kept(q, order))]
      BY DEF BatchOn, q, size, num, at, A, order, junk, ptrs
    <3> QED BY <2>2, <3>1, <3>2
  <2> QED BY <1>22, <2>3
<1>24. LiveObjectCount(s2) = LiveObjectCount(s1) /\ LiveObjectCount(s) \in Nat
  <2>1. s2 \in Shadows
    BY <1>17 DEF Agree
  <2> QED BY <1>1, <1>12, <1>13, <2>1, ObjectsAreCounted
<1>25. Keeps(p, s, m, n, p2, s2, m2, no)
  BY <1>11, <1>14, <1>17, <1>24 DEF Keeps, no
<1> QED BY <1>23, <1>25 DEF Sound, st

---------------------------------------------------------------------------
(* Objects, the ownership probe and reset.                                 *)

(* probeOwns() finds every block owned and no inside of one.               *)
LEMMA ProbeOwnsSound ==
  ASSUME NEW p, NEW s, NEW m, NEW n \in Int, Agree(p, s, m, {})
  PROVE  Sound(p, s, m, n, ProbeOwns(State(p, s, m, n)))
<1> DEFINE st == State(p, s, m, n)
<1>1. st.s = s /\ st.pool = p
  BY StateFields
<1>2. p \in Pools /\ s \in Shadows /\ Counted(p, s) /\ Placed(p, s)
  BY DEF Agree
<1>3. ASSUME s.base # Null, NEW i \in 0 .. s.blockCount - 1
      PROVE  Owns(p, At(s, i)) /\ ~Owns(p, Inside(s.base[1], i))
  <2>1. s.base = Block(p.memory, 0) /\ i \in Nat
    BY <1>2, <1>3 DEF Placed, Shadows
  <2>2. Owns(p, Block(p.memory, i))
    BY <1>2, BlocksAreCells
  <2>3. At(s, i) = Block(p.memory, i)
    BY <2>1, AtIsBlock
  <2>4. Inside(s.base[1], i)[3] = 1
    BY DEF Inside
  <2>5. ~Owns(p, Inside(s.base[1], i))
    BY <2>4 DEF Owns
  <2> QED BY <2>2, <2>3, <2>5
<1> HIDE DEF st
<1>4. ProbeOwns(st) = st
  BY <1>1, <1>3 DEF ProbeOwns, Check
<1>5. Keeps(p, s, m, n, p, s, m, n)
  BY DEF Keeps
<1> QED BY <1>4, <1>5 DEF Sound, st

(* create() of an object whose constructor throws has the block back.      *)
LEMMA CreateFailing ==
  ASSUME NEW p, NEW s, NEW m, NEW n \in Int, Agree(p, s, m, {}),
         NEW i, NEW p1, NEW s1, Issues(p, s, m, {}, i, p1, s1)
  PROVE  /\ PoolDeallocate(State(p1, s, m, n), Block(p.memory, i))
              = State(PoolBack(p1, i), s, MemoryBack(p1, m, i), n)
         /\ Keeps(p, s, m, n, PoolBack(p1, i), [s1 EXCEPT !.freeStack = Append(s1.freeStack, i)],
                  MemoryBack(p1, m, i), n)
<1> DEFINE p2 == PoolBack(p1, i)
           s2 == [s1 EXCEPT !.freeStack = Append(s1.freeStack, i)]
           m2 == MemoryBack(p1, m, i)
<1>1. p1.memory = p.memory /\ s1.live = s.live
  BY DEF Issues
<1>2. i \in {i} /\ {} \cup {i} = {i} /\ {i} \ {i} = {}
  OBVIOUS
<1>3. Agree(p1, s1, m, {i})
  <2>1. Agree(p1, s1, m, {} \cup {i})
    BY DEF Issues
  <2> QED BY <1>2, <2>1
<1>4. PoolDeallocate(State(p1, s, m, n), Block(p.memory, i)) = State(p2, s, m2, n)
  BY <1>1, <1>2, <1>3, TakenBack
<1>5. Agree(p2, s2, m2, {})
  <2>1. Agree(p2, s2, m2, {i} \ {i})
    BY <1>2, <1>3, Release
  <2> HIDE DEF p2, s2, m2
  <2> QED BY <1>2, <2>1
<1>6. s \in Shadows /\ s1 \in Shadows /\ p1 \in Pools /\ m \in Memories
  BY <1>3 DEF Agree
<1>7. s2.live = s.live
  BY <1>1, <1>6 DEF Shadows
<1>8. LiveObjectCount(s2) = LiveObjectCount(s)
  <2>1. s2 \in Shadows
    BY <1>5 DEF Agree
  <2> HIDE DEF s2
  <2> QED BY <1>6, <1>7, <2>1, ObjectsAreCounted
<1>9. p2.memory = p.memory
  BY <1>1, <1>6 DEF PoolBack, Pools
<1>10. \A c \in Cells : c[1] # p.memory => m2[c] = m[c]
  <2>1. Block(p1.memory, i)[1] = p.memory
    BY <1>1 DEF Block
  <2> QED BY <1>6, <2>1 DEF MemoryBack, Memories
<1> HIDE DEF p2, s2, m2
<1>11. Keeps(p, s, m, n, p2, s2, m2, n)
  BY <1>5, <1>8, <1>9, <1>10 DEF Keeps
<1> QED BY <1>4, <1>11 DEF p2, s2, m2

(* create() of an object, or the throwing of its constructor, keeps the    *)
(* two in step.                                                            *)
LEMMA CreateSound ==
  ASSUME NEW p, NEW s, NEW m, NEW n \in Int, Agree(p, s, m, {}), NEW fail \in BOOLEAN
  PROVE  Sound(p, s, m, n, Create(State(p, s, m, n), fail))
<1> DEFINE st == State(p, s, m, n)
           x == Acquire(p, m)
           due == TakeNext(s)
<1>1. /\ st.pool = p /\ st.m = m /\ st.s = s
      /\ [st EXCEPT !.pool = x.pool] = State(x.pool, s, m, n)
  BY StateFields
<1>2. s \in Shadows
  BY DEF Agree
<1> HIDE DEF st
<1>3. CASE x = [got |-> Null, pool |-> p] /\ due = [idx |-> Null, s |-> s]
  <2>1. x.got = Null /\ x.pool = p /\ due.idx = Null
    BY <1>3
  <2> HIDE DEF x, due
  <2>2. Create(st, fail) = State(p, s, m, n)
    BY <1>1, <2>1 DEF Create, Check, x, due
  <2>3. Keeps(p, s, m, n, p, s, m, n)
    BY DEF Keeps
  <2> QED BY <2>2, <2>3 DEF Sound, st
<1>4. ASSUME NEW i, NEW p1, NEW s1, Issues(p, s, m, {}, i, p1, s1)
      PROVE  Sound(p, s, m, n, Create(st, fail))
  <2> DEFINE c == Block(p.memory, i)
  <2>1. /\ x.got = c /\ x.pool = p1 /\ due.idx = i /\ due.s = s1
        /\ i \in Nat /\ p1.memory = p.memory /\ s1.live = s.live
    BY <1>4 DEF Issues
  <2>2. Agree(p1, s1, m, {i}) /\ i \in {i}
    <3>1. Agree(p1, s1, m, {} \cup {i})
      BY <1>4 DEF Issues
    <3>2. {} \cup {i} = {i}
      OBVIOUS
    <3> QED BY <3>1, <3>2
  <2>3. c # Null /\ i # Null
    <3>1. Block(p1.memory, i) \in Cells
      BY <2>2, IssuedAreCells
    <3> QED BY <2>1, <3>1, FuzzAssumption
  <2> HIDE DEF c, x, due
  <2>4. CASE fail
    <3> DEFINE p2 == PoolBack(p1, i)
               s2 == [s1 EXCEPT !.freeStack = Append(s1.freeStack, i)]
               m2 == MemoryBack(p1, m, i)
    <3>1. PoolDeallocate(State(p1, s, m, n), c) = State(p2, s, m2, n) /\ Keeps(p, s, m, n, p2, s2, m2, n)
      BY <1>4, CreateFailing DEF c
    <3>2. [State(p2, s, m2, n) EXCEPT !.s = s2] = State(p2, s2, m2, n)
      BY StateFields
    <3> HIDE DEF p2, m2
    <3>3. Create(st, fail) = [State(p2, s, m2, n) EXCEPT !.s = [s1 EXCEPT !.freeStack = Append(@, i)]]
      BY <1>1, <2>1, <2>3, <2>4, <3>1 DEF Create, x, due
    <3>4. [s1 EXCEPT !.freeStack = Append(@, i)] = s2
      OBVIOUS
    <3> HIDE DEF s2
    <3>5. Create(st, fail) = State(p2, s2, m2, n)
      BY <3>2, <3>3, <3>4
    <3> QED BY <3>1, <3>5 DEF Sound, st
  <2>5. CASE ~fail
    <3>0. PICK object \in BOOLEAN : object = TRUE
      OBVIOUS
    <3> DEFINE s2 == Entered(p1, s1, i, object)
               m2 == Filling(p1, s1, m, i, object)
               found == Locate(State(p1, s1, m, n + 1), c, i)
    <3>1. /\ Agree(p1, s2, m2, {})
          /\ LiveObjectCount(s2) = LiveObjectCount(s1) + (IF object THEN 1 ELSE 0)
          /\ FreeBlocks(s2) = FreeBlocks(s1)
          /\ \A j \in FreeBlocks(s1) : m2[Block(p1.memory, j)] = m[Block(p1.memory, j)]
          /\ \A d \in Cells : d[1] # p1.memory => m2[d] = m[d]
      BY <2>2, Held
    <3>2. found.ok /\ Adopt(found, i, object) = State(p1, s2, m2, n + 1)
      BY <2>1, <2>2, LocateAndAdopt DEF c
    <3>3. /\ State(p1, s, m, n).alive = n
          /\ [State(p1, s, m, n) EXCEPT !.alive = n + 1] = State(p1, s, m, n + 1)
          /\ [State(p1, s, m, n + 1) EXCEPT !.s = s1] = State(p1, s1, m, n + 1)
      BY StateFields
    <3> HIDE DEF s2, m2, found
    <3>4. Create(st, fail) = Adopt(found, i, TRUE)
      <4> DEFINE made == State(p1, s, m, n + 1)
      <4>1. [State(p1, s, m, n) EXCEPT !.alive = @ + 1] = made
        BY <3>3
      <4>2. Locate([made EXCEPT !.s = s1], c, i) = found
        BY <3>3 DEF found
      <4> HIDE DEF made
      <4> QED BY <1>1, <2>1, <2>3, <2>5, <3>2, <4>1, <4>2 DEF Create, x, due
    <3>5. Adopt(found, i, TRUE) = Adopt(found, i, object)
      BY <3>0
    <3>6. LiveObjectCount(s2) = LiveObjectCount(s) + 1 /\ LiveObjectCount(s) \in Nat
      <4>1. s1 \in Shadows
        BY <2>2 DEF Agree
      <4>2. LiveObjectCount(s1) = LiveObjectCount(s) /\ LiveObjectCount(s) \in Nat
        BY <1>2, <2>1, <4>1, ObjectsAreCounted
      <4> QED BY <3>0, <3>1, <4>2
    <3>7. Keeps(p, s, m, n, p1, s2, m2, n + 1)
      BY <2>1, <3>1, <3>6 DEF Keeps
    <3> QED BY <3>2, <3>4, <3>5, <3>7 DEF Sound
  <2> QED BY <2>4, <2>5
<1> QED BY <1>3, <1>4, Issue DEF st

(* The holders may fill the live blocks anew, if the shadow is told.       *)
LEMMA Refill ==
  ASSUME NEW p, NEW s, NEW m, NEW X, Agree(p, s, m, X), NEW q \in Seq(Lives), Len(q) = Len(s.live),
         \A k \in 1 .. Len(q) : q[k].index = s.live[k].index,
         NEW m2 \in Memories,
         \A j \in FreeBlocks(s) : m2[Block(p.memory, j)] = m[Block(p.memory, j)],
         \A k \in 1 .. Len(q) : m2[Block(p.memory, q[k].index)] = Content(q[k])
  PROVE  Agree(p, [s EXCEPT !.live = q], m2, X)
<1> DEFINE s2 == [s EXCEPT !.live = q]
<1>1. /\ p \in Pools /\ s \in Shadows /\ m \in Memories
      /\ Counted(p, s) /\ Placed(p, s) /\ Parted(s, X) /\ Linked(p, s, m) /\ Filled(p, s, m)
  BY DEF Agree
<1>2. /\ s2 \in Shadows /\ s2.live = q /\ s2.base = s.base
      /\ s2.watermark = s.watermark /\ s2.blockCount = s.blockCount /\ s2.freeStack = s.freeStack
  BY <1>1 DEF Shadows
<1>3. s.live \in Seq(Lives)
  BY <1>1 DEF Shadows
<1> HIDE DEF s2
<1>4. FreeBlocks(s2) = FreeBlocks(s)
  BY <1>2 DEF FreeBlocks
<1>5. LiveBlocks(s2) = LiveBlocks(s)
  <2>1. LiveBlocks(s2) = {q[k].index : k \in 1 .. Len(q)} /\ LiveBlocks(s) = {s.live[k].index : k \in 1 .. Len(q)}
    BY <1>2 DEF LiveBlocks
  <2> QED BY <2>1
<1>6. Counted(p, s2)
  BY <1>1, <1>2 DEF Counted
<1>7. Placed(p, s2)
  <2>1. q # <<>> => s.live # <<>>
    <3>1. ASSUME q # <<>> PROVE s.live # <<>>
      <4>1. Len(q) \in Nat \ {0}
        BY <3>1, EmptySeq
      <4>2. Len(s.live) # 0
        BY <4>1
      <4> QED BY <4>2, EmptySeq
    <3> QED BY <3>1
  <2> QED BY <1>1, <1>2, <2>1 DEF Placed
<1>8. Parted(s2, X)
  <2>1. \A j, k \in 1 .. Len(s2.live) : j # k => s2.live[j].index # s2.live[k].index
    BY <1>1, <1>2 DEF Parted
  <2> QED BY <1>1, <1>2, <1>4, <1>5, <2>1 DEF Parted
<1>9. Linked(p, s2, m2)
  <2>1. \A k \in 1 .. Len(s.freeStack) : s.freeStack[k] \in FreeBlocks(s)
    BY DEF FreeBlocks
  <2> QED BY <1>1, <1>2, <2>1 DEF Linked
<1>10. Filled(p, s2, m2)
  BY <1>2 DEF Filled
<1> QED BY <1>1, <1>2, <1>6, <1>7, <1>8, <1>9, <1>10 DEF Agree, s2

(* What destroying all objects leaves: the entries as raw ones, and their  *)
(* blocks filled anew.                                                     *)
Raw(q) == [k \in DOMAIN q |-> [q[k] EXCEPT !.isObject = FALSE]]

Where(s, q, O, x) == {k \in O : At(s, q[k].index) = x}

Emptied(s, q, O, m) ==
  [x \in Cells |-> IF Where(s, q, O, x) = {} THEN m[x] ELSE Content(q[CHOOSE k \in Where(s, q, O, x) : TRUE])]

DestroyedAs(p, s, m, n, s2, m2) ==
  /\ DestroyAllObjects(State(p, s, m, n)) = State(p, s2, m2, n - LiveObjectCount(s))
  /\ Keeps(p, s, m, n, p, s2, m2, n - LiveObjectCount(s))
  /\ LiveObjectCount(s2) = 0
  /\ s2.blockCount = s.blockCount /\ s2.base = s.base /\ s2.nextTag = s.nextTag

(* The operation, with the shadow it starts from as an argument.           *)
DestroyOn(st, s, m) ==
  LET objects == {k \in DOMAIN s.live : s.live[k].isObject}
      raw     == Raw(s.live)
  IN  [Relinquish(st, objects) EXCEPT !.s.live = raw, !.m = Emptied(s, raw, objects, @)]

(* It is the same operation.                                               *)
LEMMA DestroyOnIs ==
  ASSUME NEW st
  PROVE  DestroyAllObjects(st) = DestroyOn(st, st.s, st.m)
BY DEF DestroyAllObjects, DestroyOn, Raw, Emptied, Where

(* destroyAllObjects() keeps the two in step and leaves no object.         *)
LEMMA AllDestroyed ==
  ASSUME NEW p, NEW s, NEW m, NEW n \in Int, Agree(p, s, m, {})
  PROVE  \E s2, m2 : DestroyedAs(p, s, m, n, s2, m2)
<1> DEFINE st == State(p, s, m, n)
           q == s.live
           O == ObjectsIn(q)
           r == Raw(q)
           s2 == [s EXCEPT !.live = r]
           m2 == Emptied(s, r, O, m)
           o == LiveObjectCount(s)
<1>1. /\ p \in Pools /\ s \in Shadows /\ m \in Memories /\ Parted(s, {}) /\ Filled(p, s, m)
  BY DEF Agree
<1>2. q \in Seq(Lives) /\ Len(q) \in Nat /\ DOMAIN q = 1 .. Len(q)
  BY <1>1 DEF Shadows
<1>3. \A j, k \in 1 .. Len(q) : j # k => q[j].index # q[k].index
  BY <1>1 DEF Parted
<1>4. \A k \in 1 .. Len(q) : /\ q[k].index \in LiveBlocks(s)
                             /\ At(s, q[k].index) = Block(p.memory, q[k].index)
                             /\ Block(p.memory, q[k].index) \in Cells
  <2> SUFFICES ASSUME NEW k \in 1 .. Len(q)
               PROVE  /\ q[k].index \in LiveBlocks(s)
                      /\ At(s, q[k].index) = Block(p.memory, q[k].index)
                      /\ Block(p.memory, q[k].index) \in Cells
    OBVIOUS
  <2>1. q[k].index \in LiveBlocks(s) /\ At(s, q[k].index) = Block(p.memory, q[k].index)
    BY LiveIsAt
  <2> QED BY <2>1, IssuedAreCells
<1>5. O = {k \in DOMAIN q : q[k].isObject} /\ O \subseteq 1 .. Len(q)
  BY <1>2 DEF ObjectsIn
<1>6. Cardinality(ObjectsAt(q, O)) = o
  <2>1. ObjectsAt(q, O) = O
    BY DEF ObjectsAt, ObjectsIn
  <2> QED BY <1>1, <2>1, ObjectsAreCounted
<1>7. o \in Nat
  BY <1>1, ObjectsAreCounted
<1> HIDE DEF o, O
<1>8. /\ r \in Seq(Lives) /\ Len(r) = Len(q)
      /\ \A k \in 1 .. Len(q) : /\ r[k].index = q[k].index /\ r[k].tag = q[k].tag /\ ~r[k].isObject
                                /\ (k \notin O => r[k] = q[k])
  <2> DEFINE Bare(l) == [l EXCEPT !.isObject = FALSE]
  <2>1. \A k \in 1 .. Len(q) : r[k] = Bare(q[k]) /\ q[k] \in Lives
    BY <1>2 DEF Raw
  <2>2. \A l \in Lives : /\ Bare(l) \in Lives /\ Bare(l).index = l.index /\ Bare(l).tag = l.tag
                         /\ ~Bare(l).isObject /\ (~l.isObject => Bare(l) = l)
    BY DEF Lives
  <2> HIDE DEF Bare
  <2>3. r = [k \in 1 .. Len(q) |-> r[k]]
    BY <1>2 DEF Raw
  <2>4. \A k \in 1 .. Len(q) : k \notin O => ~q[k].isObject
    BY <1>2, <1>5
  <2> HIDE DEF r
  <2>5. r \in [1 .. Len(q) -> Lives]
    <3>1. \A k \in 1 .. Len(q) : r[k] \in Lives
      BY <2>1, <2>2
    <3> QED BY <2>3, <3>1
  <2>6. r \in Seq(Lives) /\ Len(r) = Len(q)
    BY <1>2, <2>5, SeqDef
  <2> QED BY <2>1, <2>2, <2>4, <2>6
<1> HIDE DEF r
<1>9. ASSUME NEW k \in O
      PROVE  Where(s, r, O, Block(p.memory, q[k].index)) = {k}
  <2>1. \A j \in O : At(s, r[j].index) = Block(p.memory, q[j].index)
    BY <1>4, <1>5, <1>8
  <2>2. \A j \in O : Block(p.memory, q[j].index) = Block(p.memory, q[k].index) => j = k
    BY <1>3, <1>5, Addresses
  <2> QED BY <2>1, <2>2 DEF Where
<1>10. ASSUME NEW j \in Nat, \A k \in O : q[k].index # j
       PROVE  Where(s, r, O, Block(p.memory, j)) = {}
  <2>1. \A k \in O : At(s, r[k].index) = Block(p.memory, q[k].index)
    BY <1>4, <1>5, <1>8
  <2> QED BY <1>10, <2>1, Addresses DEF Where
<1>11. \A x \in Cells : m2[x] = IF Where(s, r, O, x) = {} THEN m[x]
                                ELSE Content(r[CHOOSE k \in Where(s, r, O, x) : TRUE])
  BY DEF Emptied
<1>12. \A k \in O : m2[Block(p.memory, q[k].index)] = Content(r[k])
  <2> SUFFICES ASSUME NEW k \in O PROVE m2[Block(p.memory, q[k].index)] = Content(r[k])
    OBVIOUS
  <2> DEFINE c == Block(p.memory, q[k].index)
  <2>1. c \in Cells
    BY <1>4, <1>5
  <2>2. Where(s, r, O, c) = {k}
    BY <1>9
  <2> HIDE DEF c, m2
  <2>3. m2[c] = Content(r[CHOOSE j \in {k} : TRUE])
    BY <1>11, <2>1, <2>2
  <2>4. (CHOOSE j \in {k} : TRUE) = k
    OBVIOUS
  <2> QED BY <2>3, <2>4 DEF c
<1>13. \A j \in Nat : Block(p.memory, j) \in Cells /\ (\A k \in O : q[k].index # j) =>
                        m2[Block(p.memory, j)] = m[Block(p.memory, j)]
  <2> HIDE DEF m2
  <2> QED BY <1>10, <1>11
<1>14. \A x \in Cells : x[1] # p.memory => m2[x] = m[x]
  <2> SUFFICES ASSUME NEW x \in Cells, x[1] # p.memory PROVE m2[x] = m[x]
    OBVIOUS
  <2>1. \A k \in O : At(s, r[k].index) # x
    <3>1. \A k \in O : At(s, r[k].index) = Block(p.memory, q[k].index)
      BY <1>4, <1>5, <1>8
    <3> QED BY <3>1, Addresses
  <2>2. Where(s, r, O, x) = {}
    BY <2>1 DEF Where
  <2> HIDE DEF m2
  <2> QED BY <1>11, <2>2
<1>15. m2 \in Memories
  <2>1. \A x \in Cells : m2[x] \in Words
    <3> SUFFICES ASSUME NEW x \in Cells PROVE m2[x] \in Words
      OBVIOUS
    <3>1. CASE Where(s, r, O, x) = {}
      <4>1. m2[x] = m[x]
        BY <1>11, <3>1
      <4> HIDE DEF m2
      <4> QED BY <1>1, <4>1 DEF Memories
    <3>2. CASE Where(s, r, O, x) # {}
      <4> DEFINE k == CHOOSE j \in Where(s, r, O, x) : TRUE
      <4>1. k \in Where(s, r, O, x)
        BY <3>2
      <4>2. m2[x] = Content(r[k])
        BY <1>11, <3>2
      <4> HIDE DEF k, m2
      <4>3. k \in 1 .. Len(q)
        BY <1>5, <4>1 DEF Where
      <4>4. r[k] \in Lives
        BY <1>8, <4>3
      <4> QED BY <4>2, <4>4, ContentIsWord
    <3> QED BY <3>1, <3>2
  <2>2. m2 = [x \in Cells |-> m2[x]]
    BY DEF Emptied
  <2> HIDE DEF m2
  <2> QED BY <2>1, <2>2 DEF Memories
<1> HIDE DEF m2
<1>16. \A j \in FreeBlocks(s) : m2[Block(p.memory, j)] = m[Block(p.memory, j)]
  <2> SUFFICES ASSUME NEW j \in FreeBlocks(s) PROVE m2[Block(p.memory, j)] = m[Block(p.memory, j)]
    OBVIOUS
  <2>1. j \in Nat /\ Block(p.memory, j) \in Cells
    BY IssuedAreCells
  <2>2. \A k \in O : q[k].index # j
    BY <1>1, <1>4, <1>5 DEF Parted
  <2> QED BY <1>13, <2>1, <2>2
<1>17. ASSUME NEW k \in 1 .. Len(r) PROVE m2[Block(p.memory, r[k].index)] = Content(r[k])
  <2>1. CASE k \in O
    BY <1>8, <1>12, <2>1
  <2>2. CASE k \notin O
    <3>1. k \in 1 .. Len(q) /\ r[k] = q[k]
      BY <1>8, <2>2
    <3>2. \A j \in O : q[j].index # q[k].index
      BY <1>3, <1>5, <2>2, <3>1
    <3>3. q[k].index \in Nat /\ Block(p.memory, q[k].index) \in Cells
      BY <1>4, <3>1, IssuedAreCells
    <3>4. m[Block(p.memory, q[k].index)] = Content(q[k])
      BY <1>1, <3>1 DEF Filled
    <3> QED BY <1>13, <3>1, <3>2, <3>3, <3>4
  <2> QED BY <2>1, <2>2
<1>18. Agree(p, s2, m2, {})
  <2>1. Len(r) = Len(s.live) /\ \A k \in 1 .. Len(r) : r[k].index = s.live[k].index
    BY <1>8
  <2> QED BY <1>8, <1>15, <1>16, <1>17, <2>1, Refill
<1>19. s2.live = r /\ s2.blockCount = s.blockCount /\ s2.base = s.base /\ s2.nextTag = s.nextTag
  BY <1>1 DEF Shadows
<1>20. LiveObjectCount(s2) = 0
  <2>1. s2 \in Shadows
    BY <1>18 DEF Agree
  <2>2. ObjectsIn(r) = {}
    BY <1>8 DEF ObjectsIn
  <2> HIDE DEF s2
  <2>3. LiveObjectCount(s2) = Cardinality({})
    BY <1>19, <2>1, <2>2, ObjectsAreCounted
  <2> QED BY <2>3, FS_EmptySet
<1>21. DestroyAllObjects(st) = State(p, s2, m2, n - o)
  <2> DEFINE gone == State(p, s, m, n - o)
  <2>1. st.s = s /\ st.m = m
    BY StateFields
  <2>2. Relinquish(st, O) = gone
    <3>1. RelinquishesTo(p, s, m, n, O)
      BY <1>5, RelinquishPasses
    <3> QED BY <1>6, <3>1 DEF RelinquishesTo
  <2> HIDE DEF st
  <2>3. DestroyAllObjects(st) = DestroyOn(st, s, m)
    BY <2>1, DestroyOnIs
  <2> HIDE DEF gone
  <2>4. DestroyOn(st, s, m) = [gone EXCEPT !.s.live = r, !.m = Emptied(s, r, O, @)]
    <3>1. {k \in DOMAIN s.live : s.live[k].isObject} = O
      BY <1>5
    <3>2. Raw(s.live) = r
      BY DEF r
    <3> HIDE DEF q
    <3> QED BY <2>2, <3>1, <3>2 DEF DestroyOn
  <2>5. ASSUME NEW y, y = [gone EXCEPT !.s.live = r, !.m = Emptied(s, r, O, @)]
        PROVE  y = State(p, s2, Emptied(s, r, O, m), n - o)
    BY <2>5 DEF gone, State
  <2> QED BY <2>3, <2>4, <2>5 DEF m2
<1> HIDE DEF s2
<1>22. Keeps(p, s, m, n, p, s2, m2, n - o)
  BY <1>7, <1>14, <1>18, <1>20 DEF Keeps, o
<1>23. DestroyedAs(p, s, m, n, s2, m2)
  BY <1>19, <1>20, <1>21, <1>22 DEF DestroyedAs, o, st
<1> QED BY <1>23

(* What reset() leaves: nothing issued.                                    *)
LEMMA NothingIssued ==
  ASSUME NEW p, NEW s, NEW m, Agree(p, s, m, {})
  PROVE  /\ Agree([p EXCEPT !.freeList = Null, !.watermark = 0, !.freeBlockCount = p.blockCount],
                  [s EXCEPT !.watermark = 0, !.freeStack = <<>>, !.live = <<>>], m, {})
         /\ LiveObjectCount([s EXCEPT !.watermark = 0, !.freeStack = <<>>, !.live = <<>>]) = 0
<1> DEFINE p2 == [p EXCEPT !.freeList = Null, !.watermark = 0, !.freeBlockCount = p.blockCount]
           s2 == [s EXCEPT !.watermark = 0, !.freeStack = <<>>, !.live = <<>>]
<1>1. p \in Pools /\ s \in Shadows /\ m \in Memories /\ Counted(p, s) /\ Placed(p, s)
  BY DEF Agree
<1>2. p.blockCount \in Nat /\ s.blockCount = p.blockCount
  BY <1>1 DEF Pools, Counted
<1>3. /\ p2 \in Pools /\ p2.memory = p.memory /\ p2.blockCount = p.blockCount /\ p2.watermark = 0
      /\ p2.freeList = Null /\ p2.freeBlockCount = p.blockCount
  <2> DEFINE b == p.blockCount
             z == [p EXCEPT !.freeList = Null, !.watermark = 0, !.freeBlockCount = b]
  <2>1. b \in Int /\ b = p.blockCount
    BY <1>2
  <2> HIDE DEF b
  <2>2. /\ z \in Pools /\ z.memory = p.memory /\ z.blockCount = p.blockCount /\ z.watermark = 0
        /\ z.freeList = Null /\ z.freeBlockCount = b
    BY <1>1, <2>1 DEF Pools
  <2> QED BY <2>1, <2>2 DEF b
<1>4. PICK none \in Seq(Nat) : none = <<>>
  BY EmptySeq
<1>5. PICK nobody \in Seq(Lives) : nobody = <<>>
  BY EmptySeq
<1>6. Len(none) = 0 /\ Len(nobody) = 0 /\ 1 .. 0 = {}
  BY <1>4, <1>5
<1>7. /\ s2 \in Shadows /\ s2.base = s.base /\ s2.blockCount = s.blockCount /\ s2.watermark = 0
      /\ s2.freeStack = none /\ s2.live = nobody
  <2> DEFINE z == [s EXCEPT !.watermark = 0, !.freeStack = none, !.live = nobody]
  <2>1. /\ z \in Shadows /\ z.base = s.base /\ z.blockCount = s.blockCount /\ z.watermark = 0
        /\ z.freeStack = none /\ z.live = nobody
    BY <1>1 DEF Shadows
  <2>2. z = s2
    BY <1>4, <1>5
  <2> HIDE DEF z, s2
  <2> QED BY <2>1, <2>2
<1> HIDE DEF p2, s2
<1>8. FreeBlocks(s2) = {} /\ LiveBlocks(s2) = {}
  BY <1>6, <1>7 DEF FreeBlocks, LiveBlocks
<1>9. Counted(p2, s2)
  BY <1>2, <1>3, <1>6, <1>7 DEF Counted
<1>10. Placed(p2, s2)
  BY <1>1, <1>3, <1>5, <1>7 DEF Placed
<1>11. Parted(s2, {})
  <2>1. 0 .. s2.watermark - 1 = {}
    BY <1>7
  <2> QED BY <1>6, <1>7, <1>8, <2>1 DEF Parted
<1>12. Linked(p2, s2, m) /\ Filled(p2, s2, m)
  BY <1>3, <1>4, <1>6, <1>7 DEF Linked, Filled
<1>13. Agree(p2, s2, m, {})
  BY <1>1, <1>3, <1>7, <1>9, <1>10, <1>11, <1>12 DEF Agree
<1>14. LiveObjectCount(s2) = 0
  <2>1. ObjectsIn(nobody) = {}
    BY <1>6 DEF ObjectsIn
  <2>2. LiveObjectCount(s2) = Cardinality({})
    BY <1>7, <2>1, ObjectsAreCounted
  <2> QED BY <2>2, FS_EmptySet
<1> QED BY <1>13, <1>14 DEF p2, s2

(* reset() keeps the two in step.                                          *)
LEMMA ResetSound ==
  ASSUME NEW p, NEW s, NEW m, NEW n \in Int, Agree(p, s, m, {})
  PROVE  Sound(p, s, m, n, Reset(State(p, s, m, n)))
<1>1. PICK s1, m1 : DestroyedAs(p, s, m, n, s1, m1)
  BY AllDestroyed
<1> DEFINE o == n - LiveObjectCount(s)
           st == State(p, s1, m1, o)
           p2 == [p EXCEPT !.freeList = Null, !.watermark = 0, !.freeBlockCount = p.blockCount]
           s2 == [s1 EXCEPT !.watermark = 0, !.freeStack = <<>>, !.live = <<>>]
<1>2. /\ DestroyAllObjects(State(p, s, m, n)) = st /\ Keeps(p, s, m, n, p, s1, m1, o)
      /\ LiveObjectCount(s1) = 0
  BY <1>1 DEF DestroyedAs
<1> HIDE DEF o
<1>3. Agree(p2, s2, m1, {}) /\ LiveObjectCount(s2) = 0
  <2>1. Agree(p, s1, m1, {})
    BY <1>2 DEF Keeps
  <2> QED BY <2>1, NothingIssued
<1>4. p2.memory = p.memory
  <2>1. p \in Pools
    BY DEF Agree
  <2> QED BY <2>1 DEF Pools
<1>5. ASSUME NEW y,
             y = [[st EXCEPT !.pool.freeList = Null, !.pool.watermark = 0,
                             !.pool.freeBlockCount = st.pool.blockCount]
                    EXCEPT !.s.watermark = 0, !.s.freeStack = <<>>, !.s.live = <<>>]
      PROVE  y = State(p2, s2, m1, o)
  BY <1>5 DEF State
<1> HIDE DEF st
<1>6. Reset(State(p, s, m, n)) = State(p2, s2, m1, o)
  <2>1. Reset(State(p, s, m, n))
          = [[st EXCEPT !.pool.freeList = Null, !.pool.watermark = 0,
                        !.pool.freeBlockCount = st.pool.blockCount]
               EXCEPT !.s.watermark = 0, !.s.freeStack = <<>>, !.s.live = <<>>]
    BY <1>2 DEF Reset, PoolReset
  <2> HIDE DEF p2, s2
  <2> QED BY <1>5, <2>1
<1> HIDE DEF p2, s2
<1>7. Keeps(p, s, m, n, p2, s2, m1, o)
  BY <1>2, <1>3, <1>4 DEF Keeps
<1> QED BY <1>6, <1>7 DEF Sound

---------------------------------------------------------------------------
(* verify().                                                               *)

(* A pool that agrees with its shadow passes verify().                     *)
LEMMA AgreeVerifies ==
  ASSUME NEW p, NEW s, NEW m, NEW n, Agree(p, s, m, {})
  PROVE  Verify(State(p, s, m, n))
<1> DEFINE st == State(p, s, m, n)
<1>1. st.pool = p /\ st.s = s /\ st.m = m
  BY StateFields
<1>2. /\ p \in Pools /\ s \in Shadows /\ Counted(p, s)
      /\ DOMAIN s.live = 1 .. Len(s.live)
  BY DEF Agree, Shadows
<1>3. ASSUME NEW k \in 1 .. Len(s.live)
      PROVE  Owns(p, At(s, s.live[k].index)) /\ m[At(s, s.live[k].index)] = Content(s.live[k])
  <2>1. /\ s.live[k].index \in LiveBlocks(s)
        /\ At(s, s.live[k].index) = Block(p.memory, s.live[k].index)
        /\ m[At(s, s.live[k].index)] = Content(s.live[k])
    BY LiveIsAt
  <2>2. Owns(p, Block(p.memory, s.live[k].index))
    BY <2>1, IssuedAreCells
  <2> QED BY <2>1, <2>2
<1>4. p.freeBlockCount = FreeNow(s) /\ p.blockCount = s.blockCount
  BY <1>2 DEF Counted, FreeNow
<1>5. p.blockCount - p.freeBlockCount = Len(s.live)
  BY UsedAreLive
<1> HIDE DEF st
<1> QED BY <1>1, <1>2, <1>3, <1>4, <1>5 DEF Verify, CheckLive, st

---------------------------------------------------------------------------
(* Pools that are new, empty, or elsewhere.                                *)

(* A pool just built, or one that was moved from, agrees with its shadow.  *)
LEMMA NewAgrees ==
  ASSUME NEW m \in Memories
  PROVE  /\ \A a \in Arenas, n \in BlockCounts : Agree(NewPool(a, n), NewShadow(n), m, {})
         /\ \A n : LiveObjectCount(NewShadow(n)) = 0
         /\ Agree(EmptyPool, EmptyShadow, m, {}) /\ LiveObjectCount(EmptyShadow) = 0
<1>1. PICK none \in Seq(Nat) : none = <<>>
  BY EmptySeq
<1>2. PICK nobody \in Seq(Lives) : nobody = <<>>
  BY EmptySeq
<1>3. Len(none) = 0 /\ Len(nobody) = 0 /\ 1 .. 0 = {} /\ 0 .. 0 - 1 = {}
  BY <1>1, <1>2
<1>4. ASSUME NEW p \in Pools, NEW s \in Shadows, p.blockCount = s.blockCount, p.watermark = 0, s.watermark = 0,
             p.freeBlockCount = s.blockCount, p.freeList = Null, s.base = Null,
             s.freeStack = none, s.live = nobody,
             p.memory = Null => p.blockCount = 0, p.memory # Null => p.blockCount \in BlockCounts
      PROVE  Agree(p, s, m, {})
  <2>1. FreeBlocks(s) = {} /\ LiveBlocks(s) = {}
    BY <1>3, <1>4 DEF FreeBlocks, LiveBlocks
  <2>2. Counted(p, s) /\ Placed(p, s)
    BY <1>2, <1>3, <1>4 DEF Counted, Placed, Shadows
  <2>3. Parted(s, {})
    BY <1>3, <1>4, <2>1 DEF Parted
  <2>4. Linked(p, s, m) /\ Filled(p, s, m)
    BY <1>1, <1>3, <1>4 DEF Linked, Filled
  <2> QED BY <2>2, <2>3, <2>4 DEF Agree
<1>5. 0 \in Tags
  BY FuzzAssumption DEF Tags
<1> DEFINE Pool_(a, n) == [blockCount |-> n, memory |-> a, freeList |-> Null, watermark |-> 0, freeBlockCount |-> n]
           Shadow_(n) == [blockCount |-> n, base |-> Null, watermark |-> 0, freeStack |-> none,
                          live |-> nobody, nextTag |-> 0]
<1>6. /\ \A a, n : NewPool(a, n) = Pool_(a, n)
      /\ \A n : NewShadow(n) = Shadow_(n)
      /\ EmptyPool = Pool_(Null, 0) /\ EmptyShadow = Shadow_(0)
  <2>1. ASSUME NEW a, NEW n PROVE NewPool(a, n) = Pool_(a, n)
    <3>1. ASSUME NEW x, x = NewPool(a, n)
          PROVE  x = Pool_(a, n)
      BY <3>1 DEF NewPool, EmptyPool
    <3> HIDE DEF Pool_
    <3> QED BY <3>1
  <2>2. EmptyPool = Pool_(Null, 0)
    BY DEF EmptyPool
  <2>3. EmptyShadow = Shadow_(0)
    BY <1>1, <1>2 DEF EmptyShadow
  <2>4. ASSUME NEW n PROVE NewShadow(n) = Shadow_(n)
    <3>1. NewShadow(n) = [Shadow_(0) EXCEPT !.blockCount = n]
      BY <2>3 DEF NewShadow
    <3> QED BY <3>1
  <2> QED BY <2>1, <2>2, <2>3, <2>4
<1>7. /\ \A a \in Arenas \cup {Null}, n \in Nat : Pool_(a, n) \in Pools
      /\ \A n \in Nat : Shadow_(n) \in Shadows
  BY <1>5 DEF Pools, Shadows
<1>8. /\ \A a, n : /\ Pool_(a, n).blockCount = n /\ Pool_(a, n).memory = a /\ Pool_(a, n).freeList = Null
                   /\ Pool_(a, n).watermark = 0 /\ Pool_(a, n).freeBlockCount = n
      /\ \A n : /\ Shadow_(n).blockCount = n /\ Shadow_(n).base = Null /\ Shadow_(n).watermark = 0
                /\ Shadow_(n).freeStack = none /\ Shadow_(n).live = nobody
  OBVIOUS
<1> HIDE DEF Pool_, Shadow_
<1>9. \A a \in Arenas, n \in BlockCounts : Agree(NewPool(a, n), NewShadow(n), m, {})
  <2> SUFFICES ASSUME NEW a \in Arenas, NEW n \in BlockCounts PROVE Agree(Pool_(a, n), Shadow_(n), m, {})
    BY <1>6
  <2>1. n \in Nat /\ a # Null
    BY FuzzAssumption
  <2>2. Pool_(a, n) \in Pools /\ Shadow_(n) \in Shadows
    BY <1>7, <2>1
  <2> QED BY <1>4, <1>8, <2>1, <2>2
<1>10. Agree(EmptyPool, EmptyShadow, m, {})
  <2>1. Pool_(Null, 0) \in Pools /\ Shadow_(0) \in Shadows
    BY <1>7
  <2>2. Agree(Pool_(Null, 0), Shadow_(0), m, {})
    BY <1>4, <1>8, <2>1
  <2> QED BY <1>6, <2>2
<1>11. \A n : LiveObjectCount(NewShadow(n)) = 0 /\ LiveObjectCount(EmptyShadow) = 0
  <2>1. ASSUME NEW s, s.live = nobody PROVE LiveObjectCount(s) = 0
    <3>1. DOMAIN nobody = {}
      BY <1>3
    <3>2. {k \in DOMAIN s.live : s.live[k].isObject} = {}
      BY <2>1, <3>1
    <3> QED BY <3>2, FS_EmptySet DEF LiveObjectCount
  <2> QED BY <1>6, <1>8, <2>1
<1> QED BY <1>9, <1>10, <1>11

(* What happens in other arenas does not concern a pool.                   *)
LEMMA Frame ==
  ASSUME NEW p, NEW s, NEW m, NEW X, Agree(p, s, m, X), NEW m2 \in Memories,
         \A c \in Cells : c[1] = p.memory => m2[c] = m[c]
  PROVE  Agree(p, s, m2, X)
<1>1. \A j \in FreeBlocks(s) \cup LiveBlocks(s) : m2[Block(p.memory, j)] = m[Block(p.memory, j)]
  <2> SUFFICES ASSUME NEW j \in FreeBlocks(s) \cup LiveBlocks(s)
               PROVE  m2[Block(p.memory, j)] = m[Block(p.memory, j)]
    OBVIOUS
  <2>1. Block(p.memory, j) \in Cells /\ Block(p.memory, j)[1] = p.memory
    BY IssuedAreCells, Addresses
  <2> QED BY <2>1
<1>2. Linked(p, s, m) /\ Filled(p, s, m)
  BY DEF Agree
<1>3. Linked(p, s, m2)
  <2>1. \A k \in 1 .. Len(s.freeStack) : s.freeStack[k] \in FreeBlocks(s)
    BY DEF FreeBlocks
  <2> QED BY <1>1, <1>2, <2>1 DEF Linked
<1>4. Filled(p, s, m2)
  <2>1. \A k \in 1 .. Len(s.live) : s.live[k].index \in LiveBlocks(s)
    BY DEF LiveBlocks
  <2> QED BY <1>1, <1>2, <2>1 DEF Filled
<1> QED BY <1>3, <1>4 DEF Agree

---------------------------------------------------------------------------
(* The two harnesses together.                                             *)

(* Both pools agree with their shadows, no block being on its way; each    *)
(* arena that is allocated is one pool's, and each object is in one        *)
(* shadow.                                                                 *)
Together(pl, sh, m, hp, n) ==
  /\ pl \in [Slots -> Pools] /\ sh \in [Slots -> Shadows] /\ n \in Int
  /\ \A h \in Slots : Agree(pl[h], sh[h], m, {})
  /\ hp = {pl[h].memory : h \in Slots} \ {Null}
  /\ pl["a"].memory = pl["b"].memory => hp = {}
  /\ n = LiveObjectCount(sh["a"]) + LiveObjectCount(sh["b"])

(* The same, as one slot h sees it and the other.                          *)
TogetherAt(pl, sh, m, hp, n, h) ==
  LET o == Other(h)
  IN  /\ pl \in [Slots -> Pools] /\ sh \in [Slots -> Shadows] /\ n \in Int
      /\ Agree(pl[h], sh[h], m, {}) /\ Agree(pl[o], sh[o], m, {})
      /\ hp = {pl[h].memory, pl[o].memory} \ {Null}
      /\ pl[h].memory = pl[o].memory => hp = {}
      /\ n = LiveObjectCount(sh[h]) + LiveObjectCount(sh[o])

(* There are two slots, each the other's other.                            *)
LEMMA Others ==
  /\ Other("a") = "b" /\ Other("b") = "a"
  /\ \A h \in Slots : Other(h) \in Slots /\ Other(h) # h /\ \A g \in Slots : g = h \/ g = Other(h)
<1>1. Other("a") = "b"
  <2>1. \A o \in Slots : o # "a" <=> o = "b"
    BY DEF Slots
  <2> QED BY <2>1 DEF Other, Slots
<1>2. Other("b") = "a"
  <2>1. \A o \in Slots : o # "b" <=> o = "a"
    BY DEF Slots
  <2> QED BY <2>1 DEF Other, Slots
<1> QED BY <1>1, <1>2 DEF Slots

(* It is the same whichever slot is looked at.                             *)
LEMMA EitherSlot ==
  ASSUME NEW pl, NEW sh, NEW m, NEW hp, NEW n, NEW h \in Slots
  PROVE  Together(pl, sh, m, hp, n) <=> TogetherAt(pl, sh, m, hp, n, h)
<1> DEFINE o == Other(h)
<1>1. o \in Slots /\ o # h /\ \A g \in Slots : g = h \/ g = o
  BY Others
<1>2. (h = "a" /\ o = "b") \/ (h = "b" /\ o = "a")
  <2>1. CASE h = "a"
    BY <2>1, Others
  <2>2. CASE h = "b"
    BY <2>2, Others
  <2> QED BY <2>1, <2>2 DEF Slots
<1>3. {pl[g].memory : g \in Slots} = {pl[h].memory, pl[o].memory}
  <2> HIDE DEF o
  <2> QED BY <1>1
<1>4. (\A g \in Slots : Agree(pl[g], sh[g], m, {})) <=> Agree(pl[h], sh[h], m, {}) /\ Agree(pl[o], sh[o], m, {})
  <2> HIDE DEF o
  <2> QED BY <1>1
<1>5. pl["a"].memory = pl["b"].memory <=> pl[h].memory = pl[o].memory
  <2> HIDE DEF o
  <2> QED BY <1>2
<1>6. ASSUME sh \in [Slots -> Shadows]
      PROVE  LiveObjectCount(sh["a"]) + LiveObjectCount(sh["b"])
               = LiveObjectCount(sh[h]) + LiveObjectCount(sh[o])
  <2> DEFINE x == LiveObjectCount(sh["a"])
             y == LiveObjectCount(sh["b"])
  <2>1. x \in Nat /\ y \in Nat
    BY <1>6, ObjectsAreCounted DEF Slots
  <2>2. \/ LiveObjectCount(sh[h]) = x /\ LiveObjectCount(sh[o]) = y
        \/ LiveObjectCount(sh[h]) = y /\ LiveObjectCount(sh[o]) = x
    <3> HIDE DEF o
    <3> QED BY <1>2
  <2> HIDE DEF x, y
  <2>3. x + y = LiveObjectCount(sh[h]) + LiveObjectCount(sh[o])
    <3> HIDE DEF o
    <3> QED BY <2>1, <2>2
  <2> QED BY <2>3 DEF x, y
<1> QED BY <1>3, <1>4, <1>5, <1>6 DEF Together, TogetherAt

(* No block is in both arenas.                                             *)
LEMMA ArenasDiffer ==
  ASSUME NEW pl, NEW sh, NEW m, NEW hp, NEW n, NEW h \in Slots, Together(pl, sh, m, hp, n)
  PROVE  /\ \A a \in Arenas : a = pl[Other(h)].memory => a # pl[h].memory
         /\ \A c \in Cells : c[1] = pl[Other(h)].memory => c[1] # pl[h].memory
<1> DEFINE o == Other(h)
<1>1. /\ hp = {pl[h].memory, pl[o].memory} \ {Null}
      /\ pl[h].memory = pl[o].memory => hp = {}
  BY EitherSlot DEF TogetherAt
<1>2. ASSUME NEW a \in Arenas, a = pl[o].memory PROVE a # pl[h].memory
  <2>1. a # Null
    BY FuzzAssumption
  <2>2. a \in hp
    BY <1>1, <1>2, <2>1
  <2> QED BY <1>1, <1>2, <2>2
<1>3. ASSUME NEW c \in Cells, c[1] = pl[o].memory PROVE c[1] # pl[h].memory
  <2>1. c[1] \in Arenas
    BY Addresses
  <2> QED BY <1>2, <1>3, <2>1
<1> QED BY <1>2, <1>3

(* What keeps one harness in step keeps both.                              *)
LEMMA OneChanges ==
  ASSUME NEW pl, NEW sh, NEW m, NEW hp, NEW n, NEW h \in Slots, Together(pl, sh, m, hp, n),
         NEW p2, NEW s2, NEW m2, NEW n2, Keeps(pl[h], sh[h], m, n, p2, s2, m2, n2)
  PROVE  Together([pl EXCEPT ![h] = p2], [sh EXCEPT ![h] = s2], m2, hp, n2)
<1> DEFINE o == Other(h)
           pl2 == [pl EXCEPT ![h] = p2]
           sh2 == [sh EXCEPT ![h] = s2]
<1>1. TogetherAt(pl, sh, m, hp, n, h)
  BY EitherSlot
<1>2. o \in Slots /\ o # h
  BY Others
<1>3. Agree(p2, s2, m2, {}) /\ n2 \in Int /\ p2.memory = pl[h].memory
  BY DEF Keeps
<1>4. p2 \in Pools /\ s2 \in Shadows /\ m2 \in Memories
  BY <1>3 DEF Agree
<1>5. /\ pl \in [Slots -> Pools] /\ sh \in [Slots -> Shadows] /\ n \in Int
      /\ Agree(pl[h], sh[h], m, {}) /\ Agree(pl[o], sh[o], m, {})
      /\ hp = {pl[h].memory, pl[o].memory} \ {Null}
      /\ pl[h].memory = pl[o].memory => hp = {}
      /\ n = LiveObjectCount(sh[h]) + LiveObjectCount(sh[o])
  BY <1>1 DEF TogetherAt
<1>6. Agree(pl[o], sh[o], m2, {})
  <2>1. \A c \in Cells : c[1] = pl[o].memory => m2[c] = m[c]
    BY ArenasDiffer DEF Keeps
  <2> HIDE DEF o
  <2> QED BY <1>4, <1>5, <2>1, Frame
<1>7. n2 = LiveObjectCount(s2) + LiveObjectCount(sh[o])
  <2> DEFINE x == LiveObjectCount(sh[h])
             y == LiveObjectCount(sh[o])
             z == LiveObjectCount(s2)
  <2>1. x \in Nat /\ y \in Nat /\ z \in Nat
    BY <1>2, <1>4, <1>5, ObjectsAreCounted
  <2>2. n = x + y /\ n2 - z = n - x
    BY <1>5 DEF Keeps
  <2> HIDE DEF x, y, z
  <2>3. n2 = z + y
    BY <1>3, <2>1, <2>2
  <2> QED BY <2>3 DEF y, z
<1> HIDE DEF o
<1>8. pl2 \in [Slots -> Pools] /\ pl2[h] = p2 /\ pl2[o] = pl[o]
  BY <1>2, <1>4, <1>5
<1>9. sh2 \in [Slots -> Shadows] /\ sh2[h] = s2 /\ sh2[o] = sh[o]
  BY <1>2, <1>4, <1>5
<1> HIDE DEF pl2, sh2
<1>10. TogetherAt(pl2, sh2, m2, hp, n2, h)
  BY <1>3, <1>5, <1>6, <1>7, <1>8, <1>9 DEF TogetherAt, o
<1>11. Together(pl2, sh2, m2, hp, n2)
  BY <1>10, EitherSlot
<1> QED BY <1>11 DEF pl2, sh2

(* Forgetting one arena's contents changes no other's.                     *)
LEMMA ForgetKeeps ==
  ASSUME NEW m \in Memories, NEW a
  PROVE  /\ Forget(m, a) \in Memories
         /\ \A c \in Cells : c[1] # a => Forget(m, a)[c] = m[c]
BY DEF Forget, Memories, Words

(* A pool without objects gives way to the other one, moved onto it.       *)
LEMMA MovedOver ==
  ASSUME NEW pl, NEW sh, NEW m, NEW hp, NEW n, NEW h \in Slots, Together(pl, sh, m, hp, n),
         LiveObjectCount(sh[h]) = 0
  PROVE  Together([pl EXCEPT ![h] = pl[Other(h)], ![Other(h)] = EmptyPool],
                  [[sh EXCEPT ![Other(h)] = EmptyShadow] EXCEPT ![h] = sh[Other(h)]],
                  Forget(m, pl[h].memory), hp \ {pl[h].memory}, n)
<1> DEFINE o == Other(h)
           pl2 == [pl EXCEPT ![h] = pl[o], ![o] = EmptyPool]
           sh2 == [[sh EXCEPT ![o] = EmptyShadow] EXCEPT ![h] = sh[o]]
           m2 == Forget(m, pl[h].memory)
           hp2 == hp \ {pl[h].memory}
<1>1. o \in Slots /\ o # h
  BY Others
<1>2. /\ pl \in [Slots -> Pools] /\ sh \in [Slots -> Shadows] /\ n \in Int
      /\ Agree(pl[h], sh[h], m, {}) /\ Agree(pl[o], sh[o], m, {})
      /\ hp = {pl[h].memory, pl[o].memory} \ {Null}
      /\ pl[h].memory = pl[o].memory => hp = {}
      /\ n = LiveObjectCount(sh[h]) + LiveObjectCount(sh[o])
  <2>1. TogetherAt(pl, sh, m, hp, n, h)
    BY EitherSlot
  <2> QED BY <2>1 DEF TogetherAt
<1>3. m2 \in Memories /\ \A c \in Cells : c[1] # pl[h].memory => m2[c] = m[c]
  <2>1. m \in Memories
    BY <1>2 DEF Agree
  <2> QED BY <2>1, ForgetKeeps
<1>4. Agree(pl[o], sh[o], m2, {})
  <2>1. \A c \in Cells : c[1] = pl[o].memory => m2[c] = m[c]
    BY <1>3, ArenasDiffer
  <2> HIDE DEF o, m2
  <2> QED BY <1>2, <1>3, <2>1, Frame
<1> HIDE DEF m2
<1>5. Agree(EmptyPool, EmptyShadow, m2, {}) /\ LiveObjectCount(EmptyShadow) = 0
  BY <1>3, NewAgrees
<1>6. EmptyPool \in Pools /\ EmptyShadow \in Shadows
  BY <1>5 DEF Agree
<1>7. EmptyPool.memory = Null
  BY DEF EmptyPool
<1> HIDE DEF o
<1>8. pl2 \in [Slots -> Pools] /\ pl2[h] = pl[o] /\ pl2[o] = EmptyPool
  BY <1>1, <1>2, <1>6
<1>9. sh2 \in [Slots -> Shadows] /\ sh2[h] = sh[o] /\ sh2[o] = EmptyShadow
  BY <1>1, <1>2, <1>6
<1>10. hp2 = {pl2[h].memory, pl2[o].memory} \ {Null} /\ (pl2[h].memory = pl2[o].memory => hp2 = {})
  <2> DEFINE x == pl[h].memory
             y == pl[o].memory
  <2>1. hp = {x, y} \ {Null} /\ (x = y => hp = {})
    BY <1>2
  <2> HIDE DEF x, y
  <2>2. hp \ {x} = {y, Null} \ {Null}
    BY <2>1
  <2>3. y = Null => hp \ {x} = {}
    BY <2>2
  <2>4. pl2[h].memory = y /\ pl2[o].memory = Null
    BY <1>7, <1>8 DEF y
  <2>5. hp2 = hp \ {x}
    BY DEF x
  <2> HIDE DEF pl2, hp2
  <2> QED BY <2>2, <2>3, <2>4, <2>5
<1>11. n = LiveObjectCount(sh2[h]) + LiveObjectCount(sh2[o])
  <2> DEFINE y == LiveObjectCount(sh[o])
  <2>1. y \in Nat
    BY <1>1, <1>2, ObjectsAreCounted
  <2>2. n = 0 + y
    BY <1>2
  <2>3. LiveObjectCount(sh2[h]) = y /\ LiveObjectCount(sh2[o]) = 0
    BY <1>5, <1>9
  <2> HIDE DEF y, sh2
  <2> QED BY <2>1, <2>2, <2>3
<1> HIDE DEF pl2, sh2, hp2
<1>12. TogetherAt(pl2, sh2, m2, hp2, n, h)
  BY <1>2, <1>4, <1>5, <1>8, <1>9, <1>10, <1>11 DEF TogetherAt, o
<1>13. Together(pl2, sh2, m2, hp2, n)
  BY <1>12, EitherSlot
<1> QED BY <1>13 DEF pl2, sh2, m2, hp2, o

(* A pool without objects gives way to a new one in another arena.         *)
LEMMA Replaced ==
  ASSUME NEW pl, NEW sh, NEW m, NEW hp, NEW n, NEW h \in Slots, Together(pl, sh, m, hp, n),
         LiveObjectCount(sh[h]) = 0, NEW a \in Arenas \ hp, NEW b \in BlockCounts
  PROVE  Together([pl EXCEPT ![h] = NewPool(a, b)], [sh EXCEPT ![h] = NewShadow(b)],
                  Forget(m, pl[h].memory), (hp \ {pl[h].memory}) \cup {a}, n)
<1> DEFINE o == Other(h)
           p2 == NewPool(a, b)
           s2 == NewShadow(b)
           pl2 == [pl EXCEPT ![h] = p2]
           sh2 == [sh EXCEPT ![h] = s2]
           m2 == Forget(m, pl[h].memory)
           hp2 == (hp \ {pl[h].memory}) \cup {a}
<1>1. o \in Slots /\ o # h
  BY Others
<1>2. /\ pl \in [Slots -> Pools] /\ sh \in [Slots -> Shadows] /\ n \in Int
      /\ Agree(pl[h], sh[h], m, {}) /\ Agree(pl[o], sh[o], m, {})
      /\ hp = {pl[h].memory, pl[o].memory} \ {Null}
      /\ pl[h].memory = pl[o].memory => hp = {}
      /\ n = LiveObjectCount(sh[h]) + LiveObjectCount(sh[o])
  <2>1. TogetherAt(pl, sh, m, hp, n, h)
    BY EitherSlot
  <2> QED BY <2>1 DEF TogetherAt
<1>3. m2 \in Memories /\ \A c \in Cells : c[1] # pl[h].memory => m2[c] = m[c]
  <2>1. m \in Memories
    BY <1>2 DEF Agree
  <2> QED BY <2>1, ForgetKeeps
<1>4. Agree(pl[o], sh[o], m2, {})
  <2>1. \A c \in Cells : c[1] = pl[o].memory => m2[c] = m[c]
    BY <1>3, ArenasDiffer
  <2> HIDE DEF o, m2
  <2> QED BY <1>2, <1>3, <2>1, Frame
<1> HIDE DEF m2
<1>5. Agree(p2, s2, m2, {}) /\ LiveObjectCount(s2) = 0
  BY <1>3, NewAgrees
<1>6. p2 \in Pools /\ s2 \in Shadows
  BY <1>5 DEF Agree
<1>7. p2.memory = a
  BY DEF NewPool, EmptyPool
<1> HIDE DEF o, p2, s2
<1>8. pl2 \in [Slots -> Pools] /\ pl2[h] = p2 /\ pl2[o] = pl[o]
  BY <1>1, <1>2, <1>6
<1>9. sh2 \in [Slots -> Shadows] /\ sh2[h] = s2 /\ sh2[o] = sh[o]
  BY <1>1, <1>2, <1>6
<1>10. hp2 = {pl2[h].memory, pl2[o].memory} \ {Null} /\ (pl2[h].memory = pl2[o].memory => hp2 = {})
  <2> DEFINE x == pl[h].memory
             y == pl[o].memory
  <2>1. hp = {x, y} \ {Null} /\ (x = y => hp = {})
    BY <1>2
  <2>2. a # Null /\ a \notin hp
    BY FuzzAssumption
  <2> HIDE DEF x, y
  <2>3. (hp \ {x}) \cup {a} = {a, y} \ {Null} /\ a # y
    BY <2>1, <2>2
  <2>4. pl2[h].memory = a /\ pl2[o].memory = y
    BY <1>7, <1>8 DEF y
  <2>5. hp2 = (hp \ {x}) \cup {a}
    BY DEF x
  <2> HIDE DEF pl2, hp2
  <2> QED BY <2>3, <2>4, <2>5
<1>11. n = LiveObjectCount(sh2[h]) + LiveObjectCount(sh2[o])
  BY <1>2, <1>5, <1>9
<1> HIDE DEF pl2, sh2, hp2
<1>12. TogetherAt(pl2, sh2, m2, hp2, n, h)
  BY <1>2, <1>4, <1>5, <1>8, <1>9, <1>10, <1>11 DEF TogetherAt, o
<1>13. Together(pl2, sh2, m2, hp2, n)
  BY <1>12, EitherSlot
<1> QED BY <1>13 DEF pl2, sh2, m2, hp2, p2, s2

---------------------------------------------------------------------------
(* The run loop.                                                           *)

(* The inductive invariant: no check has failed, and both harnesses are in *)
(* step.                                                                   *)
IInv ==
  /\ phase \in {"running", "ended"}
  /\ Together(pool, shadow, mem, heap, alive)

(* Two harnesses that are started are in step.                             *)
LEMMA InitInv == Init => IInv
<1> SUFFICES ASSUME Init PROVE IInv
  OBVIOUS
<1>1. PICK p \in Arenas, q \in Arenas, k \in BlockCounts, n \in BlockCounts :
        /\ p # q
        /\ pool   = [a |-> NewPool(p, k), b |-> NewPool(q, n)]
        /\ shadow = [a |-> NewShadow(k), b |-> NewShadow(n)]
        /\ mem    = [x \in Cells |-> Null]
        /\ heap   = {p, q}
        /\ alive  = 0
        /\ phase  = "running"
  BY DEF Init
<1>2. mem \in Memories
  BY <1>1 DEF Memories, Words
<1>3. /\ Agree(NewPool(p, k), NewShadow(k), mem, {}) /\ Agree(NewPool(q, n), NewShadow(n), mem, {})
      /\ LiveObjectCount(NewShadow(k)) = 0 /\ LiveObjectCount(NewShadow(n)) = 0
  BY <1>2, NewAgrees
<1>4. NewPool(p, k).memory = p /\ NewPool(q, n).memory = q
  BY DEF NewPool, EmptyPool
<1>5. /\ NewPool(p, k) \in Pools /\ NewPool(q, n) \in Pools
      /\ NewShadow(k) \in Shadows /\ NewShadow(n) \in Shadows
  BY <1>3 DEF Agree
<1>6. /\ pool \in [Slots -> Pools] /\ pool["a"] = NewPool(p, k) /\ pool["b"] = NewPool(q, n)
      /\ shadow \in [Slots -> Shadows] /\ shadow["a"] = NewShadow(k) /\ shadow["b"] = NewShadow(n)
  BY <1>1, <1>5 DEF Slots
<1>7. heap = {pool["a"].memory, pool["b"].memory} \ {Null} /\ pool["a"].memory # pool["b"].memory
  BY <1>1, <1>4, <1>6, FuzzAssumption
<1>8. alive = LiveObjectCount(shadow["a"]) + LiveObjectCount(shadow["b"]) /\ alive \in Int
  BY <1>1, <1>3, <1>6
<1>9. TogetherAt(pool, shadow, mem, heap, alive, "a")
  BY <1>3, <1>6, <1>7, <1>8, Others DEF TogetherAt
<1>10. Together(pool, shadow, mem, heap, alive)
  BY <1>9, EitherSlot DEF Slots
<1> QED BY <1>1, <1>10 DEF IInv

(* What the operations of slot h start from.                               *)
LEMMA Started ==
  ASSUME IInv, NEW h \in Slots
  PROVE  /\ Harness(h) = State(pool[h], shadow[h], mem, alive)
         /\ Agree(pool[h], shadow[h], mem, {}) /\ alive \in Int
         /\ DOMAIN shadow[h].live = 1 .. Len(shadow[h].live)
<1>1. Harness(h) = State(pool[h], shadow[h], mem, alive)
  BY DEF Harness, State
<1>2. Agree(pool[h], shadow[h], mem, {}) /\ alive \in Int
  BY DEF IInv, Together
<1>3. DOMAIN shadow[h].live = 1 .. Len(shadow[h].live)
  BY <1>2 DEF Agree, Shadows
<1> QED BY <1>1, <1>2, <1>3

(* A sound operation on one harness keeps both in step.                    *)
LEMMA ApplyKeeps ==
  ASSUME IInv, NEW h \in Slots, NEW x, Sound(pool[h], shadow[h], mem, alive, x), Apply(h, x)
  PROVE  IInv'
<1>1. PICK p2, s2, m2, n2 : x = State(p2, s2, m2, n2) /\ Keeps(pool[h], shadow[h], mem, alive, p2, s2, m2, n2)
  BY DEF Sound
<1>2. x.ok /\ x.pool = p2 /\ x.s = s2 /\ x.m = m2 /\ x.alive = n2
  BY <1>1, StateFields
<1>3. /\ pool' = [pool EXCEPT ![h] = p2] /\ shadow' = [shadow EXCEPT ![h] = s2]
      /\ mem' = m2 /\ alive' = n2 /\ heap' = heap /\ phase' = phase
  BY <1>2 DEF Apply
<1>4. Together([pool EXCEPT ![h] = p2], [shadow EXCEPT ![h] = s2], m2, heap, n2)
  <2>1. Together(pool, shadow, mem, heap, alive)
    BY DEF IInv
  <2> QED BY <1>1, <2>1, OneChanges
<1>5. Together(pool', shadow', mem', heap', alive')
  BY <1>3, <1>4
<1> QED BY <1>3, <1>5 DEF IInv

(* The other harness's blocks are foreign to a pool.                       *)
LEMMA OtherIsElsewhere ==
  ASSUME IInv, NEW h \in Slots, shadow[Other(h)].live # <<>>
  PROVE  shadow[Other(h)].base[1] # pool[h].memory
<1> DEFINE o == Other(h)
<1>1. o \in Slots
  BY Others
<1>2. Agree(pool[o], shadow[o], mem, {})
  BY <1>1, Started
<1>3. shadow[o].base = Block(pool[o].memory, 0) /\ shadow[o].base \in Cells
  BY <1>2 DEF Agree, Placed, Shadows
<1>4. Together(pool, shadow, mem, heap, alive)
  BY DEF IInv
<1>5. shadow[o].base[1] = pool[o].memory
  BY <1>3, Addresses
<1> QED BY <1>3, <1>4, <1>5, ArenasDiffer

(* Once a harness has destroyed its objects, both are still in step.       *)
LEMMA Emptying ==
  ASSUME NEW pl, NEW sh, NEW m, NEW hp, NEW n, NEW h \in Slots, Together(pl, sh, m, hp, n)
  PROVE  \E s2, m2 : /\ DestroyedAs(pl[h], sh[h], m, n, s2, m2)
                     /\ Together(pl, [sh EXCEPT ![h] = s2], m2, hp, n - LiveObjectCount(sh[h]))
<1>1. pl \in [Slots -> Pools] /\ n \in Int /\ Agree(pl[h], sh[h], m, {})
  BY DEF Together
<1>2. PICK s2, m2 : DestroyedAs(pl[h], sh[h], m, n, s2, m2)
  BY <1>1, AllDestroyed
<1>3. Keeps(pl[h], sh[h], m, n, pl[h], s2, m2, n - LiveObjectCount(sh[h]))
  BY <1>2 DEF DestroyedAs
<1>4. Together([pl EXCEPT ![h] = pl[h]], [sh EXCEPT ![h] = s2], m2, hp, n - LiveObjectCount(sh[h]))
  BY <1>3, OneChanges
<1>5. [pl EXCEPT ![h] = pl[h]] = pl
  BY <1>1
<1> QED BY <1>2, <1>4, <1>5

(* What a move leaves behind passes verifyMovedFrom().                     *)
LEMMA MovedFromPasses ==
  ASSUME NEW p, NEW s, NEW m \in Memories, NEW n
  PROVE  VerifyMovedFrom(MovedFrom(State(p, s, m, n)))
<1> DEFINE st == State(p, s, m, n)
           empty == State(EmptyPool, EmptyShadow, m, n)
<1>1. ASSUME NEW x, x = [st EXCEPT !.pool = EmptyPool, !.s = EmptyShadow] PROVE x = empty
  BY <1>1 DEF State
<1> HIDE DEF st
<1>2. MovedFrom(st) = empty
  BY <1>1 DEF MovedFrom
<1>3. Verify(empty)
  BY NewAgrees, AgreeVerifies
<1>4. empty.s = EmptyShadow
  BY StateFields
<1>5. EmptyShadow.blockCount = 0 /\ EmptyShadow.live = <<>>
  BY DEF EmptyShadow
<1> HIDE DEF empty
<1>6. VerifyMovedFrom(empty)
  BY <1>3, <1>4, <1>5 DEF VerifyMovedFrom
<1> QED BY <1>2, <1>6 DEF st

(* Out of the harness and back: nothing is changed, and no check fails.    *)
LEMMA MoveOutAndBackKeeps == ASSUME IInv, NEW h \in Slots, MoveOutAndBack(h) PROVE IInv'
<1> DEFINE st == State(pool[h], shadow[h], mem, alive)
<1>1. Harness(h) = st /\ Agree(pool[h], shadow[h], mem, {}) /\ alive \in Int
  BY Started
<1>2. Verify(st)
  BY <1>1, AgreeVerifies
<1>3. VerifyMovedFrom(MovedFrom(st))
  <2>1. mem \in Memories
    BY <1>1 DEF Agree
  <2> QED BY <2>1, MovedFromPasses
<1>4. Apply(h, st)
  <2> HIDE DEF st
  <2> QED BY <1>1, <1>2, <1>3 DEF MoveOutAndBack, Check
<1>5. Sound(pool[h], shadow[h], mem, alive, st)
  <2>1. Keeps(pool[h], shadow[h], mem, alive, pool[h], shadow[h], mem, alive)
    BY <1>1 DEF Keeps
  <2> QED BY <2>1 DEF Sound
<1> QED BY <1>4, <1>5, ApplyKeeps

(* Moved onto itself a harness stays as it is.                             *)
LEMMA MoveOntoItselfKeeps == ASSUME IInv, NEW h \in Slots, MoveOntoItself(h) PROVE IInv'
<1>1. Harness(h) = State(pool[h], shadow[h], mem, alive)
  BY Started
<1>2. Harness(h).ok /\ Harness(h).m = mem /\ Harness(h).alive = alive
  BY <1>1, StateFields
<1>3. /\ pool' = pool /\ heap' = heap /\ mem' = mem /\ alive' = alive /\ phase' = phase
      /\ shadow' = [[shadow EXCEPT ![h] = EmptyShadow] EXCEPT ![h] = shadow[h]]
  BY <1>2 DEF MoveOntoItself, MoveAssign
<1>4. shadow \in [Slots -> Shadows]
  BY DEF IInv, Together
<1>5. shadow' = shadow
  BY <1>3, <1>4
<1> QED BY <1>3, <1>5 DEF IInv

(* Moving one harness over the other destroys the target's objects first,  *)
(* and the arena it had is given back.                                     *)
LEMMA MoveOverKeeps == ASSUME IInv, NEW h \in Slots, MoveOver(h) PROVE IInv'
<1> DEFINE o == Other(h)
           x == DestroyAllObjects(Harness(h))
           c == LiveObjectCount(shadow[h])
<1>1. Together(pool, shadow, mem, heap, alive)
  BY DEF IInv
<1>2. PICK s2, m2 : /\ DestroyedAs(pool[h], shadow[h], mem, alive, s2, m2)
                    /\ Together(pool, [shadow EXCEPT ![h] = s2], m2, heap, alive - c)
  BY <1>1, Emptying
<1>3. x = State(pool[h], s2, m2, alive - c) /\ LiveObjectCount(s2) = 0
  BY <1>2, Started DEF DestroyedAs
<1>4. x.ok /\ x.m = m2 /\ x.alive = alive - c
  BY <1>3, StateFields
<1>5. o # h /\ o \in Slots /\ shadow \in [Slots -> Shadows]
  BY <1>1, Others DEF Together
<1>6. MoveAssign(h, o, x)
  <2>1. m2 \in Memories
    BY <1>2 DEF Together, Agree
  <2>2. VerifyMovedFrom(MovedFrom(x))
    BY <1>3, <2>1, MovedFromPasses
  <2> HIDE DEF x
  <2>3. MoveAssign(h, o, Check(x, VerifyMovedFrom(MovedFrom(x))))
    BY DEF MoveOver, x
  <2> QED BY <2>2, <2>3 DEF Check
<1> HIDE DEF x, o, c
<1>7. /\ pool'   = [pool EXCEPT ![h] = pool[o], ![o] = EmptyPool]
      /\ shadow' = [[shadow EXCEPT ![o] = EmptyShadow] EXCEPT ![h] = shadow[o]]
      /\ heap'   = heap \ {pool[h].memory} /\ mem' = Forget(m2, pool[h].memory)
      /\ alive'  = alive - c /\ phase' = phase
  BY <1>4, <1>5, <1>6 DEF MoveAssign
<1> DEFINE sh == [shadow EXCEPT ![h] = s2]
<1>8. sh[h] = s2 /\ sh[o] = shadow[o]
  BY <1>5
<1>9. [[sh EXCEPT ![o] = EmptyShadow] EXCEPT ![h] = sh[o]] = shadow'
  BY <1>5, <1>7, <1>8
<1>10. Together(pool, sh, m2, heap, alive - c)
  BY <1>2
<1> HIDE DEF sh
<1>11. Together([pool EXCEPT ![h] = pool[o], ![o] = EmptyPool],
                [[sh EXCEPT ![o] = EmptyShadow] EXCEPT ![h] = sh[o]],
                Forget(m2, pool[h].memory), heap \ {pool[h].memory}, alive - c)
  BY <1>3, <1>8, <1>10, MovedOver DEF o
<1>12. Together(pool', shadow', mem', heap', alive')
  BY <1>7, <1>9, <1>11
<1> QED BY <1>7, <1>12 DEF IInv

(* Replacing a pool destroys its objects first; the new one starts empty.  *)
LEMMA ReplaceKeeps ==
  ASSUME IInv, NEW h \in Slots, NEW a \in Arenas \ heap, NEW n \in BlockCounts, Replace(h, a, n)
  PROVE  IInv'
<1> DEFINE x == DestroyAllObjects(Harness(h))
           c == LiveObjectCount(shadow[h])
<1>1. Together(pool, shadow, mem, heap, alive)
  BY DEF IInv
<1>2. PICK s2, m2 : /\ DestroyedAs(pool[h], shadow[h], mem, alive, s2, m2)
                    /\ Together(pool, [shadow EXCEPT ![h] = s2], m2, heap, alive - c)
  BY <1>1, Emptying
<1>3. x = State(pool[h], s2, m2, alive - c) /\ LiveObjectCount(s2) = 0
  BY <1>2, Started DEF DestroyedAs
<1>4. x.ok /\ x.m = m2 /\ x.alive = alive - c
  BY <1>3, StateFields
<1>5. shadow \in [Slots -> Shadows]
  BY <1>1 DEF Together
<1>6. /\ pool'   = [pool EXCEPT ![h] = NewPool(a, n)] /\ shadow' = [shadow EXCEPT ![h] = NewShadow(n)]
      /\ heap'   = (heap \ {pool[h].memory}) \cup {a} /\ mem' = Forget(m2, pool[h].memory)
      /\ alive'  = alive - c /\ phase' = phase
  <2>1. /\ x.ok
        /\ pool'   = [pool EXCEPT ![h] = NewPool(a, n)] /\ shadow' = [shadow EXCEPT ![h] = NewShadow(n)]
        /\ heap'   = (heap \ {pool[h].memory}) \cup {a} /\ mem' = Forget(x.m, pool[h].memory)
        /\ alive'  = x.alive /\ phase' = phase
    BY <1>4 DEF Replace
  <2> HIDE DEF x, c
  <2> QED BY <1>4, <2>1
<1> HIDE DEF x, c
<1> DEFINE sh == [shadow EXCEPT ![h] = s2]
<1>7. sh[h] = s2 /\ [sh EXCEPT ![h] = NewShadow(n)] = shadow'
  BY <1>5, <1>6
<1>8. Together(pool, sh, m2, heap, alive - c)
  BY <1>2
<1> HIDE DEF sh
<1>9. Together([pool EXCEPT ![h] = NewPool(a, n)], [sh EXCEPT ![h] = NewShadow(n)],
               Forget(m2, pool[h].memory), (heap \ {pool[h].memory}) \cup {a}, alive - c)
  BY <1>3, <1>7, <1>8, Replaced
<1>10. Together(pool', shadow', mem', heap', alive')
  BY <1>6, <1>7, <1>9
<1> QED BY <1>6, <1>10 DEF IInv

(* At the end no object is left, so the last check passes.                 *)
LEMMA EndKeeps == ASSUME IInv, End PROVE IInv'
<1> DEFINE ca == LiveObjectCount(shadow["a"])
           cb == LiveObjectCount(shadow["b"])
           first == DestroyAllObjects(Harness("a"))
           entry == [Harness("b") EXCEPT !.m = first.m, !.alive = first.alive, !.ok = first.ok]
           both == DestroyAllObjects(entry)
<1>1. Together(pool, shadow, mem, heap, alive) /\ "a" \in Slots /\ "b" \in Slots
  BY DEF IInv, Slots
<1>2. PICK s1, m1 : /\ DestroyedAs(pool["a"], shadow["a"], mem, alive, s1, m1)
                    /\ Together(pool, [shadow EXCEPT !["a"] = s1], m1, heap, alive - ca)
  BY <1>1, Emptying
<1>3. shadow \in [Slots -> Shadows]
  BY <1>1 DEF Together
<1> DEFINE sh == [shadow EXCEPT !["a"] = s1]
<1>4. sh["b"] = shadow["b"] /\ sh \in [Slots -> Shadows]
  <2>1. Together(pool, sh, m1, heap, alive - ca)
    BY <1>2
  <2>2. sh["b"] = shadow["b"]
    BY <1>1, <1>3
  <2> HIDE DEF sh
  <2> QED BY <2>1, <2>2 DEF Together
<1>5. Together(pool, sh, m1, heap, alive - ca)
  BY <1>2
<1>6. first = State(pool["a"], s1, m1, alive - ca)
  BY <1>1, <1>2, Started DEF DestroyedAs
<1>7. first.s = s1 /\ first.m = m1 /\ first.alive = alive - ca /\ first.ok = TRUE
  <2>1. first.s = s1 /\ first.m = m1 /\ first.alive = alive - ca
    BY <1>6, StateFields
  <2> HIDE DEF first
  <2>2. first.ok = TRUE
    BY <1>6 DEF State
  <2> QED BY <2>1, <2>2
<1> HIDE DEF first, sh, ca
<1>8. entry = State(pool["b"], shadow["b"], m1, alive - ca)
  <2> DEFINE start == State(pool["b"], shadow["b"], mem, alive)
  <2>1. Harness("b") = start
    BY <1>1, Started
  <2>2. ASSUME NEW x, x = [start EXCEPT !.m = m1, !.alive = alive - ca, !.ok = TRUE]
        PROVE  x = State(pool["b"], shadow["b"], m1, alive - ca)
    BY <2>2 DEF State
  <2> HIDE DEF start
  <2> QED BY <1>7, <2>1, <2>2
<1> DEFINE c2 == LiveObjectCount(sh["b"])
<1>9. PICK s2, m2 : /\ DestroyedAs(pool["b"], sh["b"], m1, alive - ca, s2, m2)
                    /\ Together(pool, [sh EXCEPT !["b"] = s2], m2, heap, (alive - ca) - c2)
  BY <1>1, <1>5, Emptying
<1> HIDE DEF entry
<1>10. both = State(pool["b"], s2, m2, (alive - ca) - c2)
  BY <1>4, <1>8, <1>9 DEF DestroyedAs
<1>11. both.s = s2 /\ both.m = m2 /\ both.alive = (alive - ca) - c2 /\ both.ok
  BY <1>10, StateFields
<1>12. (alive - ca) - c2 = 0
  <2>1. alive \in Int /\ ca \in Nat /\ c2 \in Nat /\ alive = ca + c2
    <3>1. shadow["a"] \in Shadows /\ shadow["b"] \in Shadows
      BY <1>1, <1>3
    <3>2. ca \in Nat /\ c2 \in Nat
      BY <1>4, <3>1, ObjectsAreCounted DEF ca
    <3>3. alive = ca + c2
      BY <1>1, <1>4 DEF Together, ca
    <3> QED BY <3>2, <3>3
  <2> HIDE DEF c2
  <2> QED BY <2>1
<1>13. /\ phase' = (IF both.ok /\ both.alive = 0 THEN "ended" ELSE "aborted")
       /\ shadow' = [a |-> first.s, b |-> both.s] /\ mem' = both.m /\ alive' = both.alive
       /\ pool' = pool /\ heap' = heap
  BY DEF End, first, entry
<1> HIDE DEF both
<1>14. phase' = "ended" /\ mem' = m2 /\ alive' = (alive - ca) - c2
  BY <1>11, <1>12, <1>13
<1>15. shadow' = [sh EXCEPT !["b"] = s2]
  <2>1. shadow' = [a |-> s1, b |-> s2]
    BY <1>7, <1>11, <1>13
  <2>2. sh["a"] = s1
    BY <1>1, <1>3 DEF sh
  <2> DEFINE two == [g \in Slots |-> IF g = "a" THEN s1 ELSE s2]
  <2>3. [a |-> s1, b |-> s2] = two
    BY DEF Slots
  <2>4. [sh EXCEPT !["b"] = s2] = two
    <3>1. \A g \in Slots : g = "a" \/ g = "b"
      BY DEF Slots
    <3>2. [sh EXCEPT !["b"] = s2] = [g \in Slots |-> IF g = "b" THEN s2 ELSE sh[g]]
      BY <1>4
    <3>3. \A g \in Slots : (IF g = "b" THEN s2 ELSE sh[g]) = (IF g = "a" THEN s1 ELSE s2)
      BY <2>2, <3>1
    <3> QED BY <3>2, <3>3
  <2> QED BY <2>1, <2>3, <2>4
<1>16. Together(pool', shadow', mem', heap', alive')
  BY <1>9, <1>13, <1>14, <1>15
<1> QED BY <1>14, <1>16 DEF IInv

(* Each operation of the run loop keeps both harnesses in step.            *)
LEMMA OperationKeeps == ASSUME IInv, NEW h \in Slots, OneOperation(h) PROVE IInv'
<1> DEFINE st == State(pool[h], shadow[h], mem, alive)
           Good(x) == Sound(pool[h], shadow[h], mem, alive, x)
<1>1. /\ Harness(h) = st /\ Agree(pool[h], shadow[h], mem, {}) /\ alive \in Int
      /\ Live(h) = 1 .. Len(shadow[h].live)
  BY Started DEF Live
<1>2. ASSUME NEW x, Good(x), Apply(h, x) PROVE IInv'
  BY <1>2, ApplyKeeps
<1>3. Good(Allocate(st)) /\ Good(Fill(st)) /\ \A k \in Nat : Good(AllocateBatch(st, k))
  BY <1>1, AllocationSound
<1>4. \A at \in Live(h) : Good(DeallocateOne(st, at))
  BY <1>1, DeallocateOneSound
<1>5. \A start \in Live(h), want \in Nat \ {0}, withJunk \in BOOLEAN :
        Good(DeallocateBatch(st, start, want, withJunk))
  BY <1>1, DeallocateBatchSound
<1>6. \A fail \in BOOLEAN : Good(Create(st, fail))
  BY <1>1, CreateSound
<1>7. \A at \in Live(h) : shadow[h].live[at].isObject => Good(DestroyOne(st, at))
  BY <1>1, DestroyOneSound
<1>8. Good(Reset(st))
  BY <1>1, ResetSound
<1>9. Good(RejectForeign(st, shadow[Other(h)]))
  BY <1>1, OtherIsElsewhere, RejectForeignSound
<1>10. Good(ProbeOwns(st))
  BY <1>1, ProbeOwnsSound
<1> HIDE DEF st, Good
<1>11. CASE Apply(h, Allocate(Harness(h)))
  BY <1>1, <1>2, <1>3, <1>11
<1>12. CASE Apply(h, Fill(Harness(h)))
  BY <1>1, <1>2, <1>3, <1>12
<1>13. CASE \E n \in 0 .. MaxBatch : Apply(h, AllocateBatch(Harness(h), n))
  <2>1. PICK n \in 0 .. MaxBatch : Apply(h, AllocateBatch(Harness(h), n))
    BY <1>13
  <2>2. n \in Nat
    BY FuzzAssumption
  <2> QED BY <1>1, <1>2, <1>3, <2>1, <2>2
<1>14. CASE \E at \in Live(h) : Apply(h, DeallocateOne(Harness(h), at))
  BY <1>1, <1>2, <1>4, <1>14
<1>15. CASE \E start \in Live(h), want \in 1 .. MaxBatch, withJunk \in BOOLEAN :
              Apply(h, DeallocateBatch(Harness(h), start, want, withJunk))
  <2>1. PICK start \in Live(h), want \in 1 .. MaxBatch, withJunk \in BOOLEAN :
               Apply(h, DeallocateBatch(Harness(h), start, want, withJunk))
    BY <1>15
  <2>2. want \in Nat \ {0}
    BY FuzzAssumption
  <2> QED BY <1>1, <1>2, <1>5, <2>1, <2>2
<1>16. CASE \E fail \in BOOLEAN : shadow[h].blockCount # 0 /\ Apply(h, Create(Harness(h), fail))
  BY <1>1, <1>2, <1>6, <1>16
<1>17. CASE \E at \in Live(h) : shadow[h].live[at].isObject /\ Apply(h, DestroyOne(Harness(h), at))
  BY <1>1, <1>2, <1>7, <1>17
<1>18. CASE Apply(h, Reset(Harness(h)))
  BY <1>1, <1>2, <1>8, <1>18
<1>19. CASE Apply(h, RejectForeign(Harness(h), shadow[Other(h)]))
  BY <1>1, <1>2, <1>9, <1>19
<1>20. CASE Apply(h, ProbeOwns(Harness(h)))
  BY <1>1, <1>2, <1>10, <1>20
<1>21. CASE MoveOutAndBack(h)
  BY <1>21, MoveOutAndBackKeeps
<1>22. CASE MoveOver(h)
  BY <1>22, MoveOverKeeps
<1>23. CASE MoveOntoItself(h)
  BY <1>23, MoveOntoItselfKeeps
<1>24. CASE \E a \in Arenas \ heap, n \in BlockCounts : Replace(h, a, n)
  BY <1>24, ReplaceKeeps
<1> QED BY <1>11, <1>12, <1>13, <1>14, <1>15, <1>16, <1>17, <1>18, <1>19, <1>20, <1>21, <1>22, <1>23, <1>24
        DEF OneOperation

(* Every step of the run loop keeps the invariant.                         *)
LEMMA StepInv == IInv /\ [Next]_vars => IInv'
<1> SUFFICES ASSUME IInv, [Next]_vars PROVE IInv'
  OBVIOUS
<1>1. CASE End
  BY <1>1, EndKeeps
<1>2. CASE \E h \in Slots : OneOperation(h)
  BY <1>2, OperationKeeps
<1>3. CASE UNCHANGED vars
  BY <1>3 DEF IInv, vars
<1> QED BY <1>1, <1>2, <1>3 DEF Next

---------------------------------------------------------------------------
(* The theorems.                                                           *)

(* Through every sequence of operations both harnesses stay in step with   *)
(* their pools, free list link by link and live block byte by byte.        *)
THEOREM InStep == Spec => []IInv
<1> QED BY InitInv, StepInv, PTL DEF Spec

(* The harness raises no false alarm: whatever an input spells, none of    *)
(* the checks inside its operations fires on the pool as it is written.    *)
THEOREM NoneFires == Spec => []NoFalseAlarm
<1>1. IInv => NoFalseAlarm
  BY DEF IInv, NoFalseAlarm
<1> QED BY <1>1, InStep, PTL

(* verify() passes for both pools after every operation.                   *)
THEOREM BothPass == Spec => []BothVerify
<1>1. IInv => BothVerify
  <2> SUFFICES ASSUME IInv, NEW h \in Slots PROVE Verify(Harness(h))
    BY DEF BothVerify
  <2>1. Harness(h) = State(pool[h], shadow[h], mem, alive) /\ Agree(pool[h], shadow[h], mem, {})
    BY Started
  <2> QED BY <2>1, AgreeVerifies
<1> QED BY <1>1, InStep, PTL

(* No object is lost or destroyed twice: those alive are those in the live *)
(* blocks of the two shadows, also after resets, moves and replacements.   *)
THEOREM ProbesCounted == Spec => []ProbesAreAccounted
<1>1. IInv => ProbesAreAccounted
  BY DEF IInv, Together, ProbesAreAccounted
<1> QED BY <1>1, InStep, PTL

(* The base a shadow has learned is its pool's arena, wherever the pool    *)
(* was moved.                                                              *)
THEOREM BaseFollowsArena == Spec => []BaseIsArena
<1>1. IInv => BaseIsArena
  BY DEF IInv, Together, Agree, Placed, BaseIsArena
<1> QED BY <1>1, InStep, PTL

(* The allocated arenas are those of the two pools, each of one: none is   *)
(* leaked by a move or a replacement, and none is freed twice.             *)
THEOREM ArenasHeld == Spec => []ArenasAreOwned
<1>1. IInv => ArenasAreOwned
  BY DEF IInv, Together, ArenasAreOwned
<1> QED BY <1>1, InStep, PTL

=============================================================================
