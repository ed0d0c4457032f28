------------------------------- MODULE PoolProofs --------------------------------
(***************************************************************************)
(* Proofs about modules Pool and PoolObjects, for every number of blocks,  *)
(* width of the counters and batch length: facts on the chain of next      *)
(* pointers, the inductive invariant, what no step of a pool may do, and   *)
(* that a pool keeps the promise of BlockPool and implements the fuzz      *)
(* harness's shadow model.  Its free list, read from the links in memory,  *)
(* is the shadow's stack: the list is followed by a recursive function,    *)
(* and what it yields is shown by least counterexamples (LeastNatural).    *)
(* Last, create() and destroy() with exceptions and nested calls.          *)
(***************************************************************************)
EXTENDS PoolRefinement, PoolObjects, FiniteSetTheorems, FunctionTheorems, SequenceTheorems, TLAPS

---------------------------------------------------------------------------
(* A chain of next pointers (ChainOK): what popping its head, pushing a    *)
(* block and writing elsewhere do to it.                                   *)

(* A nonempty set of naturals has a least element.                         *)
LEMMA LeastNatural ==
  ASSUME NEW T \in SUBSET Nat, T # {}
  PROVE  \E x \in T : \A y \in T : x <= y
<1> DEFINE R == OpToRel(<, Nat)
<1>1. IsWellFoundedOn(R, Nat)
  BY NatLessThanWellFounded
<1> HIDE DEF R
<1>2. PICK x \in T : \A y \in T : ~ (<<y, x>> \in R)
  BY <1>1, WFMin
<1>3. \A y \in T : ~ (y < x)
  BY <1>2 DEF R, OpToRel
<1> QED BY <1>3

(* A finite nonempty set of naturals has its maximum in it.                *)
LEMMA LargestPosition ==
  ASSUME NEW len \in Nat, NEW T \in SUBSET (1 .. len), T # {}
  PROVE  Max(T) \in T
<1> DEFINE D == {len - i : i \in T}
<1>1. D \in SUBSET Nat
  <2>1. ASSUME NEW i \in T PROVE len - i \in Nat
    <3>1. i \in 1 .. len
      OBVIOUS
    <3> QED BY <3>1
  <2> QED BY <2>1
<1>0. D # {}
  OBVIOUS
<1>2. PICK x \in D : \A y \in D : x <= y
  BY <1>0, <1>1, LeastNatural
<1>3. PICK i \in T : x = len - i
  OBVIOUS
<1>4. \A j \in T : i >= j
  <2> SUFFICES ASSUME NEW j \in T PROVE i >= j
    OBVIOUS
  <2>1. len - i <= len - j
    BY <1>2, <1>3
  <2>2. i \in Nat /\ j \in Nat
    OBVIOUS
  <2> QED BY <2>1, <2>2
<1> QED BY <1>4 DEF Max

(* The blocks are finitely many, and so is every set of them.              *)
LEMMA BlocksFinite ==
  /\ IsFiniteSet(Blocks) /\ Cardinality(Blocks) = BlockCount
  /\ \A F \in SUBSET Blocks : IsFiniteSet(F) /\ Cardinality(F) \in Nat
<1>1. IsFiniteSet(Blocks) /\ Cardinality(Blocks) = BlockCount
  BY FS_Interval, PoolAssumption DEF Blocks
<1>2. ASSUME NEW F \in SUBSET Blocks PROVE IsFiniteSet(F) /\ Cardinality(F) \in Nat
  BY <1>1, FS_Subset, FS_CardinalityType
<1> QED BY <1>1, <1>2

\* The null pointer is the chain of no blocks.
LEMMA ChainEmpty ==
  ASSUME NEW m
  PROVE  ChainOK(m, Null, {})
<1> DEFINE pos == [b \in {} |-> 1]
<1>1. pos \in Injection({}, 1 .. Cardinality({}))
  BY FS_EmptySet DEF Injection, IsInjective
<1>2. IsChain(m, Null, {}, pos)
  BY DEF IsChain
<1> QED BY <1>1, <1>2 DEF ChainOK

(* A store outside the chain leaves it alone.                              *)
LEMMA ChainFrame ==
  ASSUME NEW m, NEW n, NEW head, NEW F,
         ChainOK(m, head, F), \A b \in F : n[b] = m[b]
  PROVE  ChainOK(n, head, F)
BY DEF ChainOK, IsChain

(* Popping the head leaves the chain of the rest.                          *)
LEMMA ChainPop ==
  ASSUME NEW m, NEW head, NEW F \in SUBSET Blocks,
         ChainOK(m, head, F), head # Null
  PROVE  /\ head \in F
         /\ m[head] \in (F \ {head}) \cup {Null}
         /\ ChainOK(m, m[head], F \ {head})
<1>1. PICK pos \in Injection(F, 1 .. Cardinality(F)) : IsChain(m, head, F, pos)
  BY DEF ChainOK
<1> DEFINE c == Cardinality(F)
           G == F \ {head}
<1>2. IsFiniteSet(F) /\ c \in Nat
  BY BlocksFinite
<1>3. head \in F /\ pos[head] = c
  BY <1>1 DEF IsChain
<1>4. pos \in [F -> 1 .. c] /\ \A a, b \in F : pos[a] = pos[b] => a = b
  BY <1>1 DEF Injection, IsInjective
<1>5. Cardinality(G) = c - 1
  BY <1>2, <1>3, FS_RemoveElement
<1>6. \A b \in F : IF pos[b] = 1 THEN m[b] = Null ELSE m[b] \in F /\ pos[m[b]] = pos[b] - 1
  BY <1>1 DEF IsChain
<1> HIDE DEF c
<1>7. m[head] \in G \cup {Null}
  BY <1>2, <1>3, <1>4, <1>6
<1> DEFINE rest == [b \in G |-> pos[b]]
<1>8. \A b \in G : rest[b] \in 1 .. c - 1
  BY <1>2, <1>3, <1>4
<1>9. rest \in Injection(G, 1 .. Cardinality(G))
  <2>1. rest \in [G -> 1 .. Cardinality(G)]
    BY <1>5, <1>8
  <2>2. \A a, b \in G : rest[a] = rest[b] => a = b
    BY <1>4
  <2> QED BY <2>1, <2>2, Fun_IsInj
<1>10. IsChain(m, m[head], G, rest)
  <2>1. IF m[head] = Null THEN G = {} ELSE m[head] \in G /\ rest[m[head]] = Cardinality(G)
    <3>1. CASE c = 1
      <4>1. m[head] = Null
        BY <3>1, <1>3, <1>6
      <4>2. G = {}
        BY <3>1, <1>8
      <4> QED BY <4>1, <4>2
    <3>2. CASE c # 1
      <4>1. m[head] \in F /\ pos[m[head]] = c - 1
        BY <3>2, <1>3, <1>6
      <4>2. m[head] # Null
        BY <4>1, PoolAssumption
      <4>3. m[head] \in G
        BY <4>1, <4>2, <1>7
      <4> QED BY <4>1, <4>2, <4>3, <1>5
    <3> QED BY <3>1, <3>2
  <2>2. ASSUME NEW b \in G
        PROVE IF rest[b] = 1 THEN m[b] = Null ELSE m[b] \in G /\ rest[m[b]] = rest[b] - 1
    <3>1. CASE pos[b] = 1
      BY <3>1, <1>6
    <3>2. CASE pos[b] # 1
      <4>1. m[b] \in F /\ pos[m[b]] = pos[b] - 1
        BY <3>2, <1>6
      <4>2. m[b] # head
        BY <4>1, <1>2, <1>3, <1>8
      <4> QED BY <3>2, <4>1, <4>2
    <3> QED BY <3>1, <3>2
  <2> QED BY <2>1, <2>2 DEF IsChain
<1> QED BY <1>3, <1>7, <1>9, <1>10 DEF ChainOK

(* Pushing a block onto the chain.                                         *)
LEMMA ChainPush ==
  ASSUME NEW m, NEW n, NEW head, NEW F \in SUBSET Blocks, NEW p \in Blocks \ F,
         ChainOK(m, head, F), n[p] = head, \A b \in F : n[b] = m[b]
  PROVE  ChainOK(n, p, F \cup {p})
<1>1. PICK pos \in Injection(F, 1 .. Cardinality(F)) : IsChain(m, head, F, pos)
  BY DEF ChainOK
<1> DEFINE c == Cardinality(F)
           G == F \cup {p}
           longer == [b \in G |-> IF b = p THEN c + 1 ELSE pos[b]]
<1>2. IsFiniteSet(F) /\ c \in Nat
  BY BlocksFinite
<1>3. Cardinality(G) = c + 1
  BY <1>2, FS_AddElement
<1>4. pos \in [F -> 1 .. c] /\ \A a, b \in F : pos[a] = pos[b] => a = b
  BY <1>1 DEF Injection, IsInjective
<1>5. /\ IF head = Null THEN F = {} ELSE head \in F /\ pos[head] = c
      /\ \A b \in F : IF pos[b] = 1 THEN m[b] = Null ELSE m[b] \in F /\ pos[m[b]] = pos[b] - 1
  BY <1>1 DEF IsChain
<1>6. F = {} => c = 0
  BY FS_EmptySet
<1> HIDE DEF c
<1>7. longer \in Injection(G, 1 .. Cardinality(G))
  <2>1. longer \in [G -> 1 .. c + 1]
    BY <1>2, <1>4
  <2>2. \A a, b \in G : longer[a] = longer[b] => a = b
    BY <1>2, <1>4
  <2> QED BY <2>1, <2>2, <1>3, Fun_IsInj
<1>8. ASSUME NEW b \in G
      PROVE IF longer[b] = 1 THEN n[b] = Null ELSE n[b] \in G /\ longer[n[b]] = longer[b] - 1
  <2>1. CASE b = p
    <3>1. CASE head = Null
      BY <2>1, <3>1, <1>5, <1>6
    <3>2. CASE head # Null
      <4>1. head \in F /\ pos[head] = c /\ c \in 1 .. c
        BY <3>2, <1>4, <1>5
      <4> QED BY <4>1, <2>1, <1>2
    <3> QED BY <3>1, <3>2
  <2>2. CASE b \in F
    BY <2>2, <1>4, <1>5
  <2> QED BY <2>1, <2>2
<1>9. p # Null /\ p \in G /\ longer[p] = Cardinality(G)
  BY <1>3, PoolAssumption
<1> QED BY <1>7, <1>8, <1>9 DEF ChainOK, IsChain

(* Nothing is left of a chain that starts with Null.                       *)
LEMMA ChainNull ==
  ASSUME NEW m, NEW F, ChainOK(m, Null, F)
  PROVE  F = {}
BY DEF ChainOK, IsChain

(* An injective enumeration has as many elements as indices.               *)
LEMMA RangeCardinality ==
  ASSUME NEW k \in Nat, NEW S, NEW f \in [1 .. k -> S], IsInjective(f)
  PROVE  IsFiniteSet(Range(f)) /\ Cardinality(Range(f)) = k
<1>1. f \in Surjection(1 .. k, Range(f))
  BY Fun_RangeProperties
<1>2. f \in [1 .. k -> Range(f)]
  BY <1>1 DEF Surjection
<1>3. f \in Bijection(1 .. k, Range(f))
  BY <1>1, <1>2 DEF Bijection, Injection
<1>4. ExistsBijection(1 .. k, Range(f))
  BY <1>3 DEF ExistsBijection
<1> QED BY <1>4, FS_CountingElements, FS_NatBijection

(* Following the chain for k blocks from its head, as the drain loop of    *)
(* allocateBatch() does, yields k different blocks of it; what is left is  *)
(* a chain that starts where the walk stopped.                             *)
IsWalk(m, head, k, out, rest) ==
  /\ \A i \in 1 .. k : out[i] = IF i = 1 THEN head ELSE m[out[i-1]]
  /\ rest = IF k = 0 THEN head ELSE m[out[k]]

\* Following the links k times from the head yields k different blocks of the
\* chain, and what is left is a chain of the others (the drain loop of
\* allocateBatch).
LEMMA ChainDrain ==
  ASSUME NEW m, NEW head, NEW F \in SUBSET Blocks, ChainOK(m, head, F),
         NEW k \in Nat, NEW out \in [1 .. k -> Blocks], NEW rest,
         IsWalk(m, head, k, out, rest)
  PROVE  /\ IsInjective(out)
         /\ Range(out) \subseteq F
         /\ ChainOK(m, rest, F \ Range(out))
<1>1. PICK pos \in Injection(F, 1 .. Cardinality(F)) : IsChain(m, head, F, pos)
  BY DEF ChainOK
<1> DEFINE c == Cardinality(F)
           G == F \ Range(out)
<1>2. IsFiniteSet(F) /\ c \in Nat
  BY BlocksFinite
<1>3. pos \in [F -> 1 .. c] /\ \A a, b \in F : pos[a] = pos[b] => a = b
  BY <1>1 DEF Injection, IsInjective
<1>4. /\ IF head = Null THEN F = {} ELSE head \in F /\ pos[head] = c
      /\ \A b \in F : IF pos[b] = 1 THEN m[b] = Null ELSE m[b] \in F /\ pos[m[b]] = pos[b] - 1
  BY <1>1 DEF IsChain
<1>0. /\ \A i \in 1 .. k : out[i] = IF i = 1 THEN head ELSE m[out[i-1]]
      /\ rest = IF k = 0 THEN head ELSE m[out[k]]
  BY DEF IsWalk
<1>5. \A i \in 1 .. k : out[i] # Null
  BY PoolAssumption
<1>6. \A i \in 1 .. k : out[i] \in F /\ pos[out[i]] = c - i + 1
  <2> DEFINE bad == {i \in 1 .. k : ~ (out[i] \in F /\ pos[out[i]] = c - i + 1)}
  <2>1. SUFFICES ASSUME bad # {} PROVE FALSE
    OBVIOUS
  <2> HIDE DEF c
  <2>0. bad \in SUBSET Nat
    OBVIOUS
  <2> HIDE DEF bad
  <2>2. PICK i \in bad : \A j \in bad : i <= j
    BY <2>0, <2>1, LeastNatural
  <2> USE DEF bad
  <2>3. CASE i = 1
    BY <2>2, <2>3, <1>0, <1>2, <1>4, <1>5
  <2>4. CASE i # 1
    <3>1. i - 1 \in 1 .. k /\ i - 1 \notin bad
      BY <2>2, <2>4
    <3>2. out[i-1] \in F /\ pos[out[i-1]] = c - i + 2
      BY <3>1, <1>2
    <3>3. out[i] = m[out[i-1]] /\ out[i] # Null
      BY <2>4, <1>0, <1>5
    <3>4. out[i] \in F /\ pos[out[i]] = pos[out[i-1]] - 1
      BY <3>2, <3>3, <1>4
    <3> QED BY <3>2, <3>4, <1>2
  <2> QED BY <2>3, <2>4
<1> HIDE DEF c
<1>7. IsInjective(out)
  BY <1>2, <1>6 DEF IsInjective
<1>8. Range(out) \subseteq F
  BY <1>6 DEF Range
<1>9. Cardinality(G) = c - k
  <2>1. Cardinality(Range(out)) = k
    BY <1>7, RangeCardinality
  <2>2. F \cap Range(out) = Range(out)
    BY <1>8
  <2>3. Cardinality(G) = Cardinality(F) - Cardinality(F \cap Range(out))
    BY <1>2, FS_Difference
  <2> QED BY <2>1, <2>2, <2>3 DEF c
<1>10. \A b \in G : pos[b] \in 1 .. c - k
  <2>1. SUFFICES ASSUME NEW b \in G, pos[b] > c - k PROVE FALSE
    BY <1>2, <1>3
  <2>2. c - pos[b] + 1 \in 1 .. k
    BY <2>1, <1>2, <1>3
  <2>3. out[c - pos[b] + 1] \in F /\ pos[out[c - pos[b] + 1]] = pos[b]
    BY <2>2, <1>2, <1>3, <1>6
  <2>4. out[c - pos[b] + 1] = b
    BY <2>3, <1>3
  <2> QED BY <2>2, <2>4 DEF Range
<1>11. \A b \in F : pos[b] <= c - k => b \in G
  BY <1>2, <1>6 DEF Range
<1> DEFINE left == [b \in G |-> pos[b]]
<1>12. left \in Injection(G, 1 .. Cardinality(G))
  <2>1. left \in [G -> 1 .. Cardinality(G)]
    BY <1>9, <1>10
  <2>2. \A a, b \in G : left[a] = left[b] => a = b
    BY <1>3
  <2> QED BY <2>1, <2>2, Fun_IsInj
<1>13. IF rest = Null THEN G = {} ELSE rest \in G /\ left[rest] = c - k
  <2>1. CASE k = 0
    <3>1. Range(out) = {}
      BY <2>1 DEF Range
    <3> QED BY <2>1, <3>1, <1>0, <1>2, <1>4
  <2>2. CASE k # 0
    <3>1. out[k] \in F /\ pos[out[k]] = c - k + 1
      BY <2>2, <1>6
    <3>2. CASE c = k
      <4>1. rest = Null
        BY <2>2, <3>1, <3>2, <1>0, <1>4
      <4>2. G = {}
        BY <3>2, <1>2, <1>10
      <4> QED BY <4>1, <4>2
    <3>3. CASE c # k
      <4>0. pos[out[k]] # 1 /\ rest = m[out[k]]
        BY <2>2, <3>1, <3>3, <1>0, <1>2
      <4>1. rest \in F /\ pos[rest] = c - k
        BY <4>0, <3>1, <1>2, <1>4
      <4>2. rest # Null /\ rest \in G
        BY <4>1, <1>2, <1>11, PoolAssumption
      <4> QED BY <4>1, <4>2
    <3> QED BY <3>2, <3>3
  <2> QED BY <2>1, <2>2
<1>14. ASSUME NEW b \in G
       PROVE IF left[b] = 1 THEN m[b] = Null ELSE m[b] \in G /\ left[m[b]] = left[b] - 1
  <2>1. CASE pos[b] = 1
    BY <2>1, <1>4
  <2>2. CASE pos[b] # 1
    <3>1. m[b] \in F /\ pos[m[b]] = pos[b] - 1
      BY <2>2, <1>4
    <3>2. m[b] \in G
      BY <3>1, <1>2, <1>10, <1>11
    <3> QED BY <2>2, <3>1, <3>2
  <2> QED BY <2>1, <2>2
<1>15. IsChain(m, rest, G, left)
  BY <1>9, <1>13, <1>14 DEF IsChain
<1> QED BY <1>7, <1>8, <1>12, <1>15 DEF ChainOK

(* The positions of O before i, and how they grow with i.                  *)
Before(O, i) == {j \in O : j < i}

\* No position of a span comes before its first, and all come before its end.
LEMMA BeforeFirst ==
  ASSUME NEW len \in Nat, NEW O \in SUBSET (1 .. len)
  PROVE  Before(O, 1) = {} /\ Before(O, len + 1) = O
<1>1. \A j \in O : ~ (j < 1) /\ j < len + 1
  OBVIOUS
<1> QED BY <1>1 DEF Before

\* The positions before i + 1 are those before i, and i itself if it is one.
LEMMA BeforeNext ==
  ASSUME NEW len \in Nat, NEW O \in SUBSET (1 .. len), NEW l \in 1 .. len
  PROVE  /\ l \in O => /\ Before(O, l + 1) = Before(O, l) \cup {l}
                       /\ Max(Before(O, l + 1)) = l
         /\ l \notin O => Before(O, l + 1) = Before(O, l)
         /\ l \notin Before(O, l)
<1>1. \A j \in O : j < l + 1 <=> j < l \/ j = l
  OBVIOUS
<1>2. ASSUME l \in O PROVE Before(O, l + 1) = Before(O, l) \cup {l}
  BY <1>1, <1>2 DEF Before
<1>3. ASSUME l \in O PROVE Max(Before(O, l + 1)) = l
  <2>1. l \in Before(O, l + 1) /\ \A j \in Before(O, l + 1) : j \in Nat /\ l >= j
    BY <1>3 DEF Before
  <2> QED BY <2>1 DEF Max
<1>4. ASSUME l \notin O PROVE Before(O, l + 1) = Before(O, l)
  BY <1>1, <1>4 DEF Before
<1>5. l \notin Before(O, l)
  BY DEF Before
<1> QED BY <1>2, <1>3, <1>4, <1>5

LinkedAt(ptrs, O) == {ptrs[i] : i \in O}

(* Linking: the owned blocks of a span, the head hd[i] before each         *)
(* position, and the next pointer each block gets.                         *)
IsRelink(n, head, F, len, ptrs, O, hd) ==
  /\ \A i \in O : ptrs[i] \in Blocks \ F
  /\ \A i, j \in O : ptrs[i] = ptrs[j] => i = j
  /\ \A i \in 1 .. len + 1 :
       hd[i] = IF Before(O, i) = {} THEN head ELSE ptrs[Max(Before(O, i))]
  /\ \A i \in O : n[ptrs[i]] = hd[i]

(* Linking the blocks found at the positions O of a span one after the     *)
(* other onto the chain, as deallocateBatch() does, yields a chain of all  *)
(* of them.                                                                *)
LEMMA ChainReturn ==
  ASSUME NEW n, NEW head, NEW F \in SUBSET Blocks, ChainOK(n, head, F),
         NEW len \in Nat, NEW ptrs, NEW O \in SUBSET (1 .. len), NEW hd,
         IsRelink(n, head, F, len, ptrs, O, hd)
  PROVE  ChainOK(n, hd[len + 1], F \cup LinkedAt(ptrs, O))
<1> USE DEF IsRelink, LinkedAt
<1> DEFINE upTo(l) == F \cup {ptrs[i] : i \in Before(O, l + 1)}
           bad     == {l \in 0 .. len : ~ ChainOK(n, hd[l + 1], upTo(l))}
<1>1. 0 \notin bad
  <2>1. Before(O, 0 + 1) = {}
    BY BeforeFirst
  <2>2. upTo(0) = F
    BY <2>1
  <2>3. hd[0 + 1] = head
    BY <2>1
  <2> HIDE DEF upTo
  <2> QED BY <2>2, <2>3
<1>2. bad = {}
  <2>1. SUFFICES ASSUME bad # {} PROVE FALSE
    OBVIOUS
  <2>2. bad \in SUBSET Nat
    OBVIOUS
  <2> HIDE DEF bad
  <2>3. PICK l \in bad : \A j \in bad : l <= j
    BY <2>1, <2>2, LeastNatural
  <2>4. l \in 1 .. len
    <3>1. l \in 0 .. len
      BY DEF bad
    <3> QED BY <3>1, <1>1
  <2>5. ChainOK(n, hd[l], upTo(l - 1)) /\ (l - 1) + 1 = l
    <3> HIDE DEF upTo
    <3>1. l - 1 \in 0 .. len /\ l - 1 \notin bad /\ (l - 1) + 1 = l
      BY <2>3, <2>4
    <3> QED BY <3>1 DEF bad
  <2>6. ChainOK(n, hd[l + 1], upTo(l))
    <3>1. CASE l \in O
      <4>1. Before(O, l + 1) = Before(O, l) \cup {l} /\ Max(Before(O, l + 1)) = l
        BY <3>1, <2>4, BeforeNext
      <4>2. hd[l + 1] = ptrs[l]
        BY <4>1, <2>4
      <4>3. upTo(l) = upTo(l - 1) \cup {ptrs[l]}
        BY <4>1, <2>5
      <4>4. l \notin Before(O, l) /\ Before(O, l) \subseteq O
        BY <2>4, BeforeNext DEF Before
      <4>5. ptrs[l] \in Blocks \ upTo(l - 1)
        <5>1. ptrs[l] \in Blocks /\ ptrs[l] \notin F
          BY <3>1
        <5>2. \A i \in Before(O, l) : ptrs[i] # ptrs[l]
          BY <3>1, <4>4
        <5>3. upTo(l - 1) = F \cup {ptrs[i] : i \in Before(O, l)}
          BY <2>5
        <5> HIDE DEF upTo
        <5> QED BY <5>1, <5>2, <5>3
      <4>6. n[ptrs[l]] = hd[l]
        BY <3>1
      <4>7. upTo(l - 1) \in SUBSET Blocks
        <5>1. \A i \in Before(O, (l - 1) + 1) : ptrs[i] \in Blocks
          BY <4>4, <2>5
        <5> QED BY <5>1
      <4> HIDE DEF upTo
      <4>8. ChainOK(n, ptrs[l], upTo(l - 1) \cup {ptrs[l]})
        BY <2>5, <4>5, <4>6, <4>7, ChainPush
      <4> QED BY <4>2, <4>3, <4>8
    <3>2. CASE l \notin O
      <4>1. Before(O, l + 1) = Before(O, l)
        BY <3>2, <2>4, BeforeNext
      <4>2. hd[l + 1] = hd[l]
        BY <4>1, <2>4
      <4>3. upTo(l) = upTo(l - 1)
        BY <4>1, <2>5
      <4> QED BY <4>2, <4>3, <2>5
    <3> QED BY <3>1, <3>2
  <2> QED BY <2>3, <2>4, <2>6 DEF bad
<1>3. upTo(len) = F \cup {ptrs[i] : i \in O}
  BY BeforeFirst
<1>4. ChainOK(n, hd[len + 1], upTo(len))
  <2> HIDE DEF upTo
  <2>1. len \in 0 .. len
    OBVIOUS
  <2> QED BY <2>1, <1>2
<1> QED BY <1>3, <1>4

---------------------------------------------------------------------------
(* The inductive invariant.                                                *)

(* The inductive invariant: the types rest on the free list (its head is   *)
(* loaded from memory) and on the counter, neither of which is inductive   *)
(* without the other.                                                      *)
IInv == TypeOK /\ FreeListOK /\ CountsOK

\* A counter stays within its width.
LEMMA PlusType ==
  ASSUME NEW x \in 0 .. SizeMod - 1, NEW c \in Nat
  PROVE  Plus(x, c) \in 0 .. SizeMod - 1
<1>1. SizeMod \in Nat \ {0} /\ x + c \in Int
  BY PoolAssumption
<1> QED BY <1>1 DEF Plus

StatsType ==
  [totalAllocated : 0 .. SizeMod - 1, peakUsed : 0 .. BlockCount,
   allocations : 0 .. SizeMod - 1, deallocations : 0 .. SizeMod - 1]

\* statAlloc() keeps the counters in their types.
LEMMA StatAllocType ==
  ASSUME TypeOK, NEW u \in 0 .. BlockCount, NEW c \in Nat, StatAlloc(u, c)
  PROVE  stats' \in StatsType
<1>1. stats \in StatsType
  BY DEF TypeOK, StatsType
<1>2. Plus(stats.totalAllocated, c) \in 0 .. SizeMod - 1 /\ Plus(stats.allocations, c) \in 0 .. SizeMod - 1
  BY <1>1, PlusType DEF StatsType
<1> QED BY <1>1, <1>2 DEF StatsType, StatAlloc

\* statDealloc() keeps the counters in their types.
LEMMA StatDeallocType ==
  ASSUME TypeOK, NEW c \in Nat, StatDealloc(c)
  PROVE  stats' \in StatsType
<1>1. stats \in StatsType
  BY DEF TypeOK, StatsType
<1>2. Plus(stats.deallocations, c) \in 0 .. SizeMod - 1
  BY <1>1, PlusType DEF StatsType
<1> QED BY <1>1, <1>2 DEF StatsType, StatDealloc

(* What the invariant says of the freed blocks, and the counter's range.   *)
LEMMA FreedFacts ==
  ASSUME IInv
  PROVE  /\ FreedBlocks \in SUBSET Blocks
         /\ held \in SUBSET Blocks /\ IsFiniteSet(held) /\ Cardinality(held) \in Nat
         /\ Cardinality(held) <= watermark
         /\ freeBlockCount = BlockCount - Cardinality(held)
         /\ freeList = Null => FreedBlocks = {}
<1>1. FreedBlocks \in SUBSET Blocks
  BY PoolAssumption DEF IInv, TypeOK, FreedBlocks, Blocks
<1>2. held \in SUBSET Blocks /\ IsFiniteSet(held) /\ Cardinality(held) \in Nat
  BY BlocksFinite DEF IInv, TypeOK
<1>3. Cardinality(held) <= watermark
  <2>0. watermark \in Nat
    BY PoolAssumption DEF IInv, TypeOK
  <2>1. IsFiniteSet(0 .. watermark - 1) /\ Cardinality(0 .. watermark - 1) = watermark
    <3>1. 0 \in Int /\ watermark - 1 \in Int /\ (0 > watermark - 1 <=> watermark = 0)
      BY <2>0
    <3> QED BY <2>0, <3>1, FS_Interval
  <2> QED BY <2>1, FS_Subset DEF IInv, FreeListOK
<1>4. freeBlockCount = BlockCount - Cardinality(held)
  BY <1>2, PoolAssumption DEF IInv, TypeOK, CountsOK, UsedBlocks
<1>5. freeList = Null => FreedBlocks = {}
  BY ChainNull DEF IInv, FreeListOK
<1> QED BY <1>1, <1>2, <1>3, <1>4, <1>5

(* A set of blocks that leaves the rest of the invariant's counting in     *)
(* step: the counter is the number of blocks not held.                     *)
LEMMA CountsFromHeld ==
  ASSUME NEW S \in SUBSET Blocks, NEW c, c = BlockCount - Cardinality(S)
  PROVE  c \in 0 .. BlockCount /\ UsedBlocks(c) = Cardinality(S) /\ UsedBlocks(c) \in 0 .. BlockCount
BY BlocksFinite, FS_Subset, PoolAssumption DEF UsedBlocks

---------------------------------------------------------------------------
(* allocate()                                                              *)

LEMMA AcquireFacts ==
  ASSUME IInv, NEW b \in Blocks, AcquireBlock(b)
  PROVE  /\ b \notin held
         /\ freeList' \in Blocks \cup {Null}
         /\ watermark' \in 0 .. BlockCount
         /\ held \cup {b} \subseteq 0 .. watermark' - 1
         /\ ChainOK(mem, freeList', (0 .. watermark' - 1) \ (held \cup {b}))
<1>1. CASE PopFreeList(b)
  <2>1. b \in FreedBlocks /\ mem[b] \in (FreedBlocks \ {b}) \cup {Null}
        /\ ChainOK(mem, mem[b], FreedBlocks \ {b})
    BY <1>1, FreedFacts, ChainPop DEF IInv, FreeListOK, PopFreeList
  <2>2. FreedBlocks \ {b} = (0 .. watermark' - 1) \ (held \cup {b})
    BY <1>1 DEF PopFreeList, FreedBlocks
  <2> QED BY <1>1, <2>1, <2>2, FreedFacts DEF PopFreeList, IInv, TypeOK, FreeListOK, FreedBlocks
<1>2. CASE BumpWatermark(b)
  <2>1. (0 .. watermark' - 1) \ (held \cup {b}) = FreedBlocks
    BY <1>2 DEF BumpWatermark, FreedBlocks, IInv, TypeOK
  <2>2. b \notin held
    BY <1>2 DEF BumpWatermark, IInv, TypeOK, FreeListOK
  <2>3. held \cup {b} \subseteq 0 .. watermark' - 1
    BY <1>2 DEF BumpWatermark, IInv, TypeOK, FreeListOK
  <2>4. watermark' \in 0 .. BlockCount
    BY <1>2, PoolAssumption DEF BumpWatermark, IInv, TypeOK
  <2> QED BY <1>2, <2>1, <2>2, <2>3, <2>4 DEF BumpWatermark, IInv, TypeOK, FreeListOK
<1> QED BY <1>1, <1>2 DEF AcquireBlock

\* allocate() keeps the invariant.
LEMMA AllocatePreserves ==
  ASSUME IInv, Allocate
  PROVE  IInv'
<1>1. CASE Exhausted /\ ret' = <<>> /\ UNCHANGED <<arena, stats, held>>
  BY <1>1 DEF IInv, TypeOK, FreeListOK, FreedBlocks, CountsOK, arena
<1>2. ASSUME NEW b \in Blocks, AcquireBlock(b), StatAlloc(UsedBlocks(freeBlockCount'), 1),
             held' = held \cup {b}, ret' = <<b>>
      PROVE  IInv'
  <2>1. b \notin held /\ freeList' \in Blocks \cup {Null} /\ watermark' \in 0 .. BlockCount
        /\ held' \subseteq 0 .. watermark' - 1
        /\ ChainOK(mem, freeList', FreedBlocks')
    BY <1>2, AcquireFacts DEF FreedBlocks
  <2>2. held' \in SUBSET Blocks /\ Cardinality(held') = Cardinality(held) + 1
    BY <1>2, <2>1, FreedFacts, FS_AddElement
  <2>3. freeBlockCount' = BlockCount - Cardinality(held')
    BY <1>2, <2>2, FreedFacts, PoolAssumption DEF AcquireBlock
  <2>4. freeBlockCount' \in 0 .. BlockCount /\ UsedBlocks(freeBlockCount') = Cardinality(held')
        /\ UsedBlocks(freeBlockCount') \in 0 .. BlockCount
    BY <2>2, <2>3, CountsFromHeld
  <2>6. TypeOK'
    <3>1. stats' \in StatsType
      BY <1>2, <2>4, StatAllocType DEF IInv
    <3>2. mem' = mem /\ mem \in [Blocks -> Words]
      BY <1>2 DEF AcquireBlock, PopFreeList, BumpWatermark, IInv, TypeOK
    <3>3. ret' \in Seq(Blocks)
      BY <1>2
    <3> QED BY <2>1, <2>2, <2>4, <3>1, <3>2, <3>3 DEF TypeOK, StatsType
  <2>7. FreeListOK'
    BY <1>2, <2>1 DEF FreeListOK, AcquireBlock
  <2> QED BY <2>4, <2>6, <2>7 DEF IInv, CountsOK
<1> QED BY <1>1, <1>2 DEF Allocate

---------------------------------------------------------------------------
(* deallocate()                                                            *)

LEMMA DeallocatePreserves ==
  ASSUME IInv, NEW p \in held \cup {Null} \cup Foreign, Deallocate(p)
  PROVE  IInv'
<1>1. CASE DeallocateForeign(p)
  BY <1>1 DEF DeallocateForeign, IInv, TypeOK, FreeListOK, FreedBlocks, CountsOK, arena
<1>2. CASE DeallocateOwned(p)
  <2>1. p \in held /\ p \in Blocks /\ p \in 0 .. watermark - 1
    BY <1>2, PoolAssumption DEF DeallocateOwned, Owns, IInv, FreeListOK
  <2>2. mem' = [mem EXCEPT ![p] = freeList] /\ freeList' = p /\ watermark' = watermark
        /\ freeBlockCount' = freeBlockCount + 1 /\ held' = held \ {p} /\ ret' = <<>> /\ StatDealloc(1)
    BY <1>2 DEF DeallocateOwned, ReleaseBlock
  <2>3. held' \in SUBSET Blocks /\ Cardinality(held') = Cardinality(held) - 1
    BY <2>1, <2>2, FreedFacts, FS_RemoveElement
  <2>4. freeBlockCount' = BlockCount - Cardinality(held')
    BY <2>2, <2>3, FreedFacts, PoolAssumption
  <2>5. freeBlockCount' \in 0 .. BlockCount /\ UsedBlocks(freeBlockCount') = Cardinality(held')
    BY <2>3, <2>4, CountsFromHeld
  <2>6. TypeOK'
    <3>1. mem' \in [Blocks -> Words]
      BY <2>1, <2>2 DEF IInv, TypeOK, Words
    <3>2. stats' \in StatsType
      BY <2>2, StatDeallocType DEF IInv
    <3>3. watermark' \in 0 .. BlockCount
      BY <2>2 DEF IInv, TypeOK
    <3>4. ret' \in Seq(Blocks)
      BY <2>2
    <3> QED BY <2>1, <2>2, <2>3, <2>5, <3>1, <3>2, <3>3, <3>4 DEF TypeOK, StatsType
  <2>7. FreeListOK'
    <3>1. FreedBlocks' = FreedBlocks \cup {p} /\ p \in Blocks \ FreedBlocks
      BY <2>1, <2>2 DEF FreedBlocks
    <3>2. mem'[p] = freeList /\ \A b \in FreedBlocks : mem'[b] = mem[b]
      BY <2>1, <2>2, <3>1, FreedFacts DEF IInv, TypeOK
    <3>3. ChainOK(mem', p, FreedBlocks \cup {p})
      BY <3>1, <3>2, FreedFacts, ChainPush DEF IInv, FreeListOK
    <3> QED BY <2>2, <3>1, <3>3 DEF IInv, FreeListOK
  <2> QED BY <2>5, <2>6, <2>7 DEF IInv, CountsOK
<1> QED BY <1>1, <1>2 DEF Deallocate

---------------------------------------------------------------------------
(* allocateBatch()                                                         *)

LEMMA BatchFacts ==
  ASSUME IInv, NEW requested \in Nat, NEW k \in 0 .. requested, NEW out \in [1 .. k -> Blocks],
         NEW rest \in Blocks \cup {Null}, Drained(out, rest, requested)
  PROVE  /\ TakeVirgin(k, requested) \in 0 .. BlockCount - watermark
         /\ TakeVirgin(k, requested) > 0 => rest = Null
         /\ IsInjective(out) /\ Range(out) \subseteq FreedBlocks
         /\ ChainOK(mem, rest, FreedBlocks \ Range(out))
<1>0. k \in Nat /\ requested - k \in Nat /\ watermark \in Nat /\ BlockCount - watermark \in Nat
  BY PoolAssumption DEF IInv, TypeOK
<1>1. out \in Seq(Blocks) /\ Len(out) = k /\ DOMAIN out = 1 .. k /\ (out = <<>> <=> k = 0)
  BY <1>0
<1>2. /\ \A i \in 1 .. k : out[i] = IF i = 1 THEN freeList ELSE mem[out[i-1]]
      /\ rest = IF k = 0 THEN freeList ELSE mem[out[k]]
      /\ k = requested \/ rest = Null
  BY <1>1 DEF Drained
<1>3. TakeVirgin(k, requested) \in 0 .. BlockCount - watermark
      /\ (TakeVirgin(k, requested) > 0 => k # requested)
  BY <1>0 DEF TakeVirgin
<1>4. IsInjective(out) /\ Range(out) \subseteq FreedBlocks /\ ChainOK(mem, rest, FreedBlocks \ Range(out))
  <2>1. FreedBlocks \in SUBSET Blocks /\ ChainOK(mem, freeList, FreedBlocks)
    BY FreedFacts DEF IInv, FreeListOK
  <2>2. IsWalk(mem, freeList, k, out, rest)
    BY <1>2 DEF IsWalk
  <2> QED BY <1>0, <2>1, <2>2, ChainDrain
<1> QED BY <1>2, <1>3, <1>4

(* What the span holds afterwards: the drained blocks, then virgin ones.   *)
IsSpan(issued, k, out, mark, take) ==
  /\ issued = [i \in DOMAIN issued |-> issued[i]] /\ DOMAIN issued = 1 .. k + take
  /\ \A i \in 1 .. k : issued[i] = out[i]
  /\ \A i \in k + 1 .. k + take : issued[i] = mark + (i - k - 1)

\* What a batch hands out, in terms of the drained blocks and the watermark.
LEMMA IssuedFacts ==
  ASSUME NEW k \in Nat, NEW out \in [1 .. k -> Blocks], NEW mark \in Nat, NEW take \in Nat,
         mark + take <= BlockCount,
         IsInjective(out), Range(out) \subseteq 0 .. mark - 1,
         NEW issued, IsSpan(issued, k, out, mark, take)
  PROVE  /\ issued \in [1 .. k + take -> Blocks]
         /\ IsInjective(issued)
         /\ Range(issued) = Range(out) \cup (mark .. mark + take - 1)
<1>0. issued = [i \in DOMAIN issued |-> issued[i]] /\ DOMAIN issued = 1 .. k + take
  BY DEF IsSpan
<1>1. \A i \in 1 .. k : out[i] \in 0 .. mark - 1 /\ i \in 1 .. k + take /\ issued[i] = out[i]
  BY DEF Range, IsSpan
<1>2. \A i \in k + 1 .. k + take : i \in 1 .. k + take /\ issued[i] = mark + (i - k - 1)
  BY DEF IsSpan
<1>3. \A i \in 1 .. k + take : i \in 1 .. k \/ i \in k + 1 .. k + take
  OBVIOUS
<1>4. issued \in [1 .. k + take -> Blocks]
  <2>1. \A i \in k + 1 .. k + take : mark + (i - k - 1) \in Blocks
    BY PoolAssumption DEF Blocks
  <2>2. \A i \in 1 .. k + take : issued[i] \in Blocks
    BY <2>1, <1>1, <1>2, <1>3
  <2> QED BY <2>2, <1>0
<1>5. IsInjective(issued)
  <2>1. \A i, j \in 1 .. k + take : issued[i] = issued[j] => i = j
    <3> SUFFICES ASSUME NEW i \in 1 .. k + take, NEW j \in 1 .. k + take, issued[i] = issued[j]
                 PROVE  i = j
      OBVIOUS
    <3>1. CASE i \in 1 .. k /\ j \in 1 .. k
      BY <3>1, <1>1 DEF IsInjective
    <3>2. CASE i \in k + 1 .. k + take /\ j \in k + 1 .. k + take
      BY <3>2, <1>2
    <3>3. CASE i \in 1 .. k /\ j \in k + 1 .. k + take
      <4>1. issued[i] < mark
        BY <3>3, <1>1
      <4>2. issued[j] >= mark
        BY <3>3, <1>2
      <4>3. issued[i] \in Int
        BY <3>3, <1>1
      <4> QED BY <4>1, <4>2, <4>3
    <3>4. CASE i \in k + 1 .. k + take /\ j \in 1 .. k
      <4>1. issued[j] < mark
        BY <3>4, <1>1
      <4>2. issued[i] >= mark
        BY <3>4, <1>2
      <4>3. issued[j] \in Int
        BY <3>4, <1>1
      <4> QED BY <4>1, <4>2, <4>3
    <3> QED BY <3>1, <3>2, <3>3, <3>4, <1>3
  <2> QED BY <2>1, <1>0 DEF IsInjective
<1>6. Range(issued) = Range(out) \cup (mark .. mark + take - 1)
  <2>1. ASSUME NEW i \in 1 .. k + take
        PROVE issued[i] \in Range(out) \cup (mark .. mark + take - 1)
    <3>1. CASE i \in 1 .. k
      BY <3>1, <1>1 DEF Range
    <3>2. CASE i \in k + 1 .. k + take
      BY <3>2, <1>2
    <3> QED BY <3>1, <3>2, <1>3
  <2>2. ASSUME NEW b \in Range(out) PROVE b \in Range(issued)
    BY <1>0, <1>1 DEF Range
  <2>3. ASSUME NEW b \in mark .. mark + take - 1 PROVE b \in Range(issued)
    <3>1. b - mark + k + 1 \in k + 1 .. k + take
      OBVIOUS
    <3>2. issued[b - mark + k + 1] = b
      BY <3>1, <1>2
    <3> QED BY <3>1, <3>2, <1>0, <1>2 DEF Range
  <2> QED BY <2>1, <2>2, <2>3, <1>0 DEF Range
<1> QED BY <1>4, <1>5, <1>6

\* What allocateBatch() does to the blocks, the list and the counts.
LEMMA AllocateBatchFacts ==
  ASSUME IInv, NEW requested \in Nat, AllocateBatch(requested)
  PROVE  \E k \in Nat, take \in Nat :
           /\ k + take <= requested
           /\ k + take = requested \/ (freeList' = Null /\ watermark' = BlockCount)
           /\ ret' \in [1 .. k + take -> Blocks] /\ IsInjective(ret')
           /\ Range(ret') \cap held = {}
           /\ held' = held \cup Range(ret')
           /\ Cardinality(held') = Cardinality(held) + k + take
           /\ held' \subseteq 0 .. watermark' - 1
           /\ watermark' = watermark + take /\ watermark' \in 0 .. BlockCount
           /\ take > 0 => freeList' = Null
           /\ freeList' \in Blocks \cup {Null}
           /\ ChainOK(mem, freeList', FreedBlocks')
           /\ mem' = mem
           /\ freeBlockCount' = freeBlockCount - (k + take)
           /\ IF k + take > 0 THEN StatAlloc(UsedBlocks(freeBlockCount'), k + take)
                              ELSE stats' = stats
<1>0. PICK k \in 0 .. requested :
      \E out \in [1 .. k -> Blocks], rest \in Blocks \cup {Null} :
        /\ Drained(out, rest, requested)
        /\ ret' = [i \in 1 .. k + TakeVirgin(k, requested) |->
                     IF i <= k THEN out[i] ELSE watermark + (i - k - 1)]
        /\ freeList' = rest
        /\ watermark' = watermark + TakeVirgin(k, requested)
        /\ freeBlockCount' = freeBlockCount - (k + TakeVirgin(k, requested))
        /\ IF k + TakeVirgin(k, requested) > 0
             THEN StatAlloc(UsedBlocks(freeBlockCount'), k + TakeVirgin(k, requested))
             ELSE stats' = stats
        /\ held' = held \cup Range(ret')
        /\ mem' = mem
  BY DEF AllocateBatch
<1>1. PICK out \in [1 .. k -> Blocks], rest \in Blocks \cup {Null} :
        /\ Drained(out, rest, requested)
        /\ ret' = [i \in 1 .. k + TakeVirgin(k, requested) |->
                     IF i <= k THEN out[i] ELSE watermark + (i - k - 1)]
        /\ freeList' = rest
        /\ watermark' = watermark + TakeVirgin(k, requested)
        /\ freeBlockCount' = freeBlockCount - (k + TakeVirgin(k, requested))
        /\ IF k + TakeVirgin(k, requested) > 0
             THEN StatAlloc(UsedBlocks(freeBlockCount'), k + TakeVirgin(k, requested))
             ELSE stats' = stats
        /\ held' = held \cup Range(ret')
        /\ mem' = mem
  BY <1>0
<1> DEFINE take == TakeVirgin(k, requested)
<1>2. k \in Nat /\ watermark \in Nat /\ BlockCount \in Nat /\ watermark <= BlockCount
  BY PoolAssumption DEF IInv, TypeOK
<1>3. /\ take \in 0 .. BlockCount - watermark
      /\ take > 0 => rest = Null
      /\ IsInjective(out) /\ Range(out) \subseteq FreedBlocks
      /\ ChainOK(mem, rest, FreedBlocks \ Range(out))
  BY <1>1, BatchFacts
<1>4. k + take <= requested /\ (k + take = requested \/ (rest = Null /\ watermark' = BlockCount))
  <2>1. k = requested \/ rest = Null
    <3>1. out \in Seq(Blocks) /\ Len(out) = k
      BY <1>2
    <3> QED BY <3>1, <1>1 DEF Drained
  <2>2. k + take <= requested /\ (k + take = requested \/ take = BlockCount - watermark)
    BY <1>2 DEF TakeVirgin
  <2>3. watermark' = watermark + take /\ take \in Nat
    BY <1>1, <1>2, <1>3
  <2> HIDE DEF take
  <2>4. CASE k = requested
    BY <2>2, <2>3, <2>4, <1>2
  <2>5. CASE k # requested
    BY <2>1, <2>2, <2>3, <2>5, <1>2
  <2> QED BY <2>4, <2>5
<1> HIDE DEF take
<1>5. take \in Nat /\ watermark + take <= BlockCount
  BY <1>2, <1>3
<1>6. Range(out) \subseteq 0 .. watermark - 1
  BY <1>3 DEF FreedBlocks
<1>7. /\ ret' \in [1 .. k + take -> Blocks]
      /\ IsInjective(ret')
      /\ Range(ret') = Range(out) \cup (watermark .. watermark + take - 1)
  <2>0. ret' = [i \in 1 .. k + take |-> IF i <= k THEN out[i] ELSE watermark + (i - k - 1)]
    BY <1>1 DEF take
  <2>1. IsSpan(ret', k, out, watermark, take)
    BY <2>0, <1>2, <1>5 DEF IsSpan
  <2>2. IsInjective(out)
    BY <1>3
  <2> QED BY <2>1, <2>2, <1>2, <1>5, <1>6, IssuedFacts
<1>8. Range(ret') \cap held = {}
  <2>1. Range(out) \cap held = {}
    BY <1>3 DEF FreedBlocks
  <2>2. \A b \in watermark .. watermark + take - 1 : b \notin held
    BY <1>2 DEF IInv, FreeListOK
  <2> QED BY <2>1, <2>2, <1>7
<1>9. held' = held \cup Range(ret') /\ watermark' = watermark + take
  BY <1>1 DEF take
<1>10. Cardinality(held') = Cardinality(held) + k + take
  <2>1. IsFiniteSet(Range(ret')) /\ Cardinality(Range(ret')) = k + take
    <3>1. k + take \in Nat
      BY <1>2, <1>5
    <3> QED BY <3>1, <1>7, RangeCardinality
  <2>2. Cardinality(held \cup Range(ret'))
          = Cardinality(held) + Cardinality(Range(ret')) - Cardinality(held \cap Range(ret'))
    BY <2>1, FreedFacts, FS_Union
  <2>3. Cardinality(held \cap Range(ret')) = 0
    BY <1>8, FS_EmptySet
  <2> QED BY <2>1, <2>2, <2>3, <1>2, <1>5, <1>9, FreedFacts
<1>11. held' \subseteq 0 .. watermark' - 1
  <2>1. held \subseteq 0 .. watermark' - 1
    BY <1>2, <1>5, <1>9 DEF IInv, FreeListOK
  <2>2. Range(out) \subseteq 0 .. watermark' - 1
    BY <1>2, <1>5, <1>6, <1>9
  <2>3. watermark .. watermark + take - 1 \subseteq 0 .. watermark' - 1
    BY <1>2, <1>5, <1>9
  <2> QED BY <2>1, <2>2, <2>3, <1>7, <1>9
<1>12. FreedBlocks' = FreedBlocks \ Range(out)
  <2>1. \A b : b \in 0 .. watermark' - 1 <=> b \in 0 .. watermark - 1 \/ b \in watermark .. watermark + take - 1
    BY <1>2, <1>5, <1>9
  <2>2. \A b : b \in held' <=> b \in held \/ b \in Range(out) \/ b \in watermark .. watermark + take - 1
    BY <1>7, <1>9
  <2>3. \A b \in FreedBlocks : b \notin watermark .. watermark + take - 1
    BY <1>2 DEF FreedBlocks
  <2> QED BY <2>1, <2>2, <2>3 DEF FreedBlocks
<1>13. ChainOK(mem, freeList', FreedBlocks')
  BY <1>1, <1>3, <1>12
<1>14. watermark' \in 0 .. BlockCount
  BY <1>2, <1>5, <1>9
<1>15. /\ freeBlockCount' = freeBlockCount - (k + take)
       /\ IF k + take > 0 THEN StatAlloc(UsedBlocks(freeBlockCount'), k + take) ELSE stats' = stats
       /\ mem' = mem /\ freeList' = rest
  BY <1>1 DEF take
<1> QED BY <1>2, <1>3, <1>4, <1>5, <1>7, <1>8, <1>9, <1>10, <1>11, <1>13, <1>14, <1>15

\* allocateBatch() keeps the invariant.
LEMMA AllocateBatchPreserves ==
  ASSUME IInv, NEW requested \in 0 .. MaxBatch, AllocateBatch(requested)
  PROVE  IInv'
<1>0. requested \in Nat
  BY PoolAssumption
<1>1. PICK k \in Nat, take \in Nat :
        /\ ret' \in [1 .. k + take -> Blocks]
        /\ held' = held \cup Range(ret')
        /\ Cardinality(held') = Cardinality(held) + k + take
        /\ held' \subseteq 0 .. watermark' - 1
        /\ watermark' \in 0 .. BlockCount
        /\ freeList' \in Blocks \cup {Null}
        /\ ChainOK(mem, freeList', FreedBlocks')
        /\ mem' = mem
        /\ freeBlockCount' = freeBlockCount - (k + take)
        /\ IF k + take > 0 THEN StatAlloc(UsedBlocks(freeBlockCount'), k + take)
                           ELSE stats' = stats
  BY <1>0, AllocateBatchFacts
<1>2. ret' \in Seq(Blocks)
  BY <1>1
<1>3. held' \in SUBSET Blocks
  BY <1>1, FreedFacts DEF Range
<1>4. freeBlockCount' = BlockCount - Cardinality(held')
  BY <1>1, FreedFacts, PoolAssumption
<1>5. freeBlockCount' \in 0 .. BlockCount /\ UsedBlocks(freeBlockCount') = Cardinality(held')
      /\ UsedBlocks(freeBlockCount') \in 0 .. BlockCount
  BY <1>3, <1>4, CountsFromHeld
<1>6. stats' \in StatsType
  <2>1. stats \in StatsType
    BY DEF IInv, TypeOK, StatsType
  <2> QED BY <2>1, <1>1, <1>5, StatAllocType DEF IInv
<1>7. TypeOK'
  BY <1>1, <1>2, <1>3, <1>5, <1>6 DEF IInv, TypeOK, StatsType
<1>8. FreeListOK'
  BY <1>1 DEF FreeListOK
<1> QED BY <1>5, <1>7, <1>8 DEF IInv, CountsOK

---------------------------------------------------------------------------
(* deallocateBatch()                                                       *)

(* Of a span a caller may pass, the positions the loop does not skip hold  *)
(* different blocks that the caller holds.                                 *)
LEMMA ReturnSpanFacts ==
  ASSUME IInv, NEW ptrs \in ReturnSpans
  PROVE  \E len \in Nat :
           /\ Len(ptrs) = len /\ DOMAIN ptrs = 1 .. len
           /\ OwnedAt(ptrs) \in SUBSET (1 .. len)
           /\ \A i \in OwnedAt(ptrs) : ptrs[i] \in held
           /\ \A i, j \in OwnedAt(ptrs) : ptrs[i] = ptrs[j] => i = j
           /\ Range(ptrs) \cap held = {ptrs[i] : i \in OwnedAt(ptrs)}
<1>1. PICK len \in 0 .. MaxBatch : ptrs \in [1 .. len -> held \cup {Null} \cup Foreign]
  BY DEF ReturnSpans
<1>2. \A i, j \in DOMAIN ptrs : i # j /\ ptrs[i] = ptrs[j] => ptrs[i] \notin held
  BY DEF ReturnSpans
<1>3. len \in Nat /\ DOMAIN ptrs = 1 .. len /\ Len(ptrs) = len
  BY <1>1, PoolAssumption
<1>4. held \subseteq Blocks
  BY DEF IInv, TypeOK
<1>5. \A i \in 1 .. len : i \in OwnedAt(ptrs) <=> ptrs[i] \in held
  BY <1>1, <1>3, <1>4, PoolAssumption DEF OwnedAt, Owns
<1>6. OwnedAt(ptrs) \subseteq 1 .. len
  BY <1>3 DEF OwnedAt
<1>7. Range(ptrs) \cap held = {ptrs[i] : i \in OwnedAt(ptrs)}
  BY <1>3, <1>5, <1>6 DEF Range
<1> QED BY <1>2, <1>3, <1>5, <1>6, <1>7

\* deallocateBatch() keeps the invariant.
LEMMA DeallocateBatchPreserves ==
  ASSUME IInv, NEW ptrs \in ReturnSpans, DeallocateBatch(ptrs)
  PROVE  IInv'
<1> DEFINE O == OwnedAt(ptrs)
           B == {ptrs[i] : i \in O}
           released == Cardinality(O)
<1>1. PICK len \in Nat :
        /\ Len(ptrs) = len /\ DOMAIN ptrs = 1 .. len
        /\ O \in SUBSET (1 .. len)
        /\ \A i \in O : ptrs[i] \in held
        /\ \A i, j \in O : ptrs[i] = ptrs[j] => i = j
        /\ Range(ptrs) \cap held = B
  BY ReturnSpanFacts
<1>2. /\ mem' = [b \in Blocks |->
                   IF \E i \in O : ptrs[i] = b
                     THEN HeadBefore(ptrs, Max({i \in O : ptrs[i] = b})) ELSE mem[b]]
      /\ freeList' = HeadBefore(ptrs, len + 1)
      /\ freeBlockCount' = freeBlockCount + released
      /\ IF released > 0 THEN StatDealloc(released) ELSE stats' = stats
      /\ held' = held \ Range(ptrs) /\ ret' = <<>> /\ watermark' = watermark
  BY <1>1 DEF DeallocateBatch, Released
<1> HIDE DEF O
<1>3. held' = held \ B /\ B \subseteq held
  <2>1. B \subseteq held
    BY <1>1
  <2>2. held' = held \ (Range(ptrs) \cap held)
    BY <1>2
  <2> QED BY <2>1, <2>2, <1>1
<1>4. released \in Nat /\ Cardinality(B) = released
  <2>1. IsFiniteSet(1 .. len)
    BY <1>1, FS_Interval
  <2>2. IsFiniteSet(O) /\ released \in Nat
    BY <1>1, <2>1, FS_Subset, FS_CardinalityType
  <2> DEFINE f == [i \in O |-> ptrs[i]]
  <2>3. f \in [O -> B] /\ (\A i, j \in O : f[i] = f[j] => i = j) /\ (\A b \in B : \E i \in O : f[i] = b)
    BY <1>1
  <2> HIDE DEF f, B
  <2>4. f \in Bijection(O, B)
    BY <2>3, Fun_IsBij
  <2>5. ExistsBijection(O, B)
    BY <2>4 DEF ExistsBijection
  <2> QED BY <2>2, <2>5, FS_Bijection
<1>5. held' \in SUBSET Blocks /\ Cardinality(held') = Cardinality(held) - released
  <2>1. held \cap B = B
    BY <1>3
  <2>2. Cardinality(held \ B) = Cardinality(held) - Cardinality(held \cap B)
    BY FreedFacts, FS_Difference
  <2> QED BY <2>1, <2>2, <1>3, <1>4, FreedFacts
<1>6. freeBlockCount' = BlockCount - Cardinality(held')
  BY <1>2, <1>4, <1>5, FreedFacts, PoolAssumption
<1>7. freeBlockCount' \in 0 .. BlockCount /\ UsedBlocks(freeBlockCount') = Cardinality(held')
  BY <1>5, <1>6, CountsFromHeld
<1>8. /\ \A i \in O : mem'[ptrs[i]] = HeadBefore(ptrs, i)
      /\ \A b \in Blocks \ B : mem'[b] = mem[b]
  <2>1. ASSUME NEW i \in O PROVE mem'[ptrs[i]] = HeadBefore(ptrs, i)
    <3>1. ptrs[i] \in Blocks
      BY <1>1, FreedFacts
    <3>2. {j \in O : ptrs[j] = ptrs[i]} = {i}
      BY <1>1
    <3>3. i \in Nat
      BY <1>1
    <3>4. Max({i}) = i
      BY <3>3 DEF Max
    <3> QED BY <1>2, <3>1, <3>2, <3>4
  <2>2. ASSUME NEW b \in Blocks \ B PROVE mem'[b] = mem[b]
    BY <1>2
  <2> QED BY <2>1, <2>2
<1> DEFINE hd == [i \in 1 .. len + 1 |-> HeadBefore(ptrs, i)]
<1>9. \A i \in 1 .. len + 1 :
        hd[i] = IF Before(O, i) = {} THEN freeList ELSE ptrs[Max(Before(O, i))]
  BY DEF HeadBefore, Before, O
<1>10. \A i \in O : mem'[ptrs[i]] = hd[i]
  <2>1. \A i \in O : i \in 1 .. len + 1
    BY <1>1
  <2> QED BY <2>1, <1>8
<1>11. freeList' = hd[len + 1]
  BY <1>2
<1> HIDE DEF hd
<1>12. FreedBlocks \cap B = {} /\ FreedBlocks' = FreedBlocks \cup B
  <2>1. held \subseteq 0 .. watermark - 1 /\ watermark' = watermark
    BY <1>2 DEF IInv, FreeListOK
  <2> QED BY <2>1, <1>3 DEF FreedBlocks
<1>13. ChainOK(mem', freeList', FreedBlocks')
  <2>1. ChainOK(mem', freeList, FreedBlocks)
    <3>1. \A b \in FreedBlocks : mem'[b] = mem[b]
      BY <1>8, <1>12, FreedFacts
    <3> QED BY <3>1, ChainFrame DEF IInv, FreeListOK
  <2>2. \A i \in O : ptrs[i] \in Blocks \ FreedBlocks
    BY <1>1, FreedFacts DEF FreedBlocks
  <2>3. /\ O \in SUBSET (1 .. len) /\ FreedBlocks \in SUBSET Blocks
        /\ \A i, j \in O : ptrs[i] = ptrs[j] => i = j
    BY <1>1, FreedFacts
  <2>4. ChainOK(mem', hd[len + 1], FreedBlocks \cup B)
    <3>1. IsRelink(mem', freeList, FreedBlocks, len, ptrs, O, hd)
      BY <2>2, <2>3, <1>9, <1>10 DEF IsRelink
    <3>2. FreedBlocks \in SUBSET Blocks /\ O \in SUBSET (1 .. len) /\ len \in Nat
      BY <2>3
    <3> HIDE DEF O
    <3>3. ChainOK(mem', hd[len + 1], FreedBlocks \cup LinkedAt(ptrs, O))
      BY <2>1, <3>1, <3>2, ChainReturn
    <3> QED BY <3>3 DEF LinkedAt
  <2> QED BY <2>4, <1>11, <1>12
<1>14. \A i \in 1 .. len + 1 : hd[i] \in Blocks \cup {Null}
  <2> SUFFICES ASSUME NEW i \in 1 .. len + 1 PROVE hd[i] \in Blocks \cup {Null}
    OBVIOUS
  <2>1. CASE Before(O, i) = {}
    BY <2>1, <1>9 DEF IInv, TypeOK
  <2>2. CASE Before(O, i) # {}
    <3>1. Before(O, i) \subseteq O /\ Before(O, i) \in SUBSET (1 .. len)
      BY <1>1 DEF Before
    <3>2. Max(Before(O, i)) \in Before(O, i)
      BY <2>2, <3>1, LargestPosition, <1>1
    <3> QED BY <2>2, <3>1, <3>2, <1>1, <1>9, FreedFacts
  <2> QED BY <2>1, <2>2
<1>15. TypeOK'
  <2>1. mem' \in [Blocks -> Words]
    <3>1. \A b \in B : mem'[b] \in Blocks \cup {Null}
      BY <1>1, <1>10, <1>14
    <3>2. \A b \in Blocks : mem'[b] \in Words
      BY <3>1, <1>8 DEF IInv, TypeOK, Words
    <3>3. mem' = [b \in Blocks |-> mem'[b]]
      BY <1>2
    <3> QED BY <3>2, <3>3
  <2>2. stats' \in StatsType
    <3>1. stats \in StatsType
      BY DEF IInv, TypeOK, StatsType
    <3> QED BY <3>1, <1>2, <1>4, StatDeallocType DEF IInv
  <2>3. freeList' \in Blocks \cup {Null}
    <3>1. len + 1 \in 1 .. len + 1
      OBVIOUS
    <3> QED BY <3>1, <1>11, <1>14
  <2>4. watermark' \in 0 .. BlockCount
    BY <1>2 DEF IInv, TypeOK
  <2>5. ret' \in Seq(Blocks)
    BY <1>2
  <2> QED BY <2>1, <2>2, <2>3, <2>4, <2>5, <1>5, <1>7 DEF TypeOK, StatsType
<1>16. FreeListOK'
  BY <1>2, <1>3, <1>13 DEF IInv, FreeListOK
<1> QED BY <1>7, <1>15, <1>16 DEF IInv, CountsOK

---------------------------------------------------------------------------
(* reset() and the callers' stores                                         *)

LEMMA ResetPreserves ==
  ASSUME IInv, Reset
  PROVE  IInv'
<1>1. /\ freeList' = Null /\ watermark' = 0 /\ freeBlockCount' = BlockCount /\ mem' = mem
      /\ held' = {} /\ ret' = <<>> /\ stats' = IF EnableStats THEN ZeroStats ELSE stats
  BY DEF Reset, InitializeFreeList
<1>2. TypeOK'
  <2>1. ZeroStats \in StatsType
    BY PoolAssumption DEF ZeroStats, StatsType
  <2> QED BY <1>1, <2>1, PoolAssumption DEF IInv, TypeOK, StatsType
<1>3. FreeListOK'
  <2>1. FreedBlocks' = {}
    BY <1>1 DEF FreedBlocks
  <2> QED BY <1>1, <2>1, ChainEmpty DEF FreeListOK
<1>4. CountsOK'
  BY <1>1, FS_EmptySet, PoolAssumption DEF CountsOK, UsedBlocks
<1> QED BY <1>2, <1>3, <1>4 DEF IInv

\* A caller's store into a block it holds keeps the invariant: no held block
\* is linked.
LEMMA CallerWritePreserves ==
  ASSUME IInv, NEW b \in held, NEW w \in Words, CallerWrite(b, w)
  PROVE  IInv'
<1>1. /\ mem' = [mem EXCEPT ![b] = w] /\ ret' = <<>> /\ stats' = stats
      /\ freeList' = freeList /\ watermark' = watermark
      /\ freeBlockCount' = freeBlockCount /\ held' = held
  BY DEF CallerWrite
<1>2. TypeOK'
  BY <1>1 DEF IInv, TypeOK
<1>3. FreeListOK'
  <2>1. FreedBlocks' = FreedBlocks /\ \A c \in FreedBlocks : mem'[c] = mem[c]
    BY <1>1, FreedFacts DEF FreedBlocks, IInv, TypeOK
  <2>2. ChainOK(mem', freeList, FreedBlocks)
    BY <2>1, ChainFrame DEF IInv, FreeListOK
  <2> QED BY <1>1, <2>1, <2>2 DEF IInv, FreeListOK
<1>4. CountsOK'
  BY <1>1 DEF IInv, CountsOK
<1> QED BY <1>2, <1>3, <1>4 DEF IInv

---------------------------------------------------------------------------

\* A constructed pool satisfies the invariant, whatever its memory holds.
LEMMA InitIInv ==
  ASSUME Init
  PROVE  IInv
<1>1. ZeroStats \in StatsType
  BY PoolAssumption DEF ZeroStats, StatsType
<1>2. TypeOK
  BY <1>1, PoolAssumption DEF Init, TypeOK, StatsType
<1>3. FreedBlocks = {}
  BY DEF Init, FreedBlocks
<1>4. FreeListOK
  BY <1>3, ChainEmpty DEF Init, FreeListOK
<1>5. CountsOK
  BY FS_EmptySet, PoolAssumption DEF Init, CountsOK, UsedBlocks
<1> QED BY <1>2, <1>4, <1>5 DEF IInv

\* Every step keeps the invariant.
LEMMA NextIInv ==
  ASSUME IInv, [Next]_vars
  PROVE  IInv'
<1>1. CASE Allocate
  BY <1>1, AllocatePreserves
<1>2. ASSUME NEW p \in held \cup {Null} \cup Foreign, Deallocate(p) PROVE IInv'
  BY <1>2, DeallocatePreserves
<1>3. ASSUME NEW n \in 0 .. MaxBatch, AllocateBatch(n) PROVE IInv'
  BY <1>3, AllocateBatchPreserves
<1>4. ASSUME NEW ptrs \in ReturnSpans, DeallocateBatch(ptrs) PROVE IInv'
  BY <1>4, DeallocateBatchPreserves
<1>5. CASE Reset
  BY <1>5, ResetPreserves
<1>6. ASSUME NEW b \in held, NEW w \in Words, CallerWrite(b, w) PROVE IInv'
  BY <1>6, CallerWritePreserves
<1>7. CASE UNCHANGED vars
  BY <1>7 DEF vars, IInv, TypeOK, FreeListOK, FreedBlocks, CountsOK
<1> QED BY <1>1, <1>2, <1>3, <1>4, <1>5, <1>6, <1>7 DEF Next

\* In every reachable state the types, the free list and the counts are
\* right.
THEOREM Invariance == Spec => []IInv
<1>1. Init => IInv
  BY InitIInv
<1>2. IInv /\ [Next]_vars => IInv'
  BY NextIInv
<1> QED BY <1>1, <1>2, PTL DEF Spec

\* Every variable of a pool stays in its type: in particular the list head read
\* from memory is always a block or null and the counter never leaves 0..blockCount_.
THEOREM TypeCorrect == Spec => []TypeOK
<1>1. IInv => TypeOK
  BY DEF IInv
<1> QED BY <1>1, Invariance, PTL

\* Every block is virgin, on the free list or with a caller, and in one of the
\* three only; the free list is acyclic and complete.
THEOREM FreeListCorrect == Spec => []FreeListOK
<1>1. IInv => FreeListOK
  BY DEF IInv
<1> QED BY <1>1, Invariance, PTL

\* usedBlocks() is the number of blocks callers hold.
THEOREM CountsCorrect == Spec => []CountsOK
<1>1. IInv => CountsOK
  BY DEF IInv
<1> QED BY <1>1, Invariance, PTL

---------------------------------------------------------------------------
(* What no step of a pool may do, and what its statistics show.            *)

(* Where the three kinds of step take the pool.                            *)

LEMMA IssueStep ==
  ASSUME IInv, Allocate \/ \E n \in 0 .. MaxBatch : AllocateBatch(n)
  PROVE  /\ IsInjective(ret') /\ Range(ret') \cap held = {}
         /\ held' = held \cup Range(ret') /\ mem' = mem
<1>1. CASE Exhausted /\ ret' = <<>> /\ UNCHANGED <<arena, stats, held>>
  BY <1>1 DEF arena, IsInjective, Range
<1>2. ASSUME NEW b \in Blocks, AcquireBlock(b), held' = held \cup {b}, ret' = <<b>>
      PROVE  /\ IsInjective(ret') /\ Range(ret') \cap held = {}
             /\ held' = held \cup Range(ret') /\ mem' = mem
  <2>1. b \notin held /\ mem' = mem
    BY <1>2, AcquireFacts DEF AcquireBlock
  <2>2. IsInjective(ret') /\ Range(ret') = {b}
    BY <1>2 DEF IsInjective, Range
  <2> QED BY <1>2, <2>1, <2>2
<1>3. ASSUME NEW n \in 0 .. MaxBatch, AllocateBatch(n)
      PROVE  /\ IsInjective(ret') /\ Range(ret') \cap held = {}
             /\ held' = held \cup Range(ret') /\ mem' = mem
  <2>1. n \in Nat
    BY PoolAssumption
  <2> QED BY <1>3, <2>1, AllocateBatchFacts
<1> QED BY <1>1, <1>2, <1>3 DEF Allocate

\* A return hands out nothing, and stores only into blocks their holder gives
\* back.
LEMMA ReturnStep ==
  ASSUME IInv,
         \/ \E p \in held \cup {Null} \cup Foreign : Deallocate(p)
         \/ \E ptrs \in ReturnSpans : DeallocateBatch(ptrs)
  PROVE  ret' = <<>> /\ held' \subseteq held
         /\ \A b \in Blocks : mem'[b] # mem[b] => b \in held /\ b \notin held'
<1>1. ASSUME NEW p \in held \cup {Null} \cup Foreign, DeallocateForeign(p)
      PROVE  ret' = <<>> /\ held' = held /\ mem' = mem
  BY <1>1 DEF DeallocateForeign, arena
<1>2. ASSUME NEW p \in held \cup {Null} \cup Foreign, DeallocateOwned(p)
      PROVE  ret' = <<>> /\ held' \subseteq held
             /\ \A b \in Blocks : mem'[b] # mem[b] => b \in held /\ b \notin held'
  <2>1. p \in held
    BY <1>2, PoolAssumption DEF DeallocateOwned, Owns
  <2>2. mem' = [mem EXCEPT ![p] = freeList] /\ held' = held \ {p} /\ ret' = <<>>
    BY <1>2 DEF DeallocateOwned, ReleaseBlock
  <2>3. \A b \in Blocks : mem'[b] # mem[b] => b = p
    BY <2>2 DEF IInv, TypeOK
  <2> QED BY <2>1, <2>2, <2>3
<1>3. ASSUME NEW ptrs \in ReturnSpans, DeallocateBatch(ptrs)
      PROVE  ret' = <<>> /\ held' \subseteq held
             /\ \A b \in Blocks : mem'[b] # mem[b] => b \in held /\ b \notin held'
  <2>1. ret' = <<>> /\ held' = held \ Range(ptrs)
    BY <1>3 DEF DeallocateBatch
  <2>2. Range(ptrs) \cap held = {ptrs[i] : i \in OwnedAt(ptrs)}
    BY ReturnSpanFacts
  <2>3. \A b \in Blocks : mem'[b] # mem[b] => \E i \in OwnedAt(ptrs) : ptrs[i] = b
    BY <1>3 DEF DeallocateBatch
  <2> QED BY <2>1, <2>2, <2>3
<1> QED BY <1>1, <1>2, <1>3 DEF Deallocate

\* A call never hands out a block some caller holds, nor a block twice.
THEOREM IssueCorrect == Spec => IssuedBlocksWereFree
<1>1. ASSUME IInv, [Next]_vars
      PROVE  [IsInjective(ret') /\ Range(ret') \cap held = {}]_vars
  <2>1. CASE Allocate \/ \E n \in 0 .. MaxBatch : AllocateBatch(n)
    BY <1>1, <2>1, IssueStep
  <2>2. CASE ret' = <<>>
    BY <2>2 DEF IsInjective, Range
  <2>3. CASE (\E p \in held \cup {Null} \cup Foreign : Deallocate(p))
             \/ \E ptrs \in ReturnSpans : DeallocateBatch(ptrs)
    BY <1>1, <2>2, <2>3, ReturnStep
  <2>4. CASE Reset \/ \E b \in held, w \in Words : CallerWrite(b, w)
    BY <2>2, <2>4 DEF Reset, CallerWrite
  <2> QED BY <1>1, <2>1, <2>3, <2>4 DEF Next
<1> QED BY <1>1, Invariance, PTL DEF Spec, IssuedBlocksWereFree

\* The pool writes into a block only when its holder gives it back.
THEOREM WritesCorrect == Spec => WrittenOnlyWhenReleased
<1> DEFINE Right == \A b \in Blocks : mem'[b] # mem[b] =>
                      b \in held /\ (b \notin held' \/ \E w \in Words : CallerWrite(b, w))
<1>1. ASSUME IInv, [Next]_vars PROVE [Right]_vars
  <2>1. CASE Allocate \/ \E n \in 0 .. MaxBatch : AllocateBatch(n)
    BY <1>1, <2>1, IssueStep
  <2>2. CASE (\E p \in held \cup {Null} \cup Foreign : Deallocate(p))
             \/ \E ptrs \in ReturnSpans : DeallocateBatch(ptrs)
    BY <1>1, <2>2, ReturnStep
  <2>3. CASE Reset
    BY <2>3 DEF Reset, InitializeFreeList
  <2>4. ASSUME NEW b \in held, NEW w \in Words, CallerWrite(b, w) PROVE Right
    <3>1. \A c \in Blocks : mem'[c] # mem[c] => c = b
      BY <1>1, <2>4 DEF CallerWrite, IInv, TypeOK
    <3> QED BY <2>4, <3>1
  <2> HIDE DEF Right
  <2> QED BY <1>1, <2>1, <2>2, <2>3, <2>4 DEF Next
<1> QED BY <1>1, Invariance, PTL DEF Spec, WrittenOnlyWhenReleased

\* An allocation comes back short only when every block is with a caller.
THEOREM ShortCorrect == Spec => ShortOnlyWhenFull
<1> DEFINE Right == /\ Allocate => Len(ret') = 1 \/ held = Blocks
                    /\ \A n \in 0 .. MaxBatch : AllocateBatch(n) => Len(ret') = n \/ held' = Blocks
<1>1. ASSUME IInv PROVE Right
  <2>1. ASSUME Allocate PROVE Len(ret') = 1 \/ held = Blocks
    <3>1. CASE Exhausted
      <4>1. FreedBlocks = {} /\ watermark = BlockCount
        BY <1>1, <3>1, FreedFacts, PoolAssumption DEF Exhausted, IInv, TypeOK
      <4> QED BY <1>1, <4>1, FreedFacts DEF FreedBlocks, Blocks
    <3>2. CASE \E b \in Blocks : ret' = <<b>>
      BY <3>2
    <3> QED BY <2>1, <3>1, <3>2 DEF Allocate
  <2>2. ASSUME NEW n \in 0 .. MaxBatch, AllocateBatch(n)
        PROVE  Len(ret') = n \/ held' = Blocks
    <3>1. n \in Nat
      BY PoolAssumption
    <3>2. PICK k \in Nat, take \in Nat :
            /\ k + take = n \/ (freeList' = Null /\ watermark' = BlockCount)
            /\ ret' \in [1 .. k + take -> Blocks]
            /\ held' \subseteq 0 .. watermark' - 1
            /\ ChainOK(mem, freeList', FreedBlocks')
      BY <1>1, <2>2, <3>1, AllocateBatchFacts
    <3>3. CASE k + take = n
      BY <3>1, <3>2, <3>3
    <3>4. CASE freeList' = Null /\ watermark' = BlockCount
      <4>1. FreedBlocks' = {}
        BY <3>2, <3>4, ChainNull
      <4> QED BY <3>2, <3>4, <4>1 DEF FreedBlocks, Blocks
    <3> QED BY <3>2, <3>3, <3>4
  <2> QED BY <2>1, <2>2
<1> QED BY <1>1, Invariance, PTL DEF Spec, ShortOnlyWhenFull

---------------------------------------------------------------------------
(* The statistics: arithmetic modulo 2^w.                                  *)

LEMMA ModUnique ==
  ASSUME NEW q \in Int, NEW v \in 0 .. SizeMod - 1
  PROVE  (q * SizeMod + v) % SizeMod = v
BY PoolAssumption

\* A number is a multiple of the modulus and a remainder.
LEMMA ModSplit ==
  ASSUME NEW x \in Int
  PROVE  \E q \in Int : x = q * SizeMod + (x % SizeMod) /\ x % SizeMod \in 0 .. SizeMod - 1
<1>1. SizeMod \in Nat /\ SizeMod > 0
  BY PoolAssumption
<1>2. x \div SizeMod \in Int /\ x % SizeMod \in 0 .. SizeMod - 1
  BY <1>1
<1>3. x = SizeMod * (x \div SizeMod) + (x % SizeMod)
  BY <1>1
<1>4. SizeMod * (x \div SizeMod) = (x \div SizeMod) * SizeMod
  BY <1>1, <1>2
<1> QED BY <1>2, <1>3, <1>4

(* What a counter shows; a name of its own keeps the remainder out of      *)
(* steps that need nothing of it but BalanceShift.                         *)
Shown(x) == x % SizeMod

(* The difference of two counters follows what is added to either.         *)
Follows(x, y, d, u) ==
  Shown(x - y) = u /\ u + d \in 0 .. SizeMod - 1 =>
    /\ Shown(Shown(x + d) - y) = u + d
    /\ Shown(x - Shown(y - d)) = u + d

\* Follows holds of all numbers.
LEMMA BalanceShift ==
  ASSUME NEW x \in Int, NEW y \in Int, NEW d \in Int, NEW u \in 0 .. SizeMod - 1
  PROVE  Follows(x, y, d, u)
<1> SUFFICES ASSUME Shown(x - y) = u, u + d \in 0 .. SizeMod - 1
             PROVE  /\ Shown(Shown(x + d) - y) = u + d
                    /\ Shown(x - Shown(y - d)) = u + d
  BY DEF Follows
<1>1. PICK q \in Int : x - y = q * SizeMod + u
  <2>1. x - y \in Int
    OBVIOUS
  <2>2. (x - y) % SizeMod = u
    BY DEF Shown
  <2> QED BY <2>1, <2>2, ModSplit
<1>2. PICK a \in Int : x + d = a * SizeMod + ((x + d) % SizeMod) /\ (x + d) % SizeMod \in 0 .. SizeMod - 1
  <2>1. x + d \in Int
    OBVIOUS
  <2> QED BY <2>1, ModSplit
<1>3. PICK c \in Int : y - d = c * SizeMod + ((y - d) % SizeMod) /\ (y - d) % SizeMod \in 0 .. SizeMod - 1
  <2>1. y - d \in Int
    OBVIOUS
  <2> QED BY <2>1, ModSplit
<1> DEFINE r == (x + d) % SizeMod
           s == (y - d) % SizeMod
<1>4. r \in Int /\ s \in Int /\ SizeMod \in Int
  BY <1>2, <1>3, PoolAssumption
<1> HIDE DEF r, s
<1>5. r - y = (q - a) * SizeMod + (u + d)
  <2>1. x + d = a * SizeMod + r
    BY <1>2 DEF r
  <2> QED BY <2>1, <1>1, <1>4
<1>6. x - s = (q + c) * SizeMod + (u + d)
  <2>1. y - d = c * SizeMod + s
    BY <1>3 DEF s
  <2> QED BY <2>1, <1>1, <1>4
<1>7. (r - y) % SizeMod = u + d /\ (x - s) % SizeMod = u + d
  <2>1. q - a \in Int /\ q + c \in Int
    OBVIOUS
  <2> QED BY <2>1, <1>5, <1>6, ModUnique
<1> QED BY <1>7 DEF r, s, Shown

(* There are w blocks below the watermark w.                               *)
LEMMA BelowMark ==
  ASSUME NEW w \in Nat
  PROVE  IsFiniteSet(0 .. w - 1) /\ Cardinality(0 .. w - 1) = w
<1>1. 0 \in Int /\ w - 1 \in Int
  OBVIOUS
<1>2. IsFiniteSet(0 .. w - 1) /\ Cardinality(0 .. w - 1) = IF 0 > w - 1 THEN 0 ELSE (w - 1) - 0 + 1
  BY <1>1, FS_Interval
<1> QED BY <1>2

---------------------------------------------------------------------------
(* The inductive invariant.                                                *)

SInv == IInv /\ PeakIsWatermark /\ StatsBalance

(* Blocks are taken from the watermark only once none is left below it.    *)
IssueCounts(n) ==
  /\ Cardinality(held') = Cardinality(held) + n
  /\ Cardinality(held') <= watermark'
  /\ watermark' # watermark => watermark' > watermark /\ Cardinality(held') = watermark'

\* allocate() issues one block.
LEMMA AllocateCounts ==
  ASSUME IInv, NEW b \in Blocks, AcquireBlock(b), held' = held \cup {b}
  PROVE  IssueCounts(1)
<1>1. b \notin held /\ held' \subseteq 0 .. watermark' - 1 /\ watermark' \in 0 .. BlockCount
  BY AcquireFacts
<1>2. Cardinality(held') = Cardinality(held) + 1
  BY <1>1, FreedFacts, FS_AddElement
<1>3. Cardinality(held') <= watermark'
  <2>1. watermark' \in Nat
    BY <1>1, PoolAssumption
  <2>2. IsFiniteSet(0 .. watermark' - 1) /\ Cardinality(0 .. watermark' - 1) = watermark'
    BY <2>1, BelowMark
  <2> QED BY <1>1, <2>2, FS_Subset
<1>4. ASSUME watermark' # watermark PROVE watermark' > watermark /\ Cardinality(held') = watermark'
  <2>1. freeList = Null /\ watermark' = watermark + 1 /\ watermark \in Nat
    BY <1>4, PoolAssumption DEF AcquireBlock, PopFreeList, BumpWatermark, IInv, TypeOK
  <2>2. held = 0 .. watermark - 1
    BY <2>1, FreedFacts DEF FreedBlocks, IInv, FreeListOK
  <2>3. Cardinality(held) = watermark
    BY <2>1, <2>2, FS_Interval
  <2> QED BY <1>2, <2>1, <2>3
<1> QED BY <1>2, <1>3, <1>4 DEF IssueCounts

\* allocateBatch() issues the number of blocks the statistics are told.
LEMMA BatchCounts ==
  ASSUME IInv, NEW n \in 0 .. MaxBatch, AllocateBatch(n)
  PROVE  \E c \in Nat :
           /\ IssueCounts(c)
           /\ IF c > 0 THEN StatAlloc(UsedBlocks(freeBlockCount'), c) ELSE stats' = stats
<1>0. n \in Nat
  BY PoolAssumption
<1>1. PICK k \in Nat, take \in Nat :
        /\ held' = held \cup Range(ret')
        /\ Cardinality(held') = Cardinality(held) + k + take
        /\ held' \subseteq 0 .. watermark' - 1
        /\ watermark' = watermark + take /\ watermark' \in 0 .. BlockCount
        /\ take > 0 => freeList' = Null
        /\ ChainOK(mem, freeList', FreedBlocks')
        /\ IF k + take > 0 THEN StatAlloc(UsedBlocks(freeBlockCount'), k + take)
                           ELSE stats' = stats
  BY <1>0, AllocateBatchFacts
<1>2. watermark' \in Nat /\ watermark \in Nat
  BY <1>1, PoolAssumption DEF IInv, TypeOK
<1>3. IsFiniteSet(0 .. watermark' - 1) /\ Cardinality(0 .. watermark' - 1) = watermark'
  BY <1>2, BelowMark
<1>4. Cardinality(held') <= watermark'
  BY <1>1, <1>3, FS_Subset
<1>5. ASSUME watermark' # watermark PROVE watermark' > watermark /\ Cardinality(held') = watermark'
  <2>1. take > 0 /\ watermark' > watermark
    BY <1>1, <1>2, <1>5
  <2>2. FreedBlocks' = {}
    BY <1>1, <2>1, ChainNull
  <2>3. held' = 0 .. watermark' - 1
    BY <1>1, <2>2 DEF FreedBlocks
  <2> QED BY <2>1, <2>3, <1>3
<1>6. IssueCounts(k + take)
  <2>1. Cardinality(held') = Cardinality(held) + (k + take)
    BY <1>1, FreedFacts
  <2> QED BY <2>1, <1>4, <1>5 DEF IssueCounts
<1> QED BY <1>1, <1>6

(* As many blocks are free as are not in use.                              *)
LEMMA RestInRange ==
  ASSUME NEW free \in 0 .. BlockCount
  PROVE  BlockCount - free \in 0 .. BlockCount
BY PoolAssumption

(* What IInv says of the numbers, now and after a step.                    *)
LEMMA Numbers ==
  ASSUME IInv
  PROVE  /\ freeBlockCount \in 0 .. BlockCount /\ watermark \in 0 .. BlockCount
         /\ Cardinality(held) = BlockCount - freeBlockCount
         /\ stats \in StatsType
BY DEF IInv, TypeOK, CountsOK, UsedBlocks, StatsType

\* The same after a step.
LEMMA NumbersNext ==
  ASSUME IInv'
  PROVE  /\ freeBlockCount' \in 0 .. BlockCount /\ watermark' \in 0 .. BlockCount
         /\ Cardinality(held') = BlockCount - freeBlockCount'
BY DEF IInv, TypeOK, CountsOK, UsedBlocks

(* A call that hands out n blocks keeps the two statements.                *)
LEMMA IssueStats ==
  ASSUME SInv, IInv', NEW n \in Nat, IssueCounts(n),
         IF n > 0 THEN StatAlloc(UsedBlocks(freeBlockCount'), n) ELSE stats' = stats
  PROVE  PeakIsWatermark' /\ StatsBalance'
<1>0. BlockCount \in Nat /\ SizeMod \in Nat /\ BlockCount < SizeMod
  BY PoolAssumption
<1> SUFFICES ASSUME EnableStats
             PROVE  PeakIsWatermark' /\ StatsBalance'
  BY DEF PeakIsWatermark, StatsBalance
<1> DEFINE used == Cardinality(held)
           used2 == Cardinality(held')
<1>1. /\ UsedBlocks(freeBlockCount) = used /\ UsedBlocks(freeBlockCount)' = used2
      /\ UsedBlocks(freeBlockCount') = used2
  BY DEF SInv, IInv, CountsOK, UsedBlocks
<1>2. used \in 0 .. BlockCount /\ used2 \in 0 .. BlockCount /\ used2 = used + n
  <2>1. used2 = used + n
    BY DEF IssueCounts
  <2>2. /\ freeBlockCount \in 0 .. BlockCount /\ used = BlockCount - freeBlockCount
        /\ freeBlockCount' \in 0 .. BlockCount /\ used2 = BlockCount - freeBlockCount'
    BY Numbers, NumbersNext DEF SInv
  <2>3. BlockCount - freeBlockCount \in 0 .. BlockCount /\ BlockCount - freeBlockCount' \in 0 .. BlockCount
    BY <2>2, RestInRange
  <2> QED BY <2>1, <2>2, <2>3
<1>3. /\ stats \in StatsType /\ stats.peakUsed = watermark
      /\ (stats.allocations - stats.deallocations) % SizeMod = used
      /\ stats.totalAllocated = stats.allocations
      /\ watermark \in Nat /\ watermark' \in Nat
  <2>1. stats \in StatsType /\ watermark \in Nat /\ watermark' \in Nat
    BY Numbers, NumbersNext, <1>0 DEF SInv
  <2>2. stats.peakUsed = watermark
    BY DEF SInv, PeakIsWatermark
  <2>3. /\ (stats.allocations - stats.deallocations) % SizeMod = UsedBlocks(freeBlockCount)
        /\ stats.totalAllocated = stats.allocations
    BY DEF SInv, StatsBalance
  <2> QED BY <2>1, <2>2, <2>3, <1>1
<1>4. /\ used2 <= watermark'
      /\ watermark' # watermark => watermark' > watermark /\ used2 = watermark'
  BY DEF IssueCounts
<1> HIDE DEF used, used2
<1>5. CASE n = 0
  <2>1. stats' = stats /\ used2 = used
    BY <1>2, <1>5
  <2>2. watermark' = watermark
    <3>1. used <= watermark
      BY FreedFacts DEF SInv, used
    <3> QED BY <1>2, <1>3, <1>4, <2>1, <3>1
  <2> QED BY <1>1, <1>3, <2>1, <2>2 DEF PeakIsWatermark, StatsBalance
<1>6. CASE n > 0
  <2>1. stats' = [totalAllocated |-> Plus(stats.totalAllocated, n),
                  allocations    |-> Plus(stats.allocations, n),
                  peakUsed       |-> IF used2 > stats.peakUsed THEN used2 ELSE stats.peakUsed,
                  deallocations  |-> stats.deallocations]
    BY <1>1, <1>6 DEF StatAlloc
  <2>2. stats'.peakUsed = watermark'
    BY <2>1, <1>2, <1>3, <1>4
  <2>3. (((stats.allocations + n) % SizeMod) - stats.deallocations) % SizeMod = used + n
    <3>1. /\ stats.allocations \in Int /\ stats.deallocations \in Int /\ n \in Int
          /\ used \in 0 .. SizeMod - 1 /\ used + n \in 0 .. SizeMod - 1
      BY <1>2, <1>3, <1>0 DEF StatsType
    <3> DEFINE x == stats.allocations
               y == stats.deallocations
    <3>2. Shown(x - y) = used
      BY <1>3 DEF Shown
    <3>3. x \in Int /\ y \in Int
      BY <3>1
    <3> HIDE DEF x, y
    <3>4. Follows(x, y, n, used)
      BY <3>1, <3>3, BalanceShift
    <3>5. Shown(Shown(x + n) - y) = used + n
      BY <3>1, <3>2, <3>4 DEF Follows
    <3> QED BY <3>5 DEF x, y, Shown
  <2>4. (stats'.allocations - stats'.deallocations) % SizeMod = used2
    BY <2>1, <2>3, <1>2 DEF Plus
  <2>5. stats'.totalAllocated = stats'.allocations
    BY <2>1, <1>3
  <2> QED BY <1>1, <2>2, <2>4, <2>5 DEF PeakIsWatermark, StatsBalance
<1> QED BY <1>5, <1>6

(* So does one that takes n blocks back.                                   *)
LEMMA ReturnStats ==
  ASSUME SInv, IInv', NEW n \in Nat, watermark' = watermark, freeBlockCount' = freeBlockCount + n,
         IF n > 0 THEN StatDealloc(n) ELSE stats' = stats
  PROVE  PeakIsWatermark' /\ StatsBalance'
<1>0. BlockCount \in Nat /\ SizeMod \in Nat /\ BlockCount < SizeMod
  BY PoolAssumption
<1> SUFFICES ASSUME EnableStats
             PROVE  PeakIsWatermark' /\ StatsBalance'
  BY DEF PeakIsWatermark, StatsBalance
<1> DEFINE used == UsedBlocks(freeBlockCount)
           used2 == UsedBlocks(freeBlockCount)'
<1>1. used \in 0 .. BlockCount /\ used2 \in 0 .. BlockCount /\ used2 = used - n
  <2>1. freeBlockCount \in 0 .. BlockCount /\ freeBlockCount' \in 0 .. BlockCount
    BY Numbers, NumbersNext DEF SInv
  <2> QED BY <2>1, <1>0 DEF UsedBlocks
<1>2. /\ stats \in StatsType /\ stats.peakUsed = watermark
      /\ (stats.allocations - stats.deallocations) % SizeMod = used
      /\ stats.totalAllocated = stats.allocations
  <2>1. stats \in StatsType
    BY Numbers DEF SInv
  <2>2. stats.peakUsed = watermark
    BY DEF SInv, PeakIsWatermark
  <2>3. /\ (stats.allocations - stats.deallocations) % SizeMod = used
        /\ stats.totalAllocated = stats.allocations
    BY DEF SInv, StatsBalance
  <2> QED BY <2>1, <2>2, <2>3
<1>3. used2 = UsedBlocks(freeBlockCount')
  BY DEF UsedBlocks
<1> HIDE DEF used, used2
<1>4. CASE n = 0
  BY <1>1, <1>2, <1>4 DEF PeakIsWatermark, StatsBalance, used2
<1>5. CASE n > 0
  <2>1. stats' = [stats EXCEPT !.deallocations = Plus(stats.deallocations, n)]
    BY <1>5 DEF StatDealloc
  <2>2. (stats.allocations - ((stats.deallocations + n) % SizeMod)) % SizeMod = used - n
    <3> DEFINE d == -n
               x == stats.allocations
               y == stats.deallocations
    <3>1. /\ stats.allocations \in Int /\ stats.deallocations \in Int /\ d \in Int
          /\ used \in 0 .. SizeMod - 1 /\ used + d \in 0 .. SizeMod - 1
      BY <1>1, <1>2, <1>0 DEF StatsType
    <3>2. stats.deallocations - d = stats.deallocations + n /\ used + d = used - n
      BY <3>1, <1>1
    <3>3. x \in Int /\ y \in Int /\ y - d = y + n
      BY <3>1, <3>2
    <3>4. Shown(x - y) = used
      BY <1>2 DEF Shown
    <3> HIDE DEF d, x, y
    <3>5. Follows(x, y, d, used)
      BY <3>1, <3>3, BalanceShift
    <3>6. Shown(x - Shown(y - d)) = used + d
      BY <3>1, <3>4, <3>5 DEF Follows
    <3>7. Shown(x - Shown(y + n)) = used - n
      BY <3>2, <3>3, <3>6
    <3> QED BY <3>7 DEF x, y, Shown
  <2>3. /\ stats'.allocations = stats.allocations /\ stats'.peakUsed = stats.peakUsed
        /\ stats'.totalAllocated = stats.totalAllocated
        /\ stats'.deallocations = (stats.deallocations + n) % SizeMod
    BY <2>1, <1>2 DEF StatsType, Plus
  <2> QED BY <2>2, <2>3, <1>1, <1>2 DEF PeakIsWatermark, StatsBalance, used2
<1> QED BY <1>4, <1>5

---------------------------------------------------------------------------

\* Every step keeps the stronger invariant.
LEMMA NextSInv ==
  ASSUME SInv, [Next]_vars
  PROVE  SInv'
<1>1. IInv /\ IInv'
  BY NextIInv DEF SInv
<1>2. CASE UNCHANGED <<arena, stats, held>>
  BY <1>1, <1>2 DEF arena, SInv, PeakIsWatermark, StatsBalance, UsedBlocks
<1>3. CASE Allocate
  <2>1. ASSUME NEW b \in Blocks, AcquireBlock(b), held' = held \cup {b},
               StatAlloc(UsedBlocks(freeBlockCount'), 1)
        PROVE  SInv'
    BY <1>1, <2>1, AllocateCounts, IssueStats DEF SInv
  <2> QED BY <1>2, <1>3, <2>1 DEF Allocate
<1>4. ASSUME NEW n \in 0 .. MaxBatch, AllocateBatch(n) PROVE SInv'
  <2>1. PICK c \in Nat :
          /\ IssueCounts(c)
          /\ IF c > 0 THEN StatAlloc(UsedBlocks(freeBlockCount'), c) ELSE stats' = stats
    BY <1>1, <1>4, BatchCounts
  <2> QED BY <1>1, <2>1, IssueStats DEF SInv
<1>5. ASSUME NEW p, DeallocateOwned(p) PROVE SInv'
  <2>1. watermark' = watermark /\ freeBlockCount' = freeBlockCount + 1 /\ StatDealloc(1)
    BY <1>5 DEF DeallocateOwned, ReleaseBlock
  <2> QED BY <1>1, <2>1, ReturnStats DEF SInv
<1>6. ASSUME NEW p, DeallocateForeign(p) PROVE SInv'
  BY <1>2, <1>6 DEF DeallocateForeign
<1>7. ASSUME NEW ptrs \in ReturnSpans, DeallocateBatch(ptrs) PROVE SInv'
  <2>1. Released(ptrs) \in Nat
    <3>1. PICK len \in Nat : OwnedAt(ptrs) \in SUBSET (1 .. len)
      BY <1>1, ReturnSpanFacts
    <3>2. IsFiniteSet(1 .. len)
      BY FS_Interval
    <3> QED BY <3>1, <3>2, FS_Subset, FS_CardinalityType DEF Released
  <2>2. /\ watermark' = watermark /\ freeBlockCount' = freeBlockCount + Released(ptrs)
        /\ IF Released(ptrs) > 0 THEN StatDealloc(Released(ptrs)) ELSE stats' = stats
    BY <1>7 DEF DeallocateBatch
  <2> QED BY <1>1, <2>1, <2>2, ReturnStats DEF SInv
<1>8. CASE Reset
  <2>1. watermark' = 0 /\ freeBlockCount' = BlockCount /\ (EnableStats => stats' = ZeroStats)
    BY <1>8 DEF Reset, InitializeFreeList
  <2>2. (0 - 0) % SizeMod = 0
    BY PoolAssumption
  <2> QED BY <1>1, <2>1, <2>2, PoolAssumption
          DEF SInv, PeakIsWatermark, StatsBalance, ZeroStats, UsedBlocks
<1>9. ASSUME NEW b \in held, NEW w \in Words, CallerWrite(b, w) PROVE SInv'
  BY <1>1, <1>9 DEF CallerWrite, SInv, PeakIsWatermark, StatsBalance, UsedBlocks
<1>10. CASE UNCHANGED vars
  BY <1>2, <1>10 DEF vars, arena
<1> QED BY <1>3, <1>4, <1>5, <1>6, <1>7, <1>8, <1>9, <1>10 DEF Next, Deallocate

\* A constructed pool satisfies it.
LEMMA InitSInv ==
  ASSUME Init
  PROVE  SInv
<1>1. (0 - 0) % SizeMod = 0
  BY PoolAssumption
<1> QED BY <1>1, InitIInv, PoolAssumption
        DEF Init, SInv, PeakIsWatermark, StatsBalance, ZeroStats, UsedBlocks

\* In every reachable state the statistics agree with the watermark and the
\* blocks in use.
THEOREM StatsInvariance == Spec => []SInv
<1>1. Init => SInv
  BY InitSInv
<1>2. SInv /\ [Next]_vars => SInv'
  BY NextSInv
<1> QED BY <1>1, <1>2, PTL DEF Spec

\* The peak that is reported is the watermark: virgin memory is entered only
\* when every block below it is with a caller.
THEOREM PeakCorrect == Spec => []PeakIsWatermark
<1>1. SInv => PeakIsWatermark
  BY DEF SInv
<1> QED BY <1>1, StatsInvariance, PTL

\* Allocations minus deallocations is the number of used blocks, modulo 2^w.
THEOREM BalanceCorrect == Spec => []StatsBalance
<1>1. SInv => StatsBalance
  BY DEF SInv
<1> QED BY <1>1, StatsInvariance, PTL

---------------------------------------------------------------------------
(* The promise.                                                            *)

\* The blocks in use, as BlockPool sees them, are those callers hold.
LEMMA KeptFacts ==
  ASSUME IInv
  PROVE  /\ DOMAIN Kept = held
         /\ \A b \in held : Kept[b] = mem[b] /\ mem[b] \in Words
         /\ Promise!Blocks = Blocks /\ Promise!Used = held
BY DEF IInv, TypeOK, Kept, Promise!Blocks, Promise!Used, Blocks

\* m blocks taken out of the free ones, all of them if fewer than n, are what
\* a call for n promises.
LEMMA RightSize ==
  ASSUME NEW S \in SUBSET Blocks, NEW R \in SUBSET Blocks, NEW m \in Nat, NEW n \in Nat,
         Cardinality(R) = Cardinality(S) + m, m <= n, m = n \/ R = Blocks
  PROVE  m = IF n < Cardinality(Blocks \ S) THEN n ELSE Cardinality(Blocks \ S)
<1> DEFINE s == Cardinality(S)  r == Cardinality(R)  free == Cardinality(Blocks \ S)
<1>1. s \in Nat /\ r \in Nat /\ free \in Nat
  BY BlocksFinite
<1>2. r <= BlockCount
  BY BlocksFinite, FS_Subset
<1>3. free = BlockCount - s
  <2>1. Blocks \cap S = S
    OBVIOUS
  <2>2. Cardinality(Blocks \ S) = Cardinality(Blocks) - Cardinality(Blocks \cap S)
    BY BlocksFinite, FS_Difference
  <2> QED BY <2>1, <2>2, BlocksFinite
<1>4. R = Blocks => r = BlockCount
  BY BlocksFinite
<1>5. r = s + m
  OBVIOUS
<1> HIDE DEF s, r, free
<1>6. m = IF n < free THEN n ELSE free
  BY <1>1, <1>2, <1>3, <1>4, <1>5, PoolAssumption
<1> QED BY <1>6 DEF free

\* The operators BlockPool takes from the library are the ones Pool takes.
LEMMA SameOperators ==
  /\ \A S : Promise!Cardinality(S) = Cardinality(S)
  /\ \A f : Promise!Range(f) = Range(f)
  /\ \A S, T : Promise!Injection(S, T) = Injection(S, T)
<1>1. \A S : Promise!Cardinality(S) = Cardinality(S)
  BY Zenon DEF Promise!Cardinality, Cardinality
<1>2. \A f : Promise!Range(f) = Range(f)
  BY DEF Promise!Range, Range
<1>3. \A S, T : Promise!Injection(S, T) = Injection(S, T)
  BY DEF Promise!Injection, Injection, Promise!IsInjective, IsInjective
<1> QED BY <1>1, <1>2, <1>3

\* A call that hands out m blocks that were free, n of them or the last ones,
\* is an Issue(n).
LEMMA IssueIsPromised ==
  ASSUME IInv, IInv', NEW n \in Nat, NEW m \in Nat,
         ret' \in [1 .. m -> Blocks], IsInjective(ret'), Range(ret') \cap held = {},
         held' = held \cup Range(ret'), mem' = mem,
         Cardinality(held') = Cardinality(held) + m,
         m <= n, m = n \/ held' = Blocks
  PROVE  Promise!Issue(n)
<1>1. held \in SUBSET Blocks /\ held' \in SUBSET Blocks
  BY DEF IInv, TypeOK
<1>2. m = IF n < Cardinality(Blocks \ held) THEN n ELSE Cardinality(Blocks \ held)
  BY <1>1, RightSize
<1>3. ret' \in Injection(1 .. m, Blocks \ held)
  BY DEF Injection, Range
<1>4. Kept' \in [held \cup Range(ret') -> Words]
  BY DEF Kept, IInv, TypeOK
<1>5. \A b \in held : Kept'[b] = Kept[b]
  BY <1>4 DEF Kept
<1> QED BY <1>2, <1>3, <1>4, <1>5, KeptFacts, SameOperators DEF Promise!Issue

\* allocate() is the call for one block.
LEMMA AllocateIsPromised ==
  ASSUME IInv, IInv', Allocate
  PROVE  Promise!Issue(1)
<1>1. /\ IsInjective(ret') /\ Range(ret') \cap held = {}
      /\ held' = held \cup Range(ret') /\ mem' = mem
  BY IssueStep
<1>2. held \in SUBSET Blocks /\ Cardinality(held) \in Nat /\ IsFiniteSet(held)
  BY FreedFacts
<1>3. CASE Exhausted /\ ret' = <<>> /\ UNCHANGED held
  <2>1. FreedBlocks = {} /\ watermark = BlockCount
    <3>1. FreedBlocks = {}
      BY <1>3, FreedFacts DEF Exhausted
    <3>2. watermark \in 0 .. BlockCount /\ watermark >= BlockCount
      BY <1>3 DEF Exhausted, IInv, TypeOK
    <3> QED BY <3>1, <3>2, PoolAssumption
  <2>2. held = Blocks
    BY <2>1, FreedFacts DEF FreedBlocks, Blocks
  <2>3. ret' \in [1 .. 0 -> Blocks]
    BY <1>3
  <2>4. held' = Blocks /\ Cardinality(held') = Cardinality(held) + 0
    BY <1>2, <1>3, <2>2
  <2>5. 0 \in Nat /\ 1 \in Nat /\ 0 <= 1
    OBVIOUS
  <2> QED BY <1>1, <2>3, <2>4, <2>5, IssueIsPromised
<1>4. ASSUME NEW b \in Blocks, ret' = <<b>> PROVE Promise!Issue(1)
  <2>1. ret' \in [1 .. 1 -> Blocks] /\ Range(ret') = {b}
    BY <1>4 DEF Range
  <2>2. Cardinality(held') = Cardinality(held) + 1
    BY <1>1, <1>2, <2>1, FS_AddElement
  <2> QED BY <1>1, <2>1, <2>2, IssueIsPromised
<1> QED BY <1>3, <1>4 DEF Allocate

\* allocateBatch() of n pointers is the call for n blocks.
LEMMA AllocateBatchIsPromised ==
  ASSUME IInv, IInv', NEW n \in Nat, AllocateBatch(n)
  PROVE  Promise!Issue(n)
<1>1. PICK k \in Nat, take \in Nat :
        /\ k + take <= n
        /\ k + take = n \/ (freeList' = Null /\ watermark' = BlockCount)
        /\ ret' \in [1 .. k + take -> Blocks] /\ IsInjective(ret')
        /\ Range(ret') \cap held = {}
        /\ held' = held \cup Range(ret')
        /\ Cardinality(held') = Cardinality(held) + k + take
        /\ mem' = mem
        /\ ChainOK(mem, freeList', FreedBlocks')
  BY AllocateBatchFacts
<1>2. ASSUME freeList' = Null, watermark' = BlockCount PROVE held' = Blocks
  <2>1. FreedBlocks' = {}
    BY <1>1, <1>2, ChainNull
  <2>2. held' \in SUBSET Blocks
    BY DEF IInv, TypeOK
  <2> QED BY <1>2, <2>1, <2>2 DEF FreedBlocks, Blocks
<1>3. k + take \in Nat /\ Cardinality(held) \in Nat
  BY FreedFacts
<1>4. Cardinality(held') = Cardinality(held) + (k + take)
  BY <1>1, <1>3
<1> QED BY <1>1, <1>2, <1>3, <1>4, IssueIsPromised

\* A call that hands out nothing and leaves the blocks still held as they were
\* gives back the others.
LEMMA ReturnIsPromised ==
  ASSUME IInv, ret' = <<>>, held' \subseteq held, \A b \in held' : mem'[b] = mem[b]
  PROVE  Promise!GiveBack(held \ held')
<1>1. Promise!Used \ (held \ held') = held'
  BY KeptFacts
<1>2. Kept' = [b \in held' |-> Kept[b]]
  BY KeptFacts DEF Kept
<1> QED BY <1>1, <1>2 DEF Promise!GiveBack

\* Every step of a pool is a step the promise allows.
LEMMA StepIsPromised ==
  ASSUME IInv, [Next]_vars
  PROVE  [Promise!Next]_<<Kept, ret>>
<1>0. IInv'
  BY NextIInv
<1>1. CASE Allocate
  BY <1>0, <1>1, AllocateIsPromised DEF Promise!Next
<1>2. ASSUME NEW n \in 0 .. MaxBatch, AllocateBatch(n) PROVE Promise!Next
  <2>1. n \in Nat
    BY PoolAssumption
  <2> QED BY <1>0, <1>2, <2>1, AllocateBatchIsPromised DEF Promise!Next
<1>3. ASSUME Promise!GiveBack(held \ held') PROVE Promise!Next
  BY <1>3, KeptFacts DEF Promise!Next
<1>4. CASE (\E p \in held \cup {Null} \cup Foreign : Deallocate(p))
           \/ \E ptrs \in ReturnSpans : DeallocateBatch(ptrs)
  <2>1. ret' = <<>> /\ held' \subseteq held
        /\ \A b \in Blocks : mem'[b] # mem[b] => b \in held /\ b \notin held'
    BY <1>4, ReturnStep
  <2>2. held \in SUBSET Blocks
    BY DEF IInv, TypeOK
  <2> QED BY <1>3, <2>1, <2>2, ReturnIsPromised
<1>5. CASE Reset
  <2>1. ret' = <<>> /\ held' = {} /\ mem' = mem
    BY <1>5 DEF Reset, InitializeFreeList
  <2> QED BY <1>3, <2>1, ReturnIsPromised
<1>6. ASSUME NEW b \in held, NEW w \in Words, CallerWrite(b, w) PROVE Promise!Next
  <2>1. ret' = <<>> /\ held' = held /\ mem' = [mem EXCEPT ![b] = w]
    BY <1>6 DEF CallerWrite
  <2>2. Kept' = [Kept EXCEPT ![b] = w]
    BY <2>1 DEF Kept, IInv, TypeOK
  <2> QED BY <2>1, <2>2, KeptFacts DEF Promise!Next, Promise!Write
<1>7. CASE UNCHANGED vars
  <2>1. Kept' = Kept /\ ret' = ret
    BY <1>7 DEF vars, Kept
  <2> QED BY <2>1
<1> QED BY <1>1, <1>2, <1>4, <1>5, <1>6, <1>7 DEF Next

\* Whatever its callers do with it, a pool behaves as its comments promise: a
\* call for n blocks gets n, or all that are left; blocks given out are nobody
\* else's until they come back; what their holders stored in them stays.
THEOREM PromiseKept == Spec => ImplementsBlockPool
<1>1. Init => Promise!Init
  BY DEF Init, Promise!Init, Kept
<1>2. IInv /\ [Next]_vars => [Promise!Next]_<<Kept, ret>>
  BY StepIsPromised
<1> QED BY <1>1, <1>2, Invariance, PTL DEF Spec, ImplementsBlockPool, Promise!Spec, Promise!vars


---------------------------------------------------------------------------
(* The list as a sequence.                                                 *)

(* The links of m spell the sequence s of n blocks from its end to its     *)
(* beginning.                                                              *)
Linked(m, head, s, n) ==
  /\ head = IF n = 0 THEN Null ELSE s[n]
  /\ \A i \in 1 .. n : m[s[i]] = IF i = 1 THEN Null ELSE s[i-1]

(* The first n elements of a sequence.                                     *)
First(s, n) == [i \in 1 .. n |-> s[i]]

\* Following the links is a function: the recursion has a solution.
LEMMA VisitedDef ==
  ASSUME NEW m, NEW head
  PROVE  Visited(m, head) =
           [k \in 1 .. BlockCount |->
              IF k = 1 THEN head
              ELSE IF Visited(m, head)[k-1] = Null THEN Null ELSE m[Visited(m, head)[k-1]]]
<1> DEFINE Step(f, k) == IF k = 1 THEN head ELSE IF f[k-1] = Null THEN Null ELSE m[f[k-1]]
           Solves(f, n) == f = [k \in 1 .. n |-> Step(f, k)]
           bad == {n \in Nat : ~ \E f : Solves(f, n)}
<1>1. bad = {}
  <2>1. SUFFICES ASSUME bad # {} PROVE FALSE
    OBVIOUS
  <2>2. bad \in SUBSET Nat
    OBVIOUS
  <2> HIDE DEF bad
  <2>3. PICK n \in bad : \A j \in bad : n <= j
    BY <2>1, <2>2, LeastNatural
  <2> USE DEF bad
  <2>4. n \in Nat /\ ~ \E f : Solves(f, n)
    OBVIOUS
  <2>5. CASE n = 0
    <3> DEFINE f == [k \in 1 .. 0 |-> head]
    <3>1. Solves(f, 0)
      OBVIOUS
    <3> QED BY <2>4, <2>5, <3>1
  <2>6. CASE n # 0
    <3>1. n - 1 \in Nat /\ n - 1 \notin bad
      BY <2>3, <2>4, <2>6
    <3>2. PICK f : Solves(f, n - 1)
      BY <3>1
    <3> DEFINE g == [k \in 1 .. n |-> IF k = n THEN Step(f, n) ELSE f[k]]
    <3> HIDE DEF Solves
    <3>3. \A k \in 1 .. n - 1 : f[k] = Step(f, k)
      <4>1. f = [k \in 1 .. n - 1 |-> Step(f, k)]
        BY <3>2 DEF Solves
      <4> HIDE DEF Step
      <4> QED BY <4>1
    <3>4. \A k \in 1 .. n : k # 1 => g[k-1] = f[k-1]
      BY <2>4
    <3>5. \A k \in 1 .. n : Step(g, k) = Step(f, k)
      BY <3>4
    <3>6. \A k \in 1 .. n : g[k] = Step(g, k)
      <4> SUFFICES ASSUME NEW k \in 1 .. n PROVE g[k] = Step(g, k)
        OBVIOUS
      <4>1. g[k] = IF k = n THEN Step(f, n) ELSE f[k]
        OBVIOUS
      <4>2. k # n => k \in 1 .. n - 1
        BY <2>4
      <4> HIDE DEF g, Step
      <4> QED BY <4>1, <4>2, <3>3, <3>5
    <3>7. g = [k \in 1 .. n |-> g[k]]
      OBVIOUS
    <3> HIDE DEF g, Step
    <3>8. Solves(g, n)
      BY <3>6, <3>7 DEF Solves
    <3> QED BY <2>4, <3>8
  <2> QED BY <2>5, <2>6
<1>2. \E f : Solves(f, BlockCount)
  <2>1. BlockCount \in Nat
    BY PoolAssumption
  <2> HIDE DEF Solves
  <2> QED BY <2>1, <1>1
<1>3. Visited(m, head) = CHOOSE f : Solves(f, BlockCount)
  BY DEF Visited
<1> HIDE DEF Solves
<1>4. Solves(Visited(m, head), BlockCount)
  BY <1>2, <1>3
<1> QED BY <1>4 DEF Solves

\* A sequence the links spell is the one that following them finds.
LEMMA StackFromLinked ==
  ASSUME NEW m, NEW head, NEW n \in 0 .. BlockCount, NEW s \in [1 .. n -> Blocks],
         Linked(m, head, s, n)
  PROVE  StackFrom(m, head) = s
<1> DEFINE at == Visited(m, head)
<1>0. n \in Nat /\ BlockCount \in Nat /\ n <= BlockCount
  BY PoolAssumption
<1>1. \A k \in 1 .. BlockCount :
        at[k] = IF k = 1 THEN head ELSE IF at[k-1] = Null THEN Null ELSE m[at[k-1]]
  <2> DEFINE Step(k) == IF k = 1 THEN head ELSE IF at[k-1] = Null THEN Null ELSE m[at[k-1]]
  <2>1. at = [k \in 1 .. BlockCount |-> Step(k)]
    BY VisitedDef
  <2> HIDE DEF at, Step
  <2>2. \A k \in 1 .. BlockCount : at[k] = Step(k)
    BY <2>1
  <2> QED BY <2>2 DEF Step
<1> HIDE DEF at
<1>2. head = IF n = 0 THEN Null ELSE s[n]
  BY DEF Linked
<1>3. \A i \in 1 .. n : m[s[i]] = IF i = 1 THEN Null ELSE s[i-1]
  BY DEF Linked
<1>4. \A i \in 1 .. n : s[i] \in Blocks /\ s[i] # Null
  BY PoolAssumption
<1>5. \A k \in 1 .. BlockCount : at[k] = IF k <= n THEN s[n + 1 - k] ELSE Null
  <2> DEFINE bad == {k \in 1 .. BlockCount : ~ (at[k] = IF k <= n THEN s[n + 1 - k] ELSE Null)}
  <2>1. SUFFICES ASSUME bad # {} PROVE FALSE
    OBVIOUS
  <2>2. bad \in SUBSET Nat
    OBVIOUS
  <2> HIDE DEF bad
  <2>3. PICK k \in bad : \A j \in bad : k <= j
    BY <2>1, <2>2, LeastNatural
  <2> USE DEF bad
  <2>4. k \in 1 .. BlockCount /\ ~ (at[k] = IF k <= n THEN s[n + 1 - k] ELSE Null)
    OBVIOUS
  <2>5. CASE k = 1
    <3>1. at[k] = head
      BY <1>1, <2>4, <2>5
    <3> QED BY <3>1, <2>4, <2>5, <1>0, <1>2
  <2>6. CASE k # 1
    <3>1. k - 1 \in 1 .. BlockCount /\ k - 1 \notin bad
      BY <2>3, <2>4, <2>6, <1>0
    <3>2. at[k-1] = IF k - 1 <= n THEN s[n + 1 - (k - 1)] ELSE Null
      BY <3>1
    <3>3. at[k] = IF at[k-1] = Null THEN Null ELSE m[at[k-1]]
      BY <1>1, <2>4, <2>6
    <3>4. CASE k - 1 <= n
      <4>1. n + 1 - (k - 1) \in 1 .. n /\ n + 1 - (k - 1) - 1 = n + 1 - k
            /\ (n + 1 - (k - 1) = 1 <=> ~ (k <= n))
        BY <3>1, <3>4, <1>0
      <4> DEFINE i == n + 1 - (k - 1)
      <4>2. at[k] = IF i = 1 THEN Null ELSE s[i-1]
        BY <3>2, <3>3, <3>4, <4>1, <1>3, <1>4
      <4> QED BY <4>1, <4>2, <2>4
    <3>5. CASE ~ (k - 1 <= n)
      <4>1. ~ (k <= n)
        BY <3>1, <3>5, <1>0
      <4> QED BY <3>2, <3>3, <3>5, <4>1, <2>4
    <3> QED BY <3>4, <3>5
  <2> QED BY <2>5, <2>6
<1>6. {k \in 1 .. BlockCount : at[k] # Null} = 1 .. n
  <2>1. \A k \in 1 .. BlockCount : at[k] # Null <=> k <= n
    <3> SUFFICES ASSUME NEW k \in 1 .. BlockCount PROVE at[k] # Null <=> k <= n
      OBVIOUS
    <3>1. k <= n => n + 1 - k \in 1 .. n
      BY <1>0
    <3> QED BY <3>1, <1>4, <1>5
  <2> QED BY <2>1, <1>0
<1>7. Cardinality(1 .. n) = n
  BY <1>0, FS_Interval
<1>8. StackFrom(m, head) = [i \in 1 .. n |-> at[n + 1 - i]]
  BY <1>6, <1>7 DEF StackFrom, at
<1>9. \A i \in 1 .. n : at[n + 1 - i] = s[i]
  <2> SUFFICES ASSUME NEW i \in 1 .. n PROVE at[n + 1 - i] = s[i]
    OBVIOUS
  <2>1. n + 1 - i \in 1 .. BlockCount /\ n + 1 - i <= n /\ n + 1 - (n + 1 - i) = i
    BY <1>0
  <2> QED BY <2>1, <1>5
<1> QED BY <1>8, <1>9

\* Nothing is on an empty list.
LEMMA EmptyStack == \A m : StackFrom(m, Null) = <<>>
<1> SUFFICES ASSUME NEW m PROVE StackFrom(m, Null) = <<>>
  OBVIOUS
<1>1. 0 \in 0 .. BlockCount
  BY PoolAssumption
<1>2. <<>> \in [1 .. 0 -> Blocks] /\ Linked(m, Null, <<>>, 0)
  BY DEF Linked
<1> QED BY <1>1, <1>2, StackFromLinked

\* The links of a chain spell its blocks, each once.
LEMMA ChainLinked ==
  ASSUME NEW m, NEW head, NEW F \in SUBSET Blocks, ChainOK(m, head, F)
  PROVE  \E s \in [1 .. Cardinality(F) -> F] :
           /\ Linked(m, head, s, Cardinality(F))
           /\ IsInjective(s) /\ Range(s) = F
<1> DEFINE c == Cardinality(F)
<1>1. PICK pos \in Injection(F, 1 .. c) : IsChain(m, head, F, pos)
  BY DEF ChainOK
<1>2. IsFiniteSet(F) /\ c \in Nat
  BY BlocksFinite
<1>3. pos \in [F -> 1 .. c] /\ \A a, b \in F : pos[a] = pos[b] => a = b
  BY <1>1 DEF Injection, IsInjective
<1>4. /\ IF head = Null THEN F = {} ELSE head \in F /\ pos[head] = c
      /\ \A b \in F : IF pos[b] = 1 THEN m[b] = Null ELSE m[b] \in F /\ pos[m[b]] = pos[b] - 1
  BY <1>1 DEF IsChain
<1>5. c = 0 <=> F = {}
  BY <1>2, FS_EmptySet
<1> HIDE DEF c
<1>6. \A i \in 1 .. c : \E b \in F : pos[b] = i
  <2> DEFINE bad == {j \in 0 .. c - 1 : ~ \E b \in F : pos[b] = c - j}
  <2>1. bad = {}
    <3>1. SUFFICES ASSUME bad # {} PROVE FALSE
      OBVIOUS
    <3>2. bad \in SUBSET Nat
      OBVIOUS
    <3> HIDE DEF bad
    <3>3. PICK j \in bad : \A l \in bad : j <= l
      BY <3>1, <3>2, LeastNatural
    <3> USE DEF bad
    <3>4. j \in 0 .. c - 1 /\ ~ \E b \in F : pos[b] = c - j
      OBVIOUS
    <3>5. CASE j = 0
      <4>1. head \in F /\ pos[head] = c
        BY <3>4, <1>2, <1>4, <1>5
      <4> QED BY <4>1, <3>4, <3>5, <1>2
    <3>6. CASE j # 0
      <4>1. j - 1 \in 0 .. c - 1 /\ j - 1 \notin bad
        BY <3>3, <3>4, <3>6, <1>2
      <4>2. PICK b \in F : pos[b] = c - (j - 1)
        BY <4>1
      <4>3. pos[b] # 1
        BY <4>2, <3>4, <1>2
      <4>4. m[b] \in F /\ pos[m[b]] = c - j
        BY <4>2, <4>3, <3>4, <1>2, <1>4
      <4> QED BY <4>4, <3>4
    <3> QED BY <3>5, <3>6
  <2>2. SUFFICES ASSUME NEW i \in 1 .. c PROVE \E b \in F : pos[b] = i
    OBVIOUS
  <2>3. c - i \in 0 .. c - 1 /\ c - (c - i) = i
    BY <1>2
  <2> QED BY <2>1, <2>3
<1> DEFINE s == [i \in 1 .. c |-> CHOOSE b \in F : pos[b] = i]
<1>7. \A i \in 1 .. c : s[i] \in F /\ pos[s[i]] = i
  BY <1>6
<1>8. s \in [1 .. c -> F]
  BY <1>7
<1>9. \A b \in F : pos[b] \in 1 .. c /\ s[pos[b]] = b
  BY <1>3, <1>7
<1> HIDE DEF s
<1>10. IsInjective(s)
  BY <1>7, <1>8 DEF IsInjective
<1>11. Range(s) = F
  BY <1>8, <1>9 DEF Range
<1>12. Linked(m, head, s, c)
  <2>1. head = IF c = 0 THEN Null ELSE s[c]
    <3>1. CASE c = 0
      BY <3>1, <1>4, <1>5
    <3>2. CASE c # 0
      <4>1. head \in F /\ pos[head] = c
        BY <3>2, <1>4, <1>5
      <4> QED BY <4>1, <3>2, <1>9
    <3> QED BY <3>1, <3>2
  <2>2. ASSUME NEW i \in 1 .. c PROVE m[s[i]] = IF i = 1 THEN Null ELSE s[i-1]
    <3>1. s[i] \in F /\ pos[s[i]] = i
      BY <1>7
    <3>2. CASE i = 1
      BY <3>1, <3>2, <1>4
    <3>3. CASE i # 1
      <4>1. m[s[i]] \in F /\ pos[m[s[i]]] = i - 1
        BY <3>1, <3>3, <1>4
      <4> QED BY <4>1, <3>3, <1>9
    <3> QED BY <3>2, <3>3
  <2> QED BY <2>1, <2>2 DEF Linked
<1> QED BY <1>8, <1>10, <1>11, <1>12 DEF c

---------------------------------------------------------------------------
(* The stack in a state of the pool.                                       *)

\* The stack read from a chain holds its blocks, each once, and the links
\* spell it.
LEMMA StackFromChain ==
  ASSUME NEW m, NEW head, NEW F \in SUBSET Blocks, ChainOK(m, head, F)
  PROVE  /\ Cardinality(F) \in 0 .. BlockCount
         /\ StackFrom(m, head) \in [1 .. Cardinality(F) -> F]
         /\ Linked(m, head, StackFrom(m, head), Cardinality(F))
         /\ IsInjective(StackFrom(m, head)) /\ Range(StackFrom(m, head)) = F
<1>1. Cardinality(F) \in 0 .. BlockCount
  BY BlocksFinite, FS_Subset, PoolAssumption
<1>2. PICK s \in [1 .. Cardinality(F) -> F] :
        Linked(m, head, s, Cardinality(F)) /\ IsInjective(s) /\ Range(s) = F
  BY ChainLinked
<1>3. s \in [1 .. Cardinality(F) -> Blocks]
  OBVIOUS
<1>4. StackFrom(m, head) = s
  BY <1>1, <1>2, <1>3, StackFromLinked
<1> QED BY <1>1, <1>2, <1>4

\* Below a watermark there are as many blocks as it says, less those held.
LEMMA FreedCount ==
  ASSUME NEW w \in 0 .. BlockCount, NEW H, H \subseteq 0 .. w - 1
  PROVE  Cardinality((0 .. w - 1) \ H) = w - Cardinality(H)
<1>1. w \in Nat
  BY PoolAssumption
<1>2. IsFiniteSet(0 .. w - 1) /\ Cardinality(0 .. w - 1) = w
  BY <1>1, BelowMark
<1>3. (0 .. w - 1) \cap H = H
  OBVIOUS
<1> DEFINE S == 0 .. w - 1
<1> HIDE DEF S
<1>4. IsFiniteSet(S) => Cardinality(S \ H) = Cardinality(S) - Cardinality(S \cap H)
  BY FS_Difference
<1> QED BY <1>2, <1>3, <1>4 DEF S

\* The shadow's stack in a state with the invariant.
LEMMA StackNow ==
  ASSUME IInv
  PROVE  \E n \in 0 .. BlockCount :
           /\ n = watermark - Cardinality(held)
           /\ FreeStack \in [1 .. n -> FreedBlocks]
           /\ FreeStack \in Seq(Blocks) /\ Len(FreeStack) = n
           /\ Linked(mem, freeList, FreeStack, n)
           /\ IsInjective(FreeStack) /\ Range(FreeStack) = FreedBlocks
<1>1. FreedBlocks \in SUBSET Blocks /\ ChainOK(mem, freeList, FreedBlocks)
  BY FreedFacts DEF IInv, FreeListOK
<1> DEFINE n == Cardinality(FreedBlocks)
<1>2. /\ n \in 0 .. BlockCount
      /\ FreeStack \in [1 .. n -> FreedBlocks]
      /\ Linked(mem, freeList, FreeStack, n)
      /\ IsInjective(FreeStack) /\ Range(FreeStack) = FreedBlocks
  BY <1>1, StackFromChain DEF FreeStack
<1>3. n = watermark - Cardinality(held)
  BY FreedCount DEF IInv, TypeOK, FreeListOK, FreedBlocks
<1> HIDE DEF n
<1>4. n \in Nat
  BY <1>2, PoolAssumption
<1>5. FreeStack \in [1 .. n -> Blocks]
  BY <1>1, <1>2
<1>6. FreeStack \in Seq(Blocks) /\ Len(FreeStack) = n
  BY <1>4, <1>5
<1> QED BY <1>2, <1>3, <1>6

\* After a step, the stack's length is what the shadow's count of free blocks
\* takes it for.
LEMMA UsedNext ==
  ASSUME IInv'
  PROVE  BlockCount - (Len(FreeStack') + (BlockCount - watermark')) = UsedBlocks(freeBlockCount')
<1>1. held' \subseteq 0 .. watermark' - 1 /\ watermark' \in 0 .. BlockCount
      /\ ChainOK(mem', freeList', (0 .. watermark' - 1) \ held')
      /\ UsedBlocks(freeBlockCount') = Cardinality(held')
  BY DEF IInv, TypeOK, FreeListOK, FreedBlocks, CountsOK
<1> DEFINE F == (0 .. watermark' - 1) \ held'
           c == Cardinality(F)
<1>2. F \in SUBSET Blocks
  <2>1. watermark' \in Nat /\ BlockCount \in Nat /\ watermark' <= BlockCount
    BY <1>1, PoolAssumption
  <2>2. \A w, n \in Nat : w <= n => 0 .. w - 1 \subseteq 0 .. n - 1
    OBVIOUS
  <2>3. 0 .. watermark' - 1 \subseteq 0 .. BlockCount - 1
    BY <2>1, <2>2
  <2> QED BY <2>3 DEF Blocks
<1>3. c = watermark' - Cardinality(held')
  BY <1>1, FreedCount
<1>4. c \in 0 .. BlockCount /\ FreeStack' \in [1 .. c -> F]
  BY <1>1, <1>2, StackFromChain DEF FreeStack
<1>5. held' \in SUBSET Blocks
  BY DEF IInv, TypeOK
<1>6. Cardinality(held') \in Nat /\ watermark' \in Nat /\ BlockCount \in Nat
  BY <1>1, <1>5, BlocksFinite, PoolAssumption
<1> HIDE DEF F, c
<1>7. Len(FreeStack') = c
  <2>1. c \in Nat
    BY <1>4, PoolAssumption
  <2> QED BY <1>4, <2>1
<1>8. UsedBlocks(freeBlockCount') = Cardinality(held')
  BY <1>1
<1> QED BY <1>3, <1>6, <1>7, <1>8

\* The shadow's names for the library's operators and for the arithmetic of
\* the counters are those of Pool.
LEMMA ShadowOperators ==
  /\ \A f : Shadow!Range(f) = Range(f)
  /\ \A S, T : Shadow!Injection(S, T) = Injection(S, T)
  /\ \A x, n : Shadow!Plus(x, n) = Plus(x, n)
  /\ Shadow!Live = held
<1>1. \A f : Shadow!Range(f) = Range(f)
  BY DEF Shadow!Range, Range
<1>2. \A S, T : Shadow!Injection(S, T) = Injection(S, T)
  BY DEF Shadow!Injection, Injection, Shadow!IsInjective, IsInjective
<1>3. \A x, n : Shadow!Plus(x, n) = Plus(x, n)
  BY DEF Shadow!Plus, Plus
<1>4. Shadow!Live = held
  BY DEF Shadow!Live, Kept
<1> QED BY <1>1, <1>2, <1>3, <1>4

\* statAlloc() counts what the shadow counts.
LEMMA NotesAlloc ==
  ASSUME IInv, IInv', EnableStats, NEW c \in Nat, StatAlloc(UsedBlocks(freeBlockCount'), c)
  PROVE  Shadow!NoteAlloc(c)
<1>1. stats \in StatsType
  BY DEF IInv, TypeOK, StatsType
<1> DEFINE used == UsedBlocks(freeBlockCount')
<1>2. BlockCount - Shadow!FreeNow(FreeStack', watermark') = used
  BY UsedNext DEF Shadow!FreeNow
<1> HIDE DEF used
<1>3. stats' = [totalAllocated |-> Plus(stats.totalAllocated, c),
                allocations    |-> Plus(stats.allocations, c),
                peakUsed       |-> IF used > stats.peakUsed THEN used ELSE stats.peakUsed,
                deallocations  |-> stats.deallocations]
  BY DEF StatAlloc, used
<1>4. stats' = [stats EXCEPT !.totalAllocated = Plus(stats.totalAllocated, c),
                             !.allocations = Plus(stats.allocations, c),
                             !.peakUsed = IF used > stats.peakUsed THEN used ELSE stats.peakUsed]
  <2> DEFINE total == Plus(stats.totalAllocated, c)
             allocs == Plus(stats.allocations, c)
             peak == IF used > stats.peakUsed THEN used ELSE stats.peakUsed
             s1 == [stats EXCEPT !.totalAllocated = total]
             s2 == [s1 EXCEPT !.allocations = allocs]
  <2> HIDE DEF total, allocs, peak
  <2>1. s1 = [totalAllocated |-> total, peakUsed |-> stats.peakUsed,
              allocations |-> stats.allocations, deallocations |-> stats.deallocations]
    BY <1>1 DEF StatsType
  <2> HIDE DEF s1
  <2>2. s2 = [totalAllocated |-> total, peakUsed |-> stats.peakUsed,
              allocations |-> allocs, deallocations |-> stats.deallocations]
    BY <2>1
  <2> HIDE DEF s2
  <2>3. [s2 EXCEPT !.peakUsed = peak] =
             [totalAllocated |-> total, peakUsed |-> peak,
              allocations |-> allocs, deallocations |-> stats.deallocations]
    BY <2>2
  <2>4. stats' = [s2 EXCEPT !.peakUsed = peak]
    BY <1>3, <2>3 DEF total, allocs, peak
  <2> QED BY <2>4 DEF s1, s2, total, allocs, peak
<1> QED BY <1>2, <1>4, ShadowOperators DEF Shadow!NoteAlloc

\* statDealloc() counts what the shadow counts.
LEMMA NotesDealloc ==
  ASSUME EnableStats, NEW c, StatDealloc(c)
  PROVE  Shadow!NoteDealloc(c)
BY ShadowOperators DEF StatDealloc, Shadow!NoteDealloc

---------------------------------------------------------------------------
(* Taking blocks.                                                          *)

\* Following the links k times from the head takes the last k of the sequence
\* and leaves the rest of it.
LEMMA LinkedDrain ==
  ASSUME NEW m, NEW head, NEW n \in Nat, NEW s \in [1 .. n -> Blocks], Linked(m, head, s, n),
         NEW k \in Nat, NEW out \in [1 .. k -> Blocks], NEW rest, IsWalk(m, head, k, out, rest)
  PROVE  /\ k <= n
         /\ \A i \in 1 .. k : out[i] = s[n + 1 - i]
         /\ rest = Null <=> k = n
         /\ Linked(m, rest, First(s, n - k), n - k)
<1>1. /\ head = IF n = 0 THEN Null ELSE s[n]
      /\ \A i \in 1 .. n : m[s[i]] = IF i = 1 THEN Null ELSE s[i-1]
  BY DEF Linked
<1>2. /\ \A i \in 1 .. k : out[i] = IF i = 1 THEN head ELSE m[out[i-1]]
      /\ rest = IF k = 0 THEN head ELSE m[out[k]]
  BY DEF IsWalk
<1>3. \A i \in 1 .. k : out[i] # Null
  BY PoolAssumption
<1>4. \A i \in 1 .. n : s[i] # Null
  BY PoolAssumption
<1>5. \A i \in 1 .. k : i <= n /\ out[i] = s[n + 1 - i]
  <2> DEFINE bad == {i \in 1 .. k : ~ (i <= n /\ out[i] = s[n + 1 - i])}
  <2>1. SUFFICES ASSUME bad # {} PROVE FALSE
    OBVIOUS
  <2>2. bad \in SUBSET Nat
    OBVIOUS
  <2> HIDE DEF bad
  <2>3. PICK i \in bad : \A j \in bad : i <= j
    BY <2>1, <2>2, LeastNatural
  <2> USE DEF bad
  <2>4. i \in 1 .. k /\ ~ (i <= n /\ out[i] = s[n + 1 - i])
    OBVIOUS
  <2>5. CASE i = 1
    <3>1. out[i] = head /\ out[i] # Null
      BY <2>4, <2>5, <1>2, <1>3
    <3> QED BY <3>1, <2>4, <2>5, <1>1
  <2>6. CASE i # 1
    <3>1. i - 1 \in 1 .. k /\ i - 1 \notin bad
      BY <2>3, <2>4, <2>6
    <3>2. i - 1 <= n /\ out[i-1] = s[n + 1 - (i - 1)]
      BY <3>1
    <3>3. out[i] = m[out[i-1]] /\ out[i] # Null
      BY <2>4, <2>6, <1>2, <1>3
    <3>4. n + 1 - (i - 1) \in 1 .. n /\ n + 1 - (i - 1) - 1 = n + 1 - i
          /\ (n + 1 - (i - 1) = 1 <=> i = n + 1)
      BY <3>1, <3>2, <2>4
    <3>5. out[i] = IF i = n + 1 THEN Null ELSE s[n + 1 - i]
      BY <3>2, <3>3, <3>4, <1>1
    <3>6. i # n + 1 /\ i <= n
      BY <3>2, <3>3, <3>5, <2>4
    <3> QED BY <3>5, <3>6, <2>4
  <2> QED BY <2>5, <2>6
<1>6. k <= n
  <2>1. k = 0 \/ k \in 1 .. k
    OBVIOUS
  <2> QED BY <2>1, <1>5
<1>7. rest = IF n - k = 0 THEN Null ELSE s[n - k]
  <2>1. CASE k = 0
    BY <2>1, <1>1, <1>2
  <2>2. CASE k # 0
    <3>1. out[k] = s[n + 1 - k] /\ n + 1 - k \in 1 .. n /\ n + 1 - k - 1 = n - k
          /\ (n + 1 - k = 1 <=> n - k = 0)
      BY <2>2, <1>5, <1>6
    <3> QED BY <3>1, <2>2, <1>1, <1>2
  <2> QED BY <2>1, <2>2
<1>8. rest = Null <=> k = n
  <2>1. k # n => n - k \in 1 .. n
    BY <1>6
  <2> QED BY <2>1, <1>4, <1>7
<1>9. Linked(m, rest, First(s, n - k), n - k)
  <2> DEFINE r == First(s, n - k)
  <2>1. rest = IF n - k = 0 THEN Null ELSE r[n - k]
    BY <1>6, <1>7 DEF First
  <2>2. \A i \in 1 .. n - k : m[r[i]] = IF i = 1 THEN Null ELSE r[i-1]
    <3> SUFFICES ASSUME NEW i \in 1 .. n - k PROVE m[r[i]] = IF i = 1 THEN Null ELSE r[i-1]
      OBVIOUS
    <3>1. i \in 1 .. n /\ r[i] = s[i] /\ (i # 1 => i - 1 \in 1 .. n - k /\ r[i-1] = s[i-1])
      BY <1>6 DEF First
    <3> QED BY <3>1, <1>1
  <2> HIDE DEF r
  <2> QED BY <2>1, <2>2 DEF Linked, r
<1> QED BY <1>5, <1>6, <1>8, <1>9

\* allocate() is allocateBatch() of one block.
LEMMA AllocateIsBatchOfOne ==
  ASSUME IInv, Allocate
  PROVE  AllocateBatch(1)
<1>0. watermark \in 0 .. BlockCount /\ freeList \in Blocks \cup {Null} /\ BlockCount \in Nat
  BY PoolAssumption DEF IInv, TypeOK
<1> DEFINE Batch(k, out, rest) ==
      LET take  == TakeVirgin(k, 1)
          count == k + take
      IN  /\ Drained(out, rest, 1)
          /\ ret' = [i \in 1 .. count |-> IF i <= k THEN out[i] ELSE watermark + (i - k - 1)]
          /\ freeList' = rest
          /\ watermark' = watermark + take
          /\ freeBlockCount' = freeBlockCount - count
          /\ IF count > 0 THEN StatAlloc(UsedBlocks(freeBlockCount'), count)
                          ELSE UNCHANGED stats
          /\ held' = held \cup Range(ret')
          /\ UNCHANGED mem
<1>1. SUFFICES \E k \in 0 .. 1 : \E out \in [1 .. k -> Blocks], rest \in Blocks \cup {Null} :
                 Batch(k, out, rest)
  BY DEF AllocateBatch
<1>2. ASSUME NEW b \in Blocks, PopFreeList(b), freeBlockCount' = freeBlockCount - 1, mem' = mem,
             StatAlloc(UsedBlocks(freeBlockCount'), 1), held' = held \cup {b}, ret' = <<b>>
      PROVE  \E out \in [1 .. 1 -> Blocks], rest \in Blocks \cup {Null} : Batch(1, out, rest)
  <2>1. b = freeList /\ freeList' = mem[b] /\ watermark' = watermark
    BY <1>2 DEF PopFreeList
  <2>2. freeList' \in Blocks \cup {Null}
    BY <1>2, AcquireFacts DEF AcquireBlock
  <2> DEFINE out == [i \in 1 .. 1 |-> b]
  <2>3. out \in [1 .. 1 -> Blocks] /\ Len(out) = 1 /\ DOMAIN out = 1 .. 1 /\ out # <<>> /\ out[1] = b
    OBVIOUS
  <2>4. TakeVirgin(1, 1) = 0
    BY <1>0 DEF TakeVirgin
  <2>5. ret' = [i \in 1 .. 1 + 0 |-> IF i <= 1 THEN out[i] ELSE watermark + (i - 1 - 1)]
    BY <1>2
  <2>6. Range(ret') = {b}
    BY <1>2 DEF Range
  <2>7. Drained(out, freeList', 1)
    BY <2>1, <2>3 DEF Drained
  <2> HIDE DEF out
  <2>8. Batch(1, out, freeList')
    BY <1>2, <1>0, <2>1, <2>4, <2>5, <2>6, <2>7
  <2> QED BY <2>2, <2>3, <2>8
<1>3. ASSUME freeList = Null, freeList' = Null, mem' = mem,
             watermark < BlockCount,
             watermark' = watermark + 1, freeBlockCount' = freeBlockCount - 1,
             StatAlloc(UsedBlocks(freeBlockCount'), 1), held' = held \cup {watermark},
             ret' = <<watermark>>
      PROVE  \E out \in [1 .. 0 -> Blocks], rest \in Blocks \cup {Null} : Batch(0, out, rest)
  <2> DEFINE out == [i \in 1 .. 0 |-> 0]
  <2>1. out \in [1 .. 0 -> Blocks] /\ out = <<>> /\ DOMAIN out = {}
    OBVIOUS
  <2>2. TakeVirgin(0, 1) = 1
    BY <1>0, <1>3 DEF TakeVirgin
  <2>3. ret' = [i \in 1 .. 0 + 1 |-> IF i <= 0 THEN out[i] ELSE watermark + (i - 0 - 1)]
    BY <1>0, <1>3
  <2>4. Range(ret') = {watermark}
    BY <1>3 DEF Range
  <2>5. Drained(out, Null, 1)
    BY <1>3, <2>1 DEF Drained
  <2> HIDE DEF out
  <2>6. Batch(0, out, Null)
    BY <1>3, <2>2, <2>3, <2>4, <2>5
  <2> QED BY <2>1, <2>6
<1>4. ASSUME Exhausted, ret' = <<>>, UNCHANGED <<arena, stats, held>>
      PROVE  \E out \in [1 .. 0 -> Blocks], rest \in Blocks \cup {Null} : Batch(0, out, rest)
  <2> DEFINE out == [i \in 1 .. 0 |-> 0]
  <2>1. out \in [1 .. 0 -> Blocks] /\ out = <<>> /\ DOMAIN out = {}
    OBVIOUS
  <2>2. freeList = Null /\ watermark = BlockCount
    BY <1>0, <1>4 DEF Exhausted
  <2>3. TakeVirgin(0, 1) = 0
    BY <1>0, <2>2 DEF TakeVirgin
  <2>4. ret' = [i \in 1 .. 0 + 0 |-> IF i <= 0 THEN out[i] ELSE watermark + (i - 0 - 1)]
    BY <1>4
  <2>5. Range(ret') = {}
    BY <1>4 DEF Range
  <2>6. Drained(out, Null, 1)
    BY <2>1, <2>2 DEF Drained
  <2>7. freeBlockCount \in Int
    BY <1>0 DEF IInv, TypeOK
  <2> HIDE DEF out
  <2>8. Batch(0, out, Null)
    BY <1>0, <1>4, <2>2, <2>3, <2>4, <2>5, <2>6, <2>7 DEF arena
  <2> QED BY <2>1, <2>8
<1> HIDE DEF Batch
<1>5. CASE Exhausted /\ ret' = <<>> /\ UNCHANGED <<arena, stats, held>>
  <2>1. 0 \in 0 .. 1
    OBVIOUS
  <2> QED BY <1>4, <1>5, <2>1
<1>6. ASSUME NEW b \in Blocks, AcquireBlock(b), StatAlloc(UsedBlocks(freeBlockCount'), 1),
             held' = held \cup {b}, ret' = <<b>>
      PROVE  \E k \in 0 .. 1 : \E out \in [1 .. k -> Blocks], rest \in Blocks \cup {Null} :
               Batch(k, out, rest)
  <2>1. CASE PopFreeList(b)
    <3>1. \E out \in [1 .. 1 -> Blocks], rest \in Blocks \cup {Null} : Batch(1, out, rest)
      BY <1>2, <1>6, <2>1 DEF AcquireBlock
    <3>2. 1 \in 0 .. 1
      OBVIOUS
    <3> QED BY <3>1, <3>2
  <2>2. CASE BumpWatermark(b)
    <3>1. \E out \in [1 .. 0 -> Blocks], rest \in Blocks \cup {Null} : Batch(0, out, rest)
      BY <1>3, <1>6, <2>2 DEF AcquireBlock, BumpWatermark
    <3>2. 0 \in 0 .. 1
      OBVIOUS
    <3> QED BY <3>1, <3>2
  <2> QED BY <1>6, <2>1, <2>2 DEF AcquireBlock
<1> QED BY <1>5, <1>6 DEF Allocate

\* allocateBatch() takes what the shadow's takeNext() takes, in its order.
LEMMA IssueIsShadowed ==
  ASSUME IInv, IInv', EnableStats, NEW requested \in Nat, AllocateBatch(requested)
  PROVE  Shadow!AllocateBatch(requested)
<1>1. PICK n \in 0 .. BlockCount :
        /\ FreeStack \in [1 .. n -> FreedBlocks]
        /\ FreeStack \in Seq(Blocks) /\ Len(FreeStack) = n
        /\ Linked(mem, freeList, FreeStack, n)
  BY StackNow
<1> DEFINE Taken(k, out, rest) ==
      /\ Drained(out, rest, requested)
      /\ ret' = [i \in 1 .. k + TakeVirgin(k, requested) |->
                   IF i <= k THEN out[i] ELSE watermark + (i - k - 1)]
      /\ freeList' = rest
      /\ watermark' = watermark + TakeVirgin(k, requested)
      /\ IF k + TakeVirgin(k, requested) > 0
           THEN StatAlloc(UsedBlocks(freeBlockCount'), k + TakeVirgin(k, requested))
           ELSE UNCHANGED stats
      /\ held' = held \cup Range(ret')
      /\ UNCHANGED mem
<1>0. PICK k \in 0 .. requested : \E out \in [1 .. k -> Blocks], rest \in Blocks \cup {Null} :
        Taken(k, out, rest)
  BY DEF AllocateBatch
<1>2. PICK out \in [1 .. k -> Blocks], rest \in Blocks \cup {Null} : Taken(k, out, rest)
  BY <1>0
<1>3. n \in Nat /\ n <= BlockCount /\ BlockCount \in Nat /\ watermark \in 0 .. BlockCount
      /\ watermark \in Nat /\ k \in Nat
  BY PoolAssumption DEF IInv, TypeOK
<1>4. FreeStack \in [1 .. n -> Blocks]
  BY <1>1, FreedFacts
<1>5. IsWalk(mem, freeList, k, out, rest) /\ (k = requested \/ rest = Null)
  <2>1. Len(out) = k /\ DOMAIN out = 1 .. k /\ (out = <<>> <=> k = 0)
    BY <1>3
  <2> QED BY <1>2, <2>1 DEF Drained, IsWalk
<1> DEFINE left == First(FreeStack, n - k)
<1>6. /\ k <= n
      /\ \A i \in 1 .. k : out[i] = FreeStack[n + 1 - i]
      /\ rest = Null <=> k = n
      /\ Linked(mem, rest, left, n - k)
  <2> HIDE DEF Taken
  <2>1. Linked(mem, freeList, FreeStack, n)
    BY <1>1
  <2>2. IsWalk(mem, freeList, k, out, rest)
    BY <1>5
  <2> QED BY <1>3, <1>4, <2>1, <2>2, LinkedDrain
<1>7. k = IF requested < n THEN requested ELSE n
  BY <1>3, <1>5, <1>6
<1>8. FreeStack' = left
  <2>1. n - k \in 0 .. BlockCount /\ left \in [1 .. n - k -> Blocks]
    BY <1>3, <1>4, <1>6 DEF First
  <2>2. StackFrom(mem, rest) = left
    BY <1>6, <2>1, StackFromLinked
  <2> QED BY <1>2, <2>2 DEF FreeStack
<1>9. FreeStack' = SubSeq(FreeStack, 1, Len(FreeStack) - k)
  <2>1. SubSeq(FreeStack, 1, n - k) = [i \in 1 .. n - k |-> FreeStack[i]]
    BY <1>1, <1>3, <1>6
  <2> QED BY <1>1, <1>8, <2>1 DEF First
<1> HIDE DEF left
<1> DEFINE take == TakeVirgin(k, requested)
<1>10. /\ take = IF requested - k < BlockCount - watermark THEN requested - k
                                                          ELSE BlockCount - watermark
       /\ take \in Nat
  BY <1>0, <1>3 DEF TakeVirgin
<1> HIDE DEF take
<1>11. ret' = [i \in 1 .. k + take |-> IF i <= k THEN FreeStack[Len(FreeStack) + 1 - i]
                                                 ELSE watermark + (i - k - 1)]
  <2>1. \A i \in 1 .. k + take : i <= k => out[i] = FreeStack[Len(FreeStack) + 1 - i]
    BY <1>1, <1>3, <1>6
  <2>2. ret' = [i \in 1 .. k + take |-> IF i <= k THEN out[i] ELSE watermark + (i - k - 1)]
    BY <1>2 DEF take
  <2> QED BY <2>1, <2>2
<1>12. Shadow!TakeNext(requested)
  BY <1>1, <1>2, <1>7, <1>9, <1>10, <1>11 DEF Shadow!TakeNext, take
<1>13. Len(ret') = k + take /\ (ret' = <<>> <=> k + take = 0)
  <2>1. k + take \in Nat
    BY <1>3, <1>10
  <2> QED BY <1>11, <2>1
<1>14. IF ret' = <<>> THEN UNCHANGED stats ELSE Shadow!NoteAlloc(Len(ret'))
  <2>1. CASE k + take > 0
    <3>1. StatAlloc(UsedBlocks(freeBlockCount'), k + take) /\ k + take \in Nat
      BY <1>2, <1>3, <1>10, <2>1 DEF take
    <3> QED BY <1>13, <2>1, <3>1, NotesAlloc
  <2>2. CASE ~ (k + take > 0)
    <3>1. k + take = 0 /\ UNCHANGED stats
      BY <1>2, <1>3, <1>10, <2>2 DEF take
    <3> QED BY <1>13, <3>1
  <2> QED BY <2>1, <2>2
<1>15. Shadow!Adopt(Range(ret'))
  <2>1. Kept' = [b \in held' |-> mem[b]] /\ Kept = [b \in held |-> mem[b]]
    BY <1>2 DEF Kept
  <2>2. \A b \in held' : mem[b] \in Words
    BY <1>2 DEF IInv, TypeOK
  <2>3. Kept' \in [held \cup Range(ret') -> Words]
    BY <1>2, <2>1, <2>2
  <2>4. \A b \in held : Kept'[b] = Kept[b]
    BY <1>2, <2>1
  <2> QED BY <2>3, <2>4, ShadowOperators DEF Shadow!Adopt
<1> QED BY <1>12, <1>14, <1>15, ShadowOperators DEF Shadow!AllocateBatch

---------------------------------------------------------------------------
(* Returning blocks.                                                       *)

(* The positions O of a span, numbered in increasing order by e.           *)
Enumerates(e, O) ==
  /\ e \in [1 .. Cardinality(O) -> O]
  /\ \A i \in O : \E k \in 1 .. Cardinality(O) : e[k] = i
  /\ \A k, l \in 1 .. Cardinality(O) : k < l => e[k] < e[l]

(* The number of positions up to i.                                        *)
UpTo(O, i) == Cardinality({j \in O : j <= i})

\* Counting the positions up to each numbers them in increasing order.
LEMMA InOrder ==
  ASSUME NEW len \in Nat, NEW O \in SUBSET (1 .. len)
  PROVE  /\ IsFiniteSet(O) /\ Cardinality(O) \in Nat
         /\ Enumerates([k \in 1 .. Cardinality(O) |-> CHOOSE i \in O : UpTo(O, i) = k], O)
<1> DEFINE c == Cardinality(O)
           Below(i) == {j \in O : j <= i}
           rank == [i \in O |-> UpTo(O, i)]
<1>1. IsFiniteSet(O) /\ c \in Nat /\ \A i \in O : i \in Nat
  <2>1. IsFiniteSet(1 .. len)
    BY FS_Interval
  <2>2. IsFiniteSet(O) /\ c \in Nat
    BY <2>1, FS_Subset, FS_CardinalityType
  <2> QED BY <2>2
<1>2. \A i \in O : IsFiniteSet(Below(i)) /\ Cardinality(Below(i)) \in 1 .. c
  <2> SUFFICES ASSUME NEW i \in O
               PROVE  IsFiniteSet(Below(i)) /\ Cardinality(Below(i)) \in 1 .. c
    OBVIOUS
  <2>1. Below(i) \subseteq O /\ i \in Below(i)
    BY <1>1
  <2>2. IsFiniteSet(Below(i)) /\ Cardinality(Below(i)) <= c /\ Cardinality(Below(i)) \in Nat
    BY <1>1, <2>1, FS_Subset, FS_CardinalityType
  <2>3. Cardinality(Below(i)) # 0
    BY <2>1, <2>2, FS_EmptySet
  <2> HIDE DEF c, Below
  <2> QED BY <1>1, <2>2, <2>3
<1>3. \A i, j \in O : i < j => UpTo(O, i) < UpTo(O, j)
  <2> SUFFICES ASSUME NEW i \in O, NEW j \in O, i < j PROVE UpTo(O, i) < UpTo(O, j)
    OBVIOUS
  <2>0. i \in Nat /\ j \in Nat /\ \A l \in O : l \in Nat
    BY <1>1
  <2>a. \A l \in O : l <= i => l <= j
    BY <2>0
  <2>b. j <= j /\ ~ (j <= i)
    BY <2>0
  <2>1. Below(i) \subseteq Below(j) /\ j \in Below(j) /\ j \notin Below(i)
    BY <2>a, <2>b
  <2>2. Cardinality(Below(i)) <= Cardinality(Below(j))
        /\ (Cardinality(Below(i)) = Cardinality(Below(j)) => Below(i) = Below(j))
    BY <1>2, <2>1, FS_Subset
  <2>3. Cardinality(Below(i)) \in Nat /\ Cardinality(Below(j)) \in Nat
    BY <1>2, FS_CardinalityType
  <2>4. UpTo(O, i) = Cardinality(Below(i)) /\ UpTo(O, j) = Cardinality(Below(j))
    BY DEF UpTo
  <2> HIDE DEF Below
  <2> QED BY <2>1, <2>2, <2>3, <2>4
<1>4. \A i \in O : UpTo(O, i) \in 1 .. c
  BY <1>2 DEF UpTo
<1> HIDE DEF c
<1>5. rank \in [O -> 1 .. c]
  BY <1>4
<1>6. \A i, j \in O : rank[i] = rank[j] => i = j
  <2> SUFFICES ASSUME NEW i \in O, NEW j \in O, rank[i] = rank[j], i # j PROVE FALSE
    OBVIOUS
  <2>1. i < j \/ j < i
    BY <1>1
  <2>2. UpTo(O, i) \in Int /\ UpTo(O, j) \in Int
    BY <1>4
  <2> QED BY <1>3, <2>1, <2>2
<1>7. \A k \in 1 .. c : \E i \in O : UpTo(O, i) = k
  <2>1. rank \in Surjection(O, Range(rank)) /\ rank \in [O -> Range(rank)]
    BY <1>5, Fun_RangeProperties DEF Range
  <2>2. IsInjective(rank)
    BY <1>5, <1>6 DEF IsInjective
  <2>3. rank \in Bijection(O, Range(rank))
    BY <2>1, <2>2 DEF Bijection, Injection
  <2>4. Cardinality(Range(rank)) = c
    BY <1>1, <2>3, FS_Bijection DEF ExistsBijection, c
  <2>5. Range(rank) \subseteq 1 .. c
    BY <1>5 DEF Range
  <2>6. IsFiniteSet(1 .. c) /\ Cardinality(1 .. c) = c
    BY <1>1, FS_Interval
  <2>7. Range(rank) = 1 .. c
    BY <2>4, <2>5, <2>6, FS_Subset
  <2>8. \A k \in Range(rank) : \E i \in O : rank[i] = k
    BY <1>5 DEF Range
  <2> QED BY <2>7, <2>8
<1> DEFINE e == [k \in 1 .. c |-> CHOOSE i \in O : UpTo(O, i) = k]
<1>8. \A k \in 1 .. c : e[k] \in O /\ UpTo(O, e[k]) = k
  BY <1>7
<1>9. e \in [1 .. c -> O]
  BY <1>8
<1>10. \A i \in O : UpTo(O, i) \in 1 .. c /\ e[UpTo(O, i)] = i
  <2> SUFFICES ASSUME NEW i \in O PROVE UpTo(O, i) \in 1 .. c /\ e[UpTo(O, i)] = i
    OBVIOUS
  <2>1. UpTo(O, i) \in 1 .. c
    BY <1>4
  <2>2. e[UpTo(O, i)] \in O /\ UpTo(O, e[UpTo(O, i)]) = UpTo(O, i)
    BY <1>8, <2>1
  <2> HIDE DEF e
  <2> QED BY <1>6, <2>1, <2>2
<1> HIDE DEF e
<1>11. \A k, l \in 1 .. c : k < l => e[k] < e[l]
  <2> SUFFICES ASSUME NEW k \in 1 .. c, NEW l \in 1 .. c, k < l PROVE e[k] < e[l]
    OBVIOUS
  <2>1. e[k] \in O /\ e[l] \in O /\ UpTo(O, e[k]) = k /\ UpTo(O, e[l]) = l
    BY <1>8
  <2>2. e[k] \in Nat /\ e[l] \in Nat /\ k \in Int /\ l \in Int
    <3>1. e[k] \in Nat /\ e[l] \in Nat
      BY <1>1, <2>1
    <3>2. k \in Int /\ l \in Int
      BY <1>1
    <3> QED BY <3>1, <3>2
  <2>3. e[k] # e[l]
    BY <2>1, <2>2
  <2>4. ~ (e[l] < e[k])
    <3>1. e[l] < e[k] => UpTo(O, e[l]) < UpTo(O, e[k])
      BY <1>3, <2>1
    <3> QED BY <2>1, <2>2, <3>1
  <2> QED BY <2>2, <2>3, <2>4
<1>12. Enumerates(e, O)
  BY <1>9, <1>10, <1>11 DEF Enumerates, c
<1> QED BY <1>1, <1>12 DEF e, c

\* What the loop's local `head` is, told by the numbering of the positions it
\* does not skip: the block before, or the old head.
LEMMA HeadInOrder ==
  ASSUME NEW ptrs, NEW len \in Nat, OwnedAt(ptrs) \in SUBSET (1 .. len),
         NEW c \in Nat, c = Cardinality(OwnedAt(ptrs)), NEW e, Enumerates(e, OwnedAt(ptrs))
  PROVE  /\ \A k \in 1 .. c : HeadBefore(ptrs, e[k]) = IF k = 1 THEN freeList ELSE ptrs[e[k-1]]
         /\ HeadBefore(ptrs, len + 1) = IF c = 0 THEN freeList ELSE ptrs[e[c]]
<1> DEFINE O == OwnedAt(ptrs)
           earlier(i) == {j \in O : j < i}
<1>1. /\ \A k \in 1 .. c : e[k] \in O
      /\ \A i \in O : \E k \in 1 .. c : e[k] = i
      /\ \A k, l \in 1 .. c : k < l => e[k] < e[l]
  BY DEF Enumerates
<1>2. \A i \in O : i \in 1 .. len
  OBVIOUS
<1>3. \A i : HeadBefore(ptrs, i) = IF earlier(i) = {} THEN freeList ELSE ptrs[Max(earlier(i))]
  BY DEF HeadBefore
<1> HIDE DEF O
<1>4. \A k \in 1 .. c : e[k] \in Nat
  BY <1>1, <1>2
<1>5. \A k, l \in 1 .. c : e[k] < e[l] => k < l
  <2> SUFFICES ASSUME NEW k \in 1 .. c, NEW l \in 1 .. c, e[k] < e[l], ~ (k < l) PROVE FALSE
    OBVIOUS
  <2>1. l < k \/ l = k
    OBVIOUS
  <2>2. e[l] < e[k] \/ e[l] = e[k]
    BY <1>1, <2>1
  <2>3. e[k] \in Nat /\ e[l] \in Nat
    BY <1>4
  <2> QED BY <2>2, <2>3
<1>6. ASSUME NEW i, NEW q \in 1 .. c + 1, \A l \in 1 .. c : e[l] < i <=> l < q
      PROVE  HeadBefore(ptrs, i) = IF q = 1 THEN freeList ELSE ptrs[e[q-1]]
  <2>1. CASE q = 1
    <3>1. earlier(i) = {}
      <4> SUFFICES ASSUME NEW j \in O, j < i PROVE FALSE
        OBVIOUS
      <4>1. PICK l \in 1 .. c : e[l] = j
        BY <1>1
      <4> QED BY <4>1, <1>6, <2>1
    <3> QED BY <3>1, <2>1, <1>3
  <2>2. CASE q # 1
    <3>1. q - 1 \in 1 .. c /\ q - 1 < q
      BY <2>2
    <3>2. e[q-1] \in earlier(i) /\ e[q-1] \in Nat
      BY <3>1, <1>1, <1>4, <1>6
    <3>3. ASSUME NEW j \in earlier(i) PROVE j \in Nat /\ e[q-1] >= j
      <4>1. PICK l \in 1 .. c : e[l] = j
        BY <1>1
      <4>2. l < q /\ j \in Nat
        BY <4>1, <1>4, <1>6
      <4>3. l = q - 1 \/ l < q - 1
        BY <4>2
      <4>4. e[l] = e[q-1] \/ e[l] < e[q-1]
        BY <4>3, <3>1, <1>1
      <4> QED BY <4>1, <4>2, <4>4, <3>2
    <3> HIDE DEF earlier
    <3>4. Max(earlier(i)) = e[q-1]
      <4>1. \A x \in earlier(i) : (\A y \in earlier(i) : x >= y) => x = e[q-1]
        <5> SUFFICES ASSUME NEW x \in earlier(i), \A y \in earlier(i) : x >= y PROVE x = e[q-1]
          OBVIOUS
        <5>1. x >= e[q-1] /\ e[q-1] >= x /\ x \in Nat
          BY <3>2, <3>3
        <5> QED BY <5>1, <3>2
      <4> QED BY <4>1, <3>2, <3>3 DEF Max
    <3> QED BY <3>2, <3>4, <2>2, <1>3
  <2> QED BY <2>1, <2>2
<1>7. ASSUME NEW k \in 1 .. c
      PROVE  HeadBefore(ptrs, e[k]) = IF k = 1 THEN freeList ELSE ptrs[e[k-1]]
  <2>1. k \in 1 .. c + 1 /\ \A l \in 1 .. c : e[l] < e[k] <=> l < k
    BY <1>1, <1>5
  <2> QED BY <1>6, <2>1
<1>8. HeadBefore(ptrs, len + 1) = IF c = 0 THEN freeList ELSE ptrs[e[c]]
  <2>1. c + 1 \in 1 .. c + 1 /\ (c + 1 = 1 <=> c = 0) /\ c + 1 - 1 = c
    OBVIOUS
  <2>2. \A l \in 1 .. c : e[l] < len + 1 <=> l < c + 1
    BY <1>1, <1>2
  <2> HIDE DEF earlier
  <2>3. HeadBefore(ptrs, len + 1) = IF c + 1 = 1 THEN freeList ELSE ptrs[e[c + 1 - 1]]
    BY <1>6, <2>1, <2>2
  <2> QED BY <2>1, <2>3
<1> QED BY <1>7, <1>8

\* What deallocateBatch() writes: the blocks the loop does not skip, in the
\* order of the span, each linked to the one before, the first to the old head.
LEMMA ReturnLinks ==
  ASSUME IInv, NEW ptrs \in ReturnSpans, DeallocateBatch(ptrs)
  PROVE  \E r \in 0 .. MaxBatch : \E order \in [1 .. r -> held] :
           /\ Released(ptrs) = r /\ OwnedInOrder(ptrs) = order
           /\ IsInjective(order) /\ Range(order) = Range(ptrs) \cap held
           /\ \A k \in 1 .. r : mem'[order[k]] = IF k = 1 THEN freeList ELSE order[k-1]
           /\ freeList' = IF r = 0 THEN freeList ELSE order[r]
           /\ \A b \in Blocks : b \notin Range(order) => mem'[b] = mem[b]
<1> DEFINE O == OwnedAt(ptrs)
           r == Cardinality(O)
           e == [k \in 1 .. r |-> CHOOSE i \in O : UpTo(O, i) = k]
           order == [k \in 1 .. r |-> ptrs[e[k]]]
<1>1. PICK len \in Nat :
        /\ Len(ptrs) = len /\ DOMAIN ptrs = 1 .. len
        /\ O \in SUBSET (1 .. len)
        /\ \A i \in O : ptrs[i] \in held
        /\ \A i, j \in O : ptrs[i] = ptrs[j] => i = j
        /\ Range(ptrs) \cap held = {ptrs[i] : i \in O}
  BY ReturnSpanFacts
<1>2. r \in Nat /\ Enumerates(e, O)
  BY <1>1, InOrder
<1>3. r \in 0 .. MaxBatch
  <2>1. len \in 0 .. MaxBatch
    BY <1>1, PoolAssumption DEF ReturnSpans
  <2>2. IsFiniteSet(1 .. len) /\ Cardinality(1 .. len) = len
    BY <1>1, FS_Interval
  <2>3. r <= len
    BY <1>1, <2>2, FS_Subset
  <2>4. MaxBatch \in Nat
    BY PoolAssumption
  <2> HIDE DEF r
  <2> QED BY <1>2, <2>1, <2>3, <2>4
<1>4. /\ mem' = [b \in Blocks |->
                   IF \E i \in O : ptrs[i] = b
                     THEN HeadBefore(ptrs, Max({i \in O : ptrs[i] = b})) ELSE mem[b]]
      /\ freeList' = HeadBefore(ptrs, len + 1)
  BY <1>1 DEF DeallocateBatch
<1>5. /\ \A k \in 1 .. r : HeadBefore(ptrs, e[k]) = IF k = 1 THEN freeList ELSE ptrs[e[k-1]]
      /\ HeadBefore(ptrs, len + 1) = IF r = 0 THEN freeList ELSE ptrs[e[r]]
  <2> HIDE DEF e
  <2>1. O = OwnedAt(ptrs) /\ r = Cardinality(OwnedAt(ptrs))
    OBVIOUS
  <2> HIDE DEF O, r
  <2> QED BY <1>1, <1>2, <2>1, HeadInOrder
<1>6. OwnedInOrder(ptrs) = order
  BY DEF OwnedInOrder, Released, UpTo
<1>7. Released(ptrs) = r
  BY DEF Released
<1> HIDE DEF O, e
<1>8. /\ \A k \in 1 .. r : e[k] \in O
      /\ \A i \in O : \E k \in 1 .. r : e[k] = i
      /\ \A k, l \in 1 .. r : k < l => e[k] < e[l]
  BY <1>2 DEF Enumerates
<1> HIDE DEF r
<1>9. \A k \in 1 .. r : order[k] = ptrs[e[k]] /\ order[k] \in held
  BY <1>1, <1>8
<1>10. order \in [1 .. r -> held]
  BY <1>9
<1>11. \A k, l \in 1 .. r : order[k] = order[l] => k = l
  <2> SUFFICES ASSUME NEW k \in 1 .. r, NEW l \in 1 .. r, order[k] = order[l], k # l PROVE FALSE
    OBVIOUS
  <2>0. e[k] \in O /\ e[l] \in O /\ ptrs[e[k]] = ptrs[e[l]]
    BY <1>8, <1>9
  <2>1. e[k] = e[l] /\ e[k] \in Nat
    <3>1. \A i \in O : i \in Nat
      BY <1>1
    <3> QED BY <1>1, <2>0, <3>1
  <2>2. k < l \/ l < k
    BY <1>2
  <2>3. e[k] < e[l] \/ e[l] < e[k]
    BY <2>2, <1>8
  <2> QED BY <2>1, <2>3
<1>12. Range(order) = {ptrs[i] : i \in O}
  <2>1. Range(order) = {order[k] : k \in 1 .. r}
    BY DEF Range
  <2> HIDE DEF order
  <2>2. \A i \in O : \E k \in 1 .. r : order[k] = ptrs[i]
    BY <1>8, <1>9
  <2>3. \A k \in 1 .. r : \E i \in O : order[k] = ptrs[i]
    BY <1>8, <1>9
  <2> QED BY <2>1, <2>2, <2>3
<1>13. ASSUME NEW k \in 1 .. r
       PROVE  mem'[order[k]] = IF k = 1 THEN freeList ELSE order[k-1]
  <2>1. order[k] \in Blocks /\ order[k] = ptrs[e[k]] /\ e[k] \in O
    BY <1>8, <1>9, FreedFacts
  <2>2. {j \in O : ptrs[j] = ptrs[e[k]]} = {e[k]}
    BY <1>1, <2>1
  <2>3. Max({e[k]}) = e[k]
    <3>1. \A i \in O : i \in Nat
      BY <1>1
    <3>2. e[k] \in Nat
      BY <2>1, <3>1
    <3> QED BY <3>2 DEF Max
  <2>4. mem'[order[k]] = HeadBefore(ptrs, e[k])
    BY <1>4, <2>1, <2>2, <2>3
  <2>5. k # 1 => k - 1 \in 1 .. r
    BY <1>2
  <2> QED BY <2>4, <2>5, <1>5, <1>9
<1>14. freeList' = IF r = 0 THEN freeList ELSE order[r]
  <2>1. r # 0 => r \in 1 .. r
    BY <1>2
  <2> QED BY <2>1, <1>4, <1>5, <1>9
<1>15. ASSUME NEW b \in Blocks, b \notin Range(order) PROVE mem'[b] = mem[b]
  <2>1. ~ \E i \in O : ptrs[i] = b
    BY <1>12, <1>15
  <2> QED BY <1>4, <2>1
<1> HIDE DEF order
<1>16. IsInjective(order)
  BY <1>10, <1>11 DEF IsInjective
<1> QED BY <1>1, <1>3, <1>6, <1>7, <1>10, <1>12, <1>13, <1>14, <1>15, <1>16

(* The words m2 put the r blocks of order on the list that starts at head in m; *)
(* the n blocks of s keep their words.                                     *)
Pushed(m, head, s, n, m2, head2, order, r) ==
  /\ \A k \in 1 .. r : m2[order[k]] = IF k = 1 THEN head ELSE order[k-1]
  /\ head2 = IF r = 0 THEN head ELSE order[r]
  /\ \A i \in 1 .. n : m2[s[i]] = m[s[i]]

\* Links that run from the last block of a span to its first and on into the
\* old list spell the old list with the span put on top.
LEMMA LinkedReturn ==
  ASSUME NEW m, NEW head, NEW n \in Nat, NEW s \in Seq(Blocks), Len(s) = n, Linked(m, head, s, n),
         NEW r \in Nat, NEW order \in [1 .. r -> Blocks],
         NEW m2, NEW head2, Pushed(m, head, s, n, m2, head2, order, r)
  PROVE  /\ s \o order \in [1 .. n + r -> Blocks]
         /\ Linked(m2, head2, s \o order, n + r)
<1> DEFINE t == s \o order
<1>0. /\ \A k \in 1 .. r : m2[order[k]] = IF k = 1 THEN head ELSE order[k-1]
      /\ head2 = IF r = 0 THEN head ELSE order[r]
      /\ \A i \in 1 .. n : m2[s[i]] = m[s[i]]
  BY DEF Pushed
<1>1. order \in Seq(Blocks) /\ Len(order) = r
  OBVIOUS
<1>2. t \in Seq(Blocks) /\ Len(t) = n + r
      /\ \A i \in 1 .. n + r : t[i] = IF i <= n THEN s[i] ELSE order[i - n]
  BY <1>1, ConcatProperties
<1>3. /\ head = IF n = 0 THEN Null ELSE s[n]
      /\ \A i \in 1 .. n : m[s[i]] = IF i = 1 THEN Null ELSE s[i-1]
  BY DEF Linked
<1> HIDE DEF t
<1>4. t \in [1 .. n + r -> Blocks]
  BY <1>2
<1>5. head2 = IF n + r = 0 THEN Null ELSE t[n + r]
  <2>1. CASE r = 0
    <3>1. n # 0 => n \in 1 .. n + r /\ t[n] = s[n]
      BY <1>2, <2>1
    <3> QED BY <3>1, <2>1, <1>0, <1>3
  <2>2. CASE r # 0
    <3>1. n + r \in 1 .. n + r /\ ~ (n + r <= n) /\ n + r - n = r
      BY <2>2
    <3> QED BY <3>1, <2>2, <1>0, <1>2
  <2> QED BY <2>1, <2>2
<1>6. ASSUME NEW i \in 1 .. n + r PROVE m2[t[i]] = IF i = 1 THEN Null ELSE t[i-1]
  <2>1. CASE i <= n
    <3>1. i \in 1 .. n /\ t[i] = s[i]
      BY <2>1, <1>2
    <3>2. i # 1 => i - 1 \in 1 .. n + r /\ t[i-1] = s[i-1]
      BY <2>1, <1>2
    <3> QED BY <3>1, <3>2, <1>0, <1>3
  <2>2. CASE ~ (i <= n)
    <3>1. i - n \in 1 .. r /\ t[i] = order[i - n] /\ (i - n = 1 <=> i = n + 1)
      BY <2>2, <1>2
    <3>2. m2[t[i]] = IF i = n + 1 THEN head ELSE order[i - n - 1]
      BY <3>1, <1>0
    <3>3. i # n + 1 => i # 1 /\ i - 1 \in 1 .. n + r /\ t[i-1] = order[i - n - 1]
      <4> SUFFICES ASSUME i # n + 1 PROVE i # 1 /\ i - 1 \in 1 .. n + r /\ t[i-1] = order[i - n - 1]
        OBVIOUS
      <4>1. i # 1 /\ i - 1 \in 1 .. n + r /\ ~ (i - 1 <= n) /\ i - 1 - n = i - n - 1
        BY <2>2
      <4> QED BY <4>1, <1>2
    <3>4. i = n + 1 => IF n = 0 THEN i = 1 ELSE i # 1 /\ i - 1 \in 1 .. n + r /\ t[i-1] = s[n]
      <4>1. i = n + 1 /\ n # 0 => i - 1 = n /\ i - 1 \in 1 .. n + r
        OBVIOUS
      <4> QED BY <4>1, <1>2
    <3> QED BY <3>2, <3>3, <3>4, <1>0, <1>3
  <2> QED BY <2>1, <2>2
<1> QED BY <1>4, <1>5, <1>6 DEF Linked, t

\* What a batch gives back is put on top of the stack, in the order of the span.
LEMMA ReturnIsStacked ==
  ASSUME IInv, NEW ptrs \in ReturnSpans, DeallocateBatch(ptrs)
  PROVE  \E r \in 0 .. MaxBatch : \E order \in [1 .. r -> held] :
           /\ Released(ptrs) = r /\ OwnedInOrder(ptrs) = order
           /\ IsInjective(order) /\ Range(order) = Range(ptrs) \cap held
           /\ FreeStack' = FreeStack \o order
           /\ \A b \in Blocks : b \notin Range(order) => mem'[b] = mem[b]
<1>0. PICK r \in 0 .. MaxBatch : \E order \in [1 .. r -> held] :
        /\ Released(ptrs) = r /\ OwnedInOrder(ptrs) = order
        /\ IsInjective(order) /\ Range(order) = Range(ptrs) \cap held
        /\ \A k \in 1 .. r : mem'[order[k]] = IF k = 1 THEN freeList ELSE order[k-1]
        /\ freeList' = IF r = 0 THEN freeList ELSE order[r]
        /\ \A b \in Blocks : b \notin Range(order) => mem'[b] = mem[b]
  BY ReturnLinks
<1>1. PICK order \in [1 .. r -> held] :
        /\ Released(ptrs) = r /\ OwnedInOrder(ptrs) = order
        /\ IsInjective(order) /\ Range(order) = Range(ptrs) \cap held
        /\ \A k \in 1 .. r : mem'[order[k]] = IF k = 1 THEN freeList ELSE order[k-1]
        /\ freeList' = IF r = 0 THEN freeList ELSE order[r]
        /\ \A b \in Blocks : b \notin Range(order) => mem'[b] = mem[b]
  BY <1>0
<1>2. PICK n \in 0 .. BlockCount :
        /\ n = watermark - Cardinality(held)
        /\ FreeStack \in [1 .. n -> FreedBlocks]
        /\ FreeStack \in Seq(Blocks) /\ Len(FreeStack) = n
        /\ Linked(mem, freeList, FreeStack, n)
  BY StackNow
<1>3. r \in Nat /\ n \in Nat /\ order \in [1 .. r -> Blocks]
  BY <1>1, <1>2, FreedFacts, PoolAssumption
<1>4. ASSUME NEW i \in 1 .. n PROVE mem'[FreeStack[i]] = mem[FreeStack[i]]
  <2>1. FreeStack[i] \in FreedBlocks
    BY <1>2
  <2>2. FreeStack[i] \in Blocks /\ FreeStack[i] \notin held
    BY <2>1, FreedFacts DEF FreedBlocks
  <2>3. FreeStack[i] \notin Range(order)
    BY <1>1, <2>2
  <2> QED BY <1>1, <2>2, <2>3
<1>5. /\ FreeStack \o order \in [1 .. n + r -> Blocks]
      /\ Linked(mem', freeList', FreeStack \o order, n + r)
  <2>1. FreeStack \in Seq(Blocks) /\ Len(FreeStack) = n /\ Linked(mem, freeList, FreeStack, n)
    BY <1>2
  <2>2. \A k \in 1 .. r : mem'[order[k]] = IF k = 1 THEN freeList ELSE order[k-1]
    BY <1>1
  <2>3. freeList' = IF r = 0 THEN freeList ELSE order[r]
    BY <1>1
  <2>4. \A i \in 1 .. n : mem'[FreeStack[i]] = mem[FreeStack[i]]
    BY <1>4
  <2>5. Pushed(mem, freeList, FreeStack, n, mem', freeList', order, r)
    BY <2>2, <2>3, <2>4 DEF Pushed
  <2> QED BY <1>3, <2>1, <2>5, LinkedReturn
<1>6. n + r \in 0 .. BlockCount
  <2>1. order \in Injection(1 .. r, held) /\ IsFiniteSet(held)
    BY <1>1, FreedFacts, BlocksFinite DEF Injection
  <2>2. Cardinality(1 .. r) <= Cardinality(held) /\ Cardinality(1 .. r) = r
    BY <1>3, <2>1, FS_Injection, FS_Interval
  <2>3. Cardinality(held) \in Nat
    BY <2>1, FS_CardinalityType
  <2>4. watermark \in 0 .. BlockCount /\ BlockCount \in Nat
    BY PoolAssumption DEF IInv, TypeOK
  <2> QED BY <1>2, <1>3, <2>2, <2>3, <2>4
<1>7. StackFrom(mem', freeList') = FreeStack \o order
  BY <1>5, <1>6, StackFromLinked
<1>8. FreeStack' = FreeStack \o order
  BY <1>7 DEF FreeStack
<1> QED BY <1>1, <1>8

\* Putting blocks a caller holds on top of the stack is the shadow's step.
LEMMA StackedIsShadowed ==
  ASSUME IInv, EnableStats, NEW r \in Nat, NEW order \in [1 .. r -> held],
         FreeStack' = FreeStack \o order, StatDealloc(r),
         held' = held \ Range(order), \A b \in Blocks : b \notin Range(order) => mem'[b] = mem[b],
         ret' = <<>>, watermark' = watermark
  PROVE  Shadow!DeallocateBatch(order)
<1>1. Len(order) = r
  OBVIOUS
<1>2. Shadow!NoteDealloc(Len(order))
  BY <1>1, NotesDealloc
<1>3. Shadow!DropLive(Range(order))
  <2>1. Kept' = [b \in held' |-> mem'[b]] /\ Kept = [b \in held |-> mem[b]]
    BY DEF Kept
  <2>2. \A b \in held' : mem'[b] = mem[b] /\ Kept[b] = mem[b]
    BY <2>1, FreedFacts
  <2>3. Kept' = [b \in held \ Range(order) |-> Kept[b]]
    BY <2>1, <2>2
  <2> QED BY <2>3, ShadowOperators DEF Shadow!DropLive
<1> QED BY <1>2, <1>3, ShadowOperators DEF Shadow!DeallocateBatch

\* deallocateBatch() is the shadow's return of the blocks the loop does not
\* skip, or its refusal when it skips them all.
LEMMA ReturnIsShadowed ==
  ASSUME IInv, EnableStats, NEW ptrs \in ReturnSpans, DeallocateBatch(ptrs)
  PROVE  Shadow!Next
<1>0. PICK r \in 0 .. MaxBatch : \E order \in [1 .. r -> held] :
        /\ Released(ptrs) = r /\ OwnedInOrder(ptrs) = order
        /\ IsInjective(order) /\ Range(order) = Range(ptrs) \cap held
        /\ FreeStack' = FreeStack \o order
        /\ \A b \in Blocks : b \notin Range(order) => mem'[b] = mem[b]
  BY ReturnIsStacked
<1>1. PICK order \in [1 .. r -> held] :
        /\ Released(ptrs) = r
        /\ IsInjective(order) /\ Range(order) = Range(ptrs) \cap held
        /\ FreeStack' = FreeStack \o order
        /\ \A b \in Blocks : b \notin Range(order) => mem'[b] = mem[b]
  BY <1>0
<1>2. /\ IF r > 0 THEN StatDealloc(r) ELSE UNCHANGED stats
      /\ held' = held \ Range(order)
      /\ ret' = <<>> /\ watermark' = watermark
  BY <1>1 DEF DeallocateBatch
<1>3. r \in Nat /\ MaxBatch \in Nat
  BY PoolAssumption
<1>4. CASE r > 0
  <2>1. Shadow!DeallocateBatch(order)
    BY <1>1, <1>2, <1>3, <1>4, StackedIsShadowed
  <2>2. order \in Shadow!Injection(1 .. r, Shadow!Live)
    BY <1>1, ShadowOperators DEF Injection
  <2>3. r \in 1 .. MaxBatch
    BY <1>3, <1>4
  <2> QED BY <2>1, <2>2, <2>3 DEF Shadow!Next
<1>5. CASE ~ (r > 0)
  <2>1. r = 0
    BY <1>3, <1>5
  <2>2. order = <<>> /\ Range(order) = {}
    BY <2>1 DEF Range
  <2>3. FreeStack \in Seq(Blocks)
    BY StackNow
  <2>4. FreeStack' = FreeStack
    BY <1>1, <2>2, <2>3, ConcatEmptySeq
  <2>5. held' = held /\ \A b \in Blocks : mem'[b] = mem[b]
    BY <1>1, <1>2, <2>2
  <2>6. Kept' = Kept
    BY <2>5, FreedFacts DEF Kept
  <2>7. Shadow!RejectForeign
    BY <1>2, <2>1, <2>4, <2>6 DEF Shadow!RejectForeign
  <2> QED BY <2>7 DEF Shadow!Next
<1> QED BY <1>4, <1>5

\* deallocate() is the shadow's return of one block, or its refusal.
LEMMA SingleReturnIsShadowed ==
  ASSUME IInv, EnableStats, NEW p \in held \cup {Null} \cup Foreign, Deallocate(p)
  PROVE  Shadow!Next
<1>1. CASE DeallocateForeign(p)
  <2>1. Shadow!RejectForeign
    BY <1>1 DEF DeallocateForeign, arena, Shadow!RejectForeign, FreeStack, Kept
  <2> QED BY <2>1 DEF Shadow!Next
<1>2. CASE DeallocateOwned(p)
  <2>1. p \in held /\ p \in Blocks
    BY <1>2, FreedFacts, PoolAssumption DEF DeallocateOwned, Owns
  <2>2. /\ mem' = [mem EXCEPT ![p] = freeList] /\ freeList' = p /\ watermark' = watermark
        /\ StatDealloc(1) /\ held' = held \ {p} /\ ret' = <<>>
    BY <1>2 DEF DeallocateOwned, ReleaseBlock
  <2>3. mem \in [Blocks -> Words]
    BY DEF IInv, TypeOK
  <2> DEFINE order == <<p>>
  <2>4. order \in [1 .. 1 -> held] /\ order[1] = p /\ Range(order) = {p}
    BY <2>1 DEF Range
  <2>5. PICK n \in 0 .. BlockCount :
          /\ n = watermark - Cardinality(held)
          /\ FreeStack \in [1 .. n -> FreedBlocks]
          /\ FreeStack \in Seq(Blocks) /\ Len(FreeStack) = n
          /\ Linked(mem, freeList, FreeStack, n)
    BY StackNow
  <2>6. n \in Nat /\ BlockCount \in Nat /\ watermark \in 0 .. BlockCount
    BY PoolAssumption DEF IInv, TypeOK
  <2>7. n + 1 \in 0 .. BlockCount
    <3>1. Cardinality(held) \in Nat /\ Cardinality(held) # 0
      BY <2>1, FreedFacts, FS_EmptySet
    <3> QED BY <2>5, <2>6, <3>1
  <2>8. \A b \in Blocks : b # p => mem'[b] = mem[b]
    BY <2>2, <2>3
  <2>9. FreeStack \o order \in [1 .. n + 1 -> Blocks]
        /\ Linked(mem', freeList', FreeStack \o order, n + 1)
    <3>1. FreeStack \in Seq(Blocks) /\ Len(FreeStack) = n /\ Linked(mem, freeList, FreeStack, n)
      BY <2>5
    <3>2. order \in [1 .. 1 -> Blocks] /\ 1 \in Nat
      BY <2>1
    <3>3. \A k \in 1 .. 1 : mem'[order[k]] = IF k = 1 THEN freeList ELSE order[k-1]
      BY <2>1, <2>2, <2>3, <2>4
    <3>4. freeList' = IF 1 = 0 THEN freeList ELSE order[1]
      BY <2>2, <2>4
    <3>5. ASSUME NEW i \in 1 .. n PROVE mem'[FreeStack[i]] = mem[FreeStack[i]]
      <4>1. FreeStack[i] \in FreedBlocks
        BY <2>5
      <4>2. FreeStack[i] \in Blocks /\ FreeStack[i] # p
        BY <4>1, <2>1, FreedFacts DEF FreedBlocks
      <4> QED BY <4>2, <2>8
    <3> HIDE DEF order
    <3>6. Pushed(mem, freeList, FreeStack, n, mem', freeList', order, 1)
      BY <3>3, <3>4, <3>5 DEF Pushed
    <3> QED BY <2>6, <3>1, <3>2, <3>6, LinkedReturn
  <2> HIDE DEF order
  <2>10. FreeStack' = FreeStack \o order
    <3>1. StackFrom(mem', freeList') = FreeStack \o order
      BY <2>7, <2>9, StackFromLinked
    <3> QED BY <3>1 DEF FreeStack
  <2>11. Shadow!DeallocateBatch(order)
    <3>1. 1 \in Nat /\ held' = held \ Range(order) /\ \A b \in Blocks : b \notin Range(order) => mem'[b] = mem[b]
      BY <2>2, <2>4, <2>8
    <3> QED BY <2>2, <2>4, <2>10, <3>1, StackedIsShadowed
  <2>12. Shadow!DeallocateOne(p)
    BY <2>11 DEF Shadow!DeallocateOne, order
  <2> QED BY <2>1, <2>12, ShadowOperators DEF Shadow!Next
<1> QED BY <1>1, <1>2 DEF Deallocate

---------------------------------------------------------------------------
(* The shadow.                                                             *)

\* Every step of a pool that counts is a step of the shadow.
LEMMA StepIsShadowed ==
  ASSUME IInv, IInv', EnableStats, [Next]_vars
  PROVE  [Shadow!Next]_(Shadow!vars)
<1>1. CASE Allocate
  <2>1. Shadow!AllocateBatch(1)
    BY <1>1, AllocateIsBatchOfOne, IssueIsShadowed
  <2> QED BY <2>1 DEF Shadow!Next, Shadow!Allocate
<1>2. ASSUME NEW p \in held \cup {Null} \cup Foreign, Deallocate(p) PROVE Shadow!Next
  BY <1>2, SingleReturnIsShadowed
<1>3. ASSUME NEW n \in 0 .. MaxBatch, AllocateBatch(n) PROVE Shadow!Next
  <2>1. n \in Nat
    BY PoolAssumption
  <2>2. Shadow!AllocateBatch(n)
    BY <1>3, <2>1, IssueIsShadowed
  <2> QED BY <2>2 DEF Shadow!Next
<1>4. ASSUME NEW ptrs \in ReturnSpans, DeallocateBatch(ptrs) PROVE Shadow!Next
  BY <1>4, ReturnIsShadowed
<1>5. CASE Reset
  <2>1. freeList' = Null /\ watermark' = 0 /\ held' = {} /\ ret' = <<>> /\ stats' = ZeroStats
    BY <1>5 DEF Reset, InitializeFreeList
  <2>2. FreeStack' = <<>>
    BY <2>1, EmptyStack DEF FreeStack
  <2>3. Kept' = <<>>
    BY <2>1 DEF Kept
  <2>4. Shadow!Reset
    BY <2>1, <2>2, <2>3 DEF Shadow!Reset, Shadow!Counters, ZeroStats
  <2> QED BY <2>4 DEF Shadow!Next
<1>6. ASSUME NEW b \in held, NEW w \in Words, CallerWrite(b, w) PROVE Shadow!Next
  <2>1. /\ mem' = [mem EXCEPT ![b] = w] /\ ret' = <<>> /\ freeList' = freeList
        /\ watermark' = watermark /\ held' = held /\ stats' = stats
    BY <1>6 DEF CallerWrite
  <2>2. b \in Blocks /\ mem \in [Blocks -> Words] /\ held \subseteq Blocks
    BY DEF IInv, TypeOK
  <2>3. Kept' = [Kept EXCEPT ![b] = w]
    BY <2>1, <2>2 DEF Kept
  <2>4. FreeStack' = FreeStack
    <3>1. PICK n \in 0 .. BlockCount :
            FreeStack \in [1 .. n -> FreedBlocks] /\ Linked(mem, freeList, FreeStack, n)
      BY StackNow
    <3>2. \A i \in 1 .. n : mem'[FreeStack[i]] = mem[FreeStack[i]]
      BY <2>1, <2>2, <3>1, FreedFacts DEF FreedBlocks
    <3>3. Linked(mem', freeList', FreeStack, n)
      BY <2>1, <3>1, <3>2 DEF Linked
    <3>4. FreeStack \in [1 .. n -> Blocks]
      BY <3>1, FreedFacts
    <3>5. StackFrom(mem', freeList') = FreeStack
      BY <3>3, <3>4, StackFromLinked
    <3> QED BY <3>5 DEF FreeStack
  <2>5. Shadow!WriteLive(b, w)
    BY <2>1, <2>3, <2>4 DEF Shadow!WriteLive
  <2> QED BY <2>5, ShadowOperators DEF Shadow!Next
<1>7. CASE UNCHANGED vars
  <2>1. UNCHANGED <<FreeStack, Kept, watermark, stats, ret>>
    BY <1>7 DEF vars, arena, FreeStack, Kept
  <2> QED BY <2>1 DEF Shadow!vars
<1> QED BY <1>1, <1>2, <1>3, <1>4, <1>5, <1>6, <1>7 DEF Next

\* Every step of a pool that counts is a step of the fuzz harness's shadow
\* model: the same pointers in the same order, the same free list, the same
\* statistics, and in every live block what its holder wrote
\* (fuzz_pool.cpp:483-507).  The shadow always counts, hence EnableStats.
THEOREM ShadowCorrect == EnableStats => (Spec => ImplementsShadow)
<1> SUFFICES ASSUME EnableStats PROVE Spec => ImplementsShadow
  OBVIOUS
<1>1. Init => Shadow!Init
  <2> SUFFICES ASSUME Init PROVE Shadow!Init
    OBVIOUS
  <2>1. FreeStack = <<>>
    BY EmptyStack DEF Init, FreeStack
  <2>2. Kept = <<>>
    BY DEF Init, Kept
  <2> QED BY <2>1, <2>2 DEF Init, Shadow!Init, Shadow!Counters, ZeroStats
<1>2. IInv /\ IInv' /\ [Next]_vars => [Shadow!Next]_(Shadow!vars)
  BY StepIsShadowed
<1> QED BY <1>1, <1>2, Invariance, PTL DEF Spec, ImplementsShadow, Shadow!Spec

\* A batch is returned in the order of its span (Pool.tpp:151-166): the last
\* pointer the pool owns is the first to be reused, and what was on the list
\* before lies under the span.
THEOREM PileUpCorrect == Spec => ReturnsPileUpInOrder
<1> DEFINE Right ==
      held \ held' # {} =>
       \A n \in 1 .. MaxBatch :
       \A ptrs \in [1 .. n -> (held \ held') \cup {Null} \cup Foreign] :
         Range(ptrs) \cap held = held \ held' /\ ptrs \in ReturnSpans /\ DeallocateBatch(ptrs)
           => FreeStack' = FreeStack \o OwnedInOrder(ptrs)
<1>1. IInv => Right
  <2> SUFFICES ASSUME IInv, NEW ptrs \in ReturnSpans, DeallocateBatch(ptrs)
               PROVE  FreeStack' = FreeStack \o OwnedInOrder(ptrs)
    OBVIOUS
  <2> QED BY ReturnIsStacked
<1>2. IInv /\ [Next]_vars => [Right]_vars
  BY <1>1
<1> QED BY <1>2, Invariance, PTL DEF Spec, ReturnsPileUpInOrder

---------------------------------------------------------------------------
(* create() and destroy() use the pool as module Pool allows its callers:  *)
(* a proof from an invariant that says where every block in use is.        *)

CallType == [op : {"create", "destroy"}, block : Blocks, before : SUBSET Blocks]

\* No two calls under way have the same block.
ApartCalls == \A i, j \in DOMAIN calls : i # j => calls[i].block # calls[j].block

\* Every block in use is raw, an object, or the block of a call under way, and
\* one of these only.
OInv ==
  /\ IInv
  /\ calls \in Seq(CallType)
  /\ ApartCalls
  /\ held = raw \cup objects \cup InCallback
  /\ raw \cap objects = {}
  /\ InCallback \cap (raw \cup objects) = {}

---------------------------------------------------------------------------
(* The stack of calls.                                                     *)

(* A call put on the stack adds its block to InCallback.                   *)
LEMMA PushCall ==
  ASSUME calls \in Seq(CallType), ApartCalls, NEW c \in CallType, c.block \notin InCallback,
         calls' = Append(calls, c)
  PROVE  calls' \in Seq(CallType) /\ ApartCalls' /\ InCallback' = InCallback \cup {c.block}
<1>1. PICK n \in Nat : Len(calls) = n /\ DOMAIN calls = 1 .. n
  OBVIOUS
<1>2. /\ calls' \in Seq(CallType) /\ DOMAIN calls' = 1 .. n + 1
      /\ \A i \in 1 .. n : calls'[i] = calls[i]
      /\ calls'[n + 1] = c
  BY <1>1
<1>3. \A i \in 1 .. n + 1 : i \in 1 .. n \/ i = n + 1
  OBVIOUS
<1>4. \A i \in 1 .. n : i \in 1 .. n + 1 /\ calls[i].block \in InCallback
  BY <1>1 DEF InCallback
<1>5. ApartCalls'
  <2> SUFFICES ASSUME NEW i \in 1 .. n + 1, NEW j \in 1 .. n + 1, i # j
               PROVE  calls'[i].block # calls'[j].block
    BY <1>2 DEF ApartCalls
  <2>1. CASE i \in 1 .. n /\ j \in 1 .. n
    BY <1>1, <1>2, <2>1 DEF ApartCalls
  <2>2. CASE i = n + 1 /\ j \in 1 .. n
    BY <1>2, <1>4, <2>2
  <2>3. CASE j = n + 1 /\ i \in 1 .. n
    BY <1>2, <1>4, <2>3
  <2> QED BY <1>3, <2>1, <2>2, <2>3
<1>6. InCallback' = InCallback \cup {c.block}
  <2>1. n + 1 \in 1 .. n + 1
    OBVIOUS
  <2>2. InCallback' = {calls'[i].block : i \in 1 .. n + 1}
    BY <1>2 DEF InCallback
  <2>3. InCallback = {calls[i].block : i \in 1 .. n}
    BY <1>1 DEF InCallback
  <2> QED BY <1>2, <1>3, <1>4, <2>1, <2>2, <2>3
<1> QED BY <1>2, <1>5, <1>6

\* Taking the innermost call off the stack takes its block out of InCallback.
LEMMA PopCall ==
  ASSUME calls \in Seq(CallType), ApartCalls, calls # <<>>, Pop
  PROVE  /\ calls' \in Seq(CallType) /\ ApartCalls'
         /\ Top \in CallType /\ Top.block \in InCallback
         /\ InCallback' = InCallback \ {Top.block}
<1>1. PICK n \in Nat : Len(calls) = n + 1 /\ DOMAIN calls = 1 .. n + 1
  <2>1. Len(calls) \in Nat \ {0} /\ DOMAIN calls = 1 .. Len(calls)
    OBVIOUS
  <2>2. Len(calls) - 1 \in Nat /\ Len(calls) = (Len(calls) - 1) + 1
    BY <2>1
  <2> QED BY <2>1, <2>2
<1>2. /\ calls' \in Seq(CallType) /\ DOMAIN calls' = 1 .. n
      /\ \A i \in 1 .. n : calls'[i] = calls[i]
  <2>1. calls' = SubSeq(calls, 1, n)
    BY <1>1 DEF Pop
  <2>2. n <= Len(calls)
    BY <1>1
  <2> QED BY <1>1, <2>1, <2>2
<1>3. n + 1 \in 1 .. n + 1 /\ Top = calls[n + 1] /\ Top \in CallType
  BY <1>1 DEF Top
<1>4. \A i \in 1 .. n : i \in 1 .. n + 1 /\ i # n + 1
  OBVIOUS
<1>5. \A i \in 1 .. n + 1 : i \in 1 .. n \/ i = n + 1
  OBVIOUS
<1>6. ApartCalls'
  BY <1>1, <1>2, <1>4 DEF ApartCalls
<1>7. \A i \in 1 .. n : calls[i].block # Top.block
  BY <1>1, <1>3, <1>4 DEF ApartCalls
<1>8. InCallback' = {calls[i].block : i \in 1 .. n}
  <2>1. InCallback' = {calls'[i].block : i \in 1 .. n}
    BY <1>2 DEF InCallback
  <2> QED BY <1>2, <2>1
<1>9. InCallback = {calls[i].block : i \in 1 .. n + 1}
  BY <1>1 DEF InCallback
<1> QED BY <1>2, <1>3, <1>4, <1>5, <1>6, <1>7, <1>8, <1>9

---------------------------------------------------------------------------
(* Each step is a step of the pool's callers, and keeps the invariant.     *)

(* The innermost call gives its block back.                                *)
LEMMA DeallocateTop ==
  ASSUME OInv, calls # <<>>, Deallocate(Top.block), Pop, raw' = raw, objects' = objects
  PROVE  Next /\ OInv'
<1>1. /\ calls' \in Seq(CallType) /\ ApartCalls'
      /\ Top.block \in InCallback /\ InCallback' = InCallback \ {Top.block}
  BY PopCall DEF OInv
<1>2. Top.block \in held /\ Top.block \in Blocks
  BY <1>1 DEF OInv, IInv, TypeOK
<1>3. Next
  BY <1>2 DEF Next
<1>4. IInv'
  BY <1>3, NextIInv DEF OInv
<1>5. held' = held \ {Top.block}
  <2>1. Top.block # Null /\ Owns(Top.block)
    BY <1>2, PoolAssumption DEF Owns
  <2> QED BY <2>1 DEF Deallocate, DeallocateOwned, DeallocateForeign
<1> QED BY <1>1, <1>3, <1>4, <1>5 DEF OInv

\* A call that leaves the pool alone is, for Pool, one that ignores a
\* pointer.
LEMMA UnchangedPool ==
  ASSUME OInv, ret' = <<>>, UNCHANGED <<arena, stats, held>>
  PROVE  Next /\ IInv'
<1>1. DeallocateForeign(Null)
  BY DEF DeallocateForeign
<1>2. Next
  BY <1>1 DEF Next, Deallocate
<1> QED BY <1>2, NextIInv DEF OInv

\* create() up to the constructor keeps the invariant.
LEMMA CreateBeginStep ==
  ASSUME OInv, CreateBegin
  PROVE  Next /\ OInv'
<1>1. Allocate /\ ret' # <<>> /\ raw' = raw /\ objects' = objects
      /\ calls' = Append(calls, [op |-> "create", block |-> ret'[1], before |-> held])
  BY DEF CreateBegin
<1>2. Next /\ IInv'
  BY <1>1, NextIInv DEF Next, OInv
<1>3. PICK b \in Blocks : ret' = <<b>> /\ held' = held \cup {b}
  BY <1>1 DEF Allocate
<1>4. b \notin held
  <2>1. Range(ret') \cap held = {}
    BY <1>1, IssueStep DEF OInv
  <2>2. b \in Range(ret')
    BY <1>3 DEF Range
  <2> QED BY <2>1, <2>2
<1>5. /\ calls' \in Seq(CallType) /\ ApartCalls'
      /\ InCallback' = InCallback \cup {b}
  <2> DEFINE c == [op |-> "create", block |-> b, before |-> held]
  <2>1. c \in CallType /\ c.block = b
    BY DEF OInv, IInv, TypeOK, CallType
  <2>2. calls' = Append(calls, c)
    BY <1>1, <1>3
  <2>3. c.block \notin InCallback
    BY <1>4, <2>1 DEF OInv
  <2> HIDE DEF c
  <2> QED BY <2>1, <2>2, <2>3, PushCall DEF OInv
<1> QED BY <1>1, <1>2, <1>3, <1>4, <1>5 DEF OInv

\* destroy() up to the destructor keeps the invariant.
LEMMA DestroyBeginStep ==
  ASSUME OInv, NEW b \in objects, DestroyBegin(b)
  PROVE  Next /\ OInv'
<1>1. /\ objects' = objects \ {b} /\ ret' = <<>> /\ raw' = raw
      /\ UNCHANGED <<arena, stats, held>>
  BY DEF DestroyBegin
<1>2. Next /\ IInv'
  BY <1>1, UnchangedPool
<1> DEFINE c == [op |-> "destroy", block |-> b, before |-> held]
<1>3. calls' = Append(calls, c)
  BY DEF DestroyBegin
<1>4. c \in CallType /\ c.block = b /\ b \notin InCallback
  BY DEF OInv, IInv, TypeOK, CallType
<1> HIDE DEF c
<1>5. calls' \in Seq(CallType) /\ ApartCalls' /\ InCallback' = InCallback \cup {b}
  BY <1>3, <1>4, PushCall DEF OInv
<1> QED BY <1>1, <1>2, <1>5 DEF OInv

\* The return of create() keeps the invariant.
LEMMA ConstructorReturnsStep ==
  ASSUME OInv, ConstructorReturns
  PROVE  Next /\ OInv'
<1>1. /\ calls # <<>> /\ Pop /\ objects' = objects \cup {Top.block} /\ raw' = raw
      /\ ret' = <<>> /\ UNCHANGED <<arena, stats, held>>
  BY DEF ConstructorReturns
<1>2. Next /\ IInv'
  BY <1>1, UnchangedPool
<1>3. /\ calls' \in Seq(CallType) /\ ApartCalls'
      /\ Top.block \in InCallback /\ InCallback' = InCallback \ {Top.block}
  BY <1>1, PopCall DEF OInv
<1> QED BY <1>1, <1>2, <1>3 DEF OInv

\* Raw allocations keep the invariant.
LEMMA RawAllocateStep ==
  ASSUME OInv, RawAllocate
  PROVE  Next /\ OInv'
<1>1. /\ Allocate \/ \E n \in 0 .. MaxBatch : AllocateBatch(n)
      /\ raw' = raw \cup Range(ret') /\ objects' = objects /\ calls' = calls
  BY DEF RawAllocate
<1>2. Next /\ IInv'
  BY <1>1, NextIInv DEF Next, OInv
<1>3. Range(ret') \cap held = {} /\ held' = held \cup Range(ret')
  BY <1>1, IssueStep DEF OInv
<1>4. InCallback' = InCallback /\ ApartCalls' /\ calls' \in Seq(CallType)
  BY <1>1 DEF InCallback, ApartCalls, OInv
<1> QED BY <1>1, <1>2, <1>3, <1>4 DEF OInv

\* Raw returns keep the invariant: only raw blocks are given back.
LEMMA RawDeallocateStep ==
  ASSUME OInv, RawDeallocate
  PROVE  Next /\ OInv'
<1>1. raw' = raw \cap held' /\ objects' = objects /\ calls' = calls
  BY DEF RawDeallocate
<1>2. InCallback' = InCallback /\ ApartCalls' /\ calls' \in Seq(CallType)
  BY <1>1 DEF InCallback, ApartCalls, OInv
<1>3. ASSUME NEW p \in raw \cup {Null} \cup Foreign, Deallocate(p)
      PROVE  Next /\ held' \subseteq held /\ held \ held' \subseteq raw
  <2>1. p \in held \cup {Null} \cup Foreign
    BY DEF OInv
  <2>2. held' \subseteq held /\ held \ held' \subseteq {p}
    BY <1>3 DEF Deallocate, DeallocateOwned, DeallocateForeign
  <2>3. p \in raw \/ held' = held
    <3>1. CASE DeallocateOwned(p)
      BY <3>1, PoolAssumption DEF DeallocateOwned, Owns
    <3>2. CASE DeallocateForeign(p)
      BY <3>2 DEF DeallocateForeign
    <3> QED BY <1>3, <3>1, <3>2 DEF Deallocate
  <2> QED BY <1>3, <2>1, <2>2, <2>3 DEF Next
<1>4. ASSUME NEW ptrs \in ReturnSpans, Range(ptrs) \cap held \subseteq raw, DeallocateBatch(ptrs)
      PROVE  Next /\ held' \subseteq held /\ held \ held' \subseteq raw
  <2>1. held' = held \ Range(ptrs)
    BY <1>4 DEF DeallocateBatch
  <2> QED BY <1>4, <2>1 DEF Next
<1>5. Next /\ held' \subseteq held /\ held \ held' \subseteq raw
  BY <1>3, <1>4 DEF RawDeallocate
<1>6. IInv'
  BY <1>5, NextIInv DEF OInv
<1> QED BY <1>1, <1>2, <1>5, <1>6 DEF OInv

\* reset() outside of callbacks keeps the invariant.
LEMMA ResetAllStep ==
  ASSUME OInv, ResetAll
  PROVE  Next /\ OInv'
<1>1. Reset /\ raw' = {} /\ objects' = {} /\ calls' = calls /\ calls = <<>> /\ held' = {}
  BY DEF ResetAll, Reset
<1>2. Next /\ IInv'
  BY <1>1, NextIInv DEF Next, OInv
<1>3. InCallback' = {} /\ ApartCalls' /\ calls' \in Seq(CallType)
  BY <1>1 DEF InCallback, ApartCalls, OInv
<1> QED BY <1>1, <1>2, <1>3 DEF OInv

\* A store by a caller or a callback keeps the invariant.
LEMMA StoreStep ==
  ASSUME OInv, Store
  PROVE  Next /\ OInv'
<1>1. PICK b \in held, w \in Words : CallerWrite(b, w)
  BY DEF Store
<1>2. raw' = raw /\ objects' = objects /\ calls' = calls /\ held' = held
  BY <1>1 DEF Store, CallerWrite
<1>3. Next /\ IInv'
  BY <1>1, NextIInv DEF Next, OInv
<1> QED BY <1>2, <1>3 DEF OInv, InCallback, ApartCalls

\* Every step keeps the invariant, and is a step of Pool.
LEMMA ObjectsStep ==
  ASSUME OInv, [ObjectsNext]_objectVars
  PROVE  [Next]_vars /\ OInv'
<1>1. CASE CreateBegin
  BY <1>1, CreateBeginStep
<1>2. CASE CreateExhausted
  <2>1. Next /\ raw' = raw /\ objects' = objects /\ calls' = calls /\ held' = held
    BY <1>2 DEF CreateExhausted, Next, Allocate
  <2>2. IInv'
    BY <2>1, NextIInv DEF OInv
  <2> QED BY <2>1, <2>2 DEF OInv, InCallback, ApartCalls
<1>3. CASE ConstructorReturns
  BY <1>3, ConstructorReturnsStep
<1>4. CASE ConstructorThrows
  BY <1>4, DeallocateTop DEF ConstructorThrows
<1>5. ASSUME NEW b \in objects, DestroyBegin(b) PROVE [Next]_vars /\ OInv'
  BY <1>5, DestroyBeginStep
<1>6. ASSUME NEW p, DestroyForeign(p) PROVE [Next]_vars /\ OInv'
  <2>1. /\ ret' = <<>> /\ UNCHANGED <<arena, stats, held>>
        /\ raw' = raw /\ objects' = objects /\ calls' = calls
    BY <1>6 DEF DestroyForeign, DeallocateForeign
  <2>2. Next /\ IInv'
    BY <2>1, UnchangedPool
  <2> QED BY <2>1, <2>2 DEF OInv, InCallback, ApartCalls
<1>7. CASE DestructorReturns
  BY <1>7, DeallocateTop DEF DestructorReturns
<1>8. CASE RawAllocate
  BY <1>8, RawAllocateStep
<1>9. CASE RawDeallocate
  BY <1>9, RawDeallocateStep
<1>10. CASE ResetAll
  BY <1>10, ResetAllStep
<1>11. CASE Store
  BY <1>11, StoreStep
<1>12. CASE UNCHANGED objectVars
  <2>1. UNCHANGED vars /\ raw' = raw /\ objects' = objects /\ calls' = calls
    BY <1>12 DEF objectVars
  <2>2. IInv'
    BY <2>1, NextIInv DEF OInv
  <2> QED BY <2>1, <2>2 DEF OInv, InCallback, ApartCalls, vars
<1> QED BY <1>1, <1>2, <1>3, <1>4, <1>5, <1>6, <1>7, <1>8, <1>9, <1>10, <1>11, <1>12
        DEF ObjectsNext

\* The invariant holds at the start, which is a start of Pool.
LEMMA ObjectsStart ==
  ASSUME ObjectsInit
  PROVE  Init /\ OInv
<1>1. Init /\ IInv /\ raw = {} /\ objects = {} /\ calls = <<>> /\ held = {}
  BY InitIInv DEF ObjectsInit, Init
<1> QED BY <1>1 DEF OInv, InCallback, ApartCalls

\* Raw blocks, objects and the blocks of running callbacks are apart and are
\* what callers hold, and the pool underneath is sound.
THEOREM ObjectsInvariance == ObjectsSpec => []OInv
<1>1. ObjectsInit => OInv
  BY ObjectsStart
<1>2. OInv /\ [ObjectsNext]_objectVars => OInv'
  BY ObjectsStep
<1> QED BY <1>1, <1>2, PTL DEF ObjectsSpec

\* create() and destroy(), with constructors that throw and callbacks that use
\* the pool, behave as callers of module Pool: what is proved of it holds here.
THEOREM ObjectsArePoolCallers == ObjectsSpec => UsePoolAsCallers
<1>1. ObjectsInit => Init
  BY ObjectsStart
<1>2. OInv /\ [ObjectsNext]_objectVars => [Next]_vars
  BY ObjectsStep
<1> QED BY <1>1, <1>2, ObjectsInvariance, PTL DEF ObjectsSpec, Spec, UsePoolAsCallers

\* The block of a running constructor or destructor is nobody else's.
THEOREM CallbackBlocksCorrect == ObjectsSpec => []CallbackBlockIsPrivate
<1>1. OInv => CallbackBlockIsPrivate
  BY DEF OInv, CallbackBlockIsPrivate, ApartCalls, FreedBlocks
<1> QED BY <1>1, ObjectsInvariance, PTL

\* There are as many blocks under a callback as there are calls on the stack.
LEMMA InCallbackCount ==
  ASSUME OInv
  PROVE  Cardinality(InCallback) = Len(calls)
<1>1. PICK n \in Nat : Len(calls) = n /\ DOMAIN calls = 1 .. n /\ \A i \in 1 .. n : calls[i] \in CallType
  BY DEF OInv
<1> DEFINE f == [i \in 1 .. n |-> calls[i].block]
<1>2. f \in [1 .. n -> Blocks] /\ IsInjective(f)
  <2>1. \A i \in 1 .. n : calls[i].block \in Blocks
    BY <1>1 DEF CallType
  <2>2. \A i, j \in 1 .. n : i # j => calls[i].block # calls[j].block
    BY <1>1 DEF OInv, ApartCalls
  <2> QED BY <2>1, <2>2 DEF IsInjective
<1>3. Range(f) = InCallback
  BY <1>1 DEF Range, InCallback
<1> HIDE DEF f
<1> QED BY <1>1, <1>2, <1>3, RangeCardinality

\* Raw blocks, live objects and calls under way account for all used blocks:
\* neither an exception nor a nested call loses one.
THEOREM NoBlockLostCorrect == ObjectsSpec => []NoBlockLost
<1>1. ASSUME OInv PROVE NoBlockLost
  <2>1. /\ raw \in SUBSET Blocks /\ objects \in SUBSET Blocks /\ InCallback \in SUBSET Blocks
        /\ raw \cup objects \in SUBSET Blocks
    BY <1>1 DEF OInv, IInv, TypeOK
  <2>2. Cardinality(raw \cup objects) = Cardinality(raw) + Cardinality(objects)
    <3>1. Cardinality(raw \cap objects) = 0
      BY <1>1, FS_EmptySet DEF OInv
    <3>2. /\ IsFiniteSet(raw) /\ IsFiniteSet(objects)
          /\ Cardinality(raw) \in Nat /\ Cardinality(objects) \in Nat
      BY <2>1, BlocksFinite
    <3>3. Cardinality(raw \cup objects)
            = Cardinality(raw) + Cardinality(objects) - Cardinality(raw \cap objects)
      BY <3>2, FS_Union
    <3> QED BY <3>1, <3>2, <3>3
  <2>3. Cardinality(held) = Cardinality(raw \cup objects) + Cardinality(InCallback)
    <3>1. /\ Cardinality((raw \cup objects) \cap InCallback) = 0
          /\ held = (raw \cup objects) \cup InCallback
      BY <1>1, FS_EmptySet DEF OInv
    <3>2. /\ IsFiniteSet(raw \cup objects) /\ IsFiniteSet(InCallback)
          /\ Cardinality(raw \cup objects) \in Nat /\ Cardinality(InCallback) \in Nat
      BY <2>1, BlocksFinite
    <3>3. Cardinality((raw \cup objects) \cup InCallback)
            = Cardinality(raw \cup objects) + Cardinality(InCallback)
              - Cardinality((raw \cup objects) \cap InCallback)
      BY <3>2, FS_Union
    <3> QED BY <3>1, <3>2, <3>3
  <2>4. UsedBlocks(freeBlockCount) = Cardinality(held) /\ Cardinality(InCallback) = Len(calls)
    BY <1>1, InCallbackCount DEF OInv, IInv, CountsOK
  <2>5. held = raw \cup objects \cup InCallback
    BY <1>1 DEF OInv
  <2> QED BY <2>2, <2>3, <2>4, <2>5 DEF NoBlockLost
<1> QED BY <1>1, ObjectsInvariance, PTL

---------------------------------------------------------------------------
(* Exceptions.                                                             *)

\* The block create() acquired was nobody's before.
Fresh == \A i \in DOMAIN calls : calls[i].op = "create" => calls[i].block \notin calls[i].before

\* Every step keeps that: calls are only added at the end, and removed there.
LEMMA FreshStep ==
  ASSUME OInv, Fresh, [ObjectsNext]_objectVars
  PROVE  Fresh'
<1>1. PICK n \in Nat : Len(calls) = n /\ DOMAIN calls = 1 .. n /\ calls \in Seq(CallType)
  BY DEF OInv
<1>2. CASE calls' = calls
  BY <1>2 DEF Fresh
<1>3. CASE calls # <<>> /\ Pop
  <2>1. n # 0 /\ calls' = SubSeq(calls, 1, n - 1)
    BY <1>1, <1>3 DEF Pop
  <2>2. DOMAIN calls' = 1 .. n - 1 /\ \A i \in 1 .. n - 1 : i \in 1 .. n /\ calls'[i] = calls[i]
    BY <1>1, <2>1
  <2> QED BY <1>1, <2>2 DEF Fresh
<1>4. ASSUME NEW c \in CallType, c.op = "create" => c.block \notin c.before, calls' = Append(calls, c)
      PROVE  Fresh'
  <2>1. DOMAIN calls' = 1 .. n + 1 /\ calls'[n + 1] = c /\ \A i \in 1 .. n : calls'[i] = calls[i]
    BY <1>1, <1>4
  <2>2. \A i \in 1 .. n + 1 : i \in 1 .. n \/ i = n + 1
    OBVIOUS
  <2> QED BY <1>1, <1>4, <2>1, <2>2 DEF Fresh
<1>5. CASE CreateBegin
  <2>1. Allocate /\ ret' # <<>>
        /\ calls' = Append(calls, [op |-> "create", block |-> ret'[1], before |-> held])
    BY <1>5 DEF CreateBegin
  <2>2. PICK b \in Blocks : ret' = <<b>>
    BY <2>1 DEF Allocate
  <2>3. b \notin held
    <3>1. Range(ret') \cap held = {}
      BY <2>1, IssueStep DEF OInv
    <3>2. b \in Range(ret')
      BY <2>2 DEF Range
    <3> QED BY <3>1, <3>2
  <2> DEFINE c == [op |-> "create", block |-> b, before |-> held]
  <2>4. calls' = Append(calls, c) /\ c \in CallType /\ c.block \notin c.before
    BY <2>1, <2>2, <2>3 DEF OInv, IInv, TypeOK, CallType
  <2> HIDE DEF c
  <2> QED BY <1>4, <2>4
<1>6. ASSUME NEW b \in objects, DestroyBegin(b) PROVE Fresh'
  <2> DEFINE c == [op |-> "destroy", block |-> b, before |-> held]
  <2>1. calls' = Append(calls, c) /\ c \in CallType /\ c.op # "create"
    BY <1>6 DEF DestroyBegin, OInv, IInv, TypeOK, CallType
  <2> HIDE DEF c
  <2> QED BY <1>4, <2>1
<1> QED BY <1>2, <1>3, <1>5, <1>6
        DEF ObjectsNext, CreateExhausted, ConstructorReturns, ConstructorThrows, DestroyForeign,
            DestructorReturns, RawAllocate, RawDeallocate, ResetAll, Store, objectVars

\* An exception leaves callers with what they had, however deep it was thrown.
THEOREM ThrowCorrect == ObjectsSpec => ThrowRestores
<1>1. ObjectsInit => Fresh
  BY DEF ObjectsInit, Fresh
<1>2. OInv /\ Fresh /\ [ObjectsNext]_objectVars => Fresh'
  BY FreshStep
<1>3. ASSUME OInv, OInv', Fresh, ConstructorThrows, held = Top.before \cup {Top.block}
      PROVE  held' = Top.before /\ UsedBlocks(freeBlockCount') = Cardinality(Top.before)
  <2>1. Top \in CallType /\ Top.block \in InCallback
    BY <1>3, PopCall DEF OInv, ConstructorThrows
  <2>2. Top.block \notin Top.before
    <3>1. Len(calls) \in DOMAIN calls /\ Top.op = "create"
      BY <1>3 DEF OInv, ConstructorThrows
    <3> QED BY <1>3, <3>1 DEF Fresh, Top
  <2>3. Top.block \in Blocks /\ Top.block # Null
    BY <2>1, PoolAssumption DEF CallType
  <2>4. held' = held \ {Top.block}
    BY <1>3, <2>3 DEF ConstructorThrows, Deallocate, DeallocateOwned, DeallocateForeign, Owns
  <2>5. held' = Top.before
    BY <1>3, <2>2, <2>4
  <2>6. UsedBlocks(freeBlockCount') = Cardinality(held')
    BY <1>3 DEF OInv, IInv, CountsOK, UsedBlocks
  <2> QED BY <2>5, <2>6
<1>4. OInv /\ OInv' /\ Fresh /\ [ObjectsNext]_objectVars =>
        [ConstructorThrows /\ held = Top.before \cup {Top.block} =>
           /\ held' = Top.before
           /\ UsedBlocks(freeBlockCount') = Cardinality(Top.before)]_objectVars
  BY <1>3
<1> QED BY <1>1, <1>2, <1>4, ObjectsInvariance, PTL DEF ObjectsSpec, ThrowRestores

=============================================================================
