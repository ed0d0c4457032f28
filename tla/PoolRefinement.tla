------------------------------ MODULE PoolRefinement -----------------------------
(***************************************************************************)
(* The pool implements the fuzz harness's shadow model.  The shadow's      *)
(* stack is the chain of next pointers read from freeList on, its tags are *)
(* the words found in the blocks callers hold.                             *)
(***************************************************************************)
EXTENDS Pool

\* The k-th block that following the next pointers in m from head on visits,
\* Null beyond the last.
Visited(m, head) ==
  LET at[k \in 1 .. BlockCount] ==
        IF k = 1 THEN head ELSE IF at[k-1] = Null THEN Null ELSE m[at[k-1]]
  IN  at

\* The blocks visited, read backwards: the last element is the head.
StackFrom(m, head) ==
  LET at     == Visited(m, head)
      length == Cardinality({k \in 1 .. BlockCount : at[k] # Null})
  IN  [i \in 1 .. length |-> at[length + 1 - i]]

FreeStack == StackFrom(mem, freeList)

Kept == [b \in held |-> mem[b]]

Shadow ==
  INSTANCE ShadowPool WITH
    freeStack <- FreeStack,
    live      <- Kept

Promise == INSTANCE BlockPool WITH content <- Kept

\* Every call of the pool is a step of the shadow model: it returns the same
\* pointers in the same order, leaves the same free list and the same
\* statistics, and the bytes of every live block as their holder wrote them
\* (fuzz_pool.cpp:483-507).
ImplementsShadow == Shadow!Spec

\* The pool keeps the promise its comments make to callers: no block is issued
\* while somebody holds it, none is withheld while free, and what a holder stored
\* survives every call but its own release.
ImplementsBlockPool == Promise!Spec

\* The pointers of a span that the pool owns, in the order of the span.
OwnedInOrder(ptrs) ==
  LET nth(k) == CHOOSE i \in OwnedAt(ptrs) : Cardinality({j \in OwnedAt(ptrs) : j <= i}) = k
  IN  [k \in 1 .. Released(ptrs) |-> ptrs[nth(k)]]

\* A batch is returned in the order of its span, as single calls would: the last
\* pointer the pool owns is the first to be reused, and what was on the list
\* before lies under the span (Pool.tpp:151-166, fuzz_pool.cpp:297-333).
ReturnsPileUpInOrder ==
  [][held \ held' # {} =>
       \A n \in 1 .. MaxBatch :
       \A ptrs \in [1 .. n -> (held \ held') \cup {Null} \cup Foreign] :
         Range(ptrs) \cap held = held \ held' /\ ptrs \in ReturnSpans /\ DeallocateBatch(ptrs)
           => FreeStack' = FreeStack \o OwnedInOrder(ptrs)]_vars

=============================================================================
