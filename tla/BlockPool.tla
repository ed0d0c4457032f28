-------------------------------- MODULE BlockPool --------------------------------
(***************************************************************************)
(* What a pool of fixed-size blocks promises its callers, with no word on  *)
(* free lists or watermarks: the comments of Pool.h on allocate(),         *)
(* deallocate(), the batch calls and reset() as a specification.  A call   *)
(* for n blocks gets n of them, or all that are left; a block given out is *)
(* nobody else's until it comes back; what its holder stored stays there.  *)
(***************************************************************************)
EXTENDS Integers, FiniteSets, FiniteSetsExt, Sequences

CONSTANTS BlockCount, MaxBatch, Words

Blocks == 0 .. BlockCount - 1

VARIABLES
  content,   \* the blocks in use, each with the word its holder keeps in it
  ret        \* the blocks the last call handed out

vars == <<content, ret>>

Used == DOMAIN content

\* allocate() is the call for one block.
Issue(n) ==
  LET short == Cardinality(Blocks \ Used)
      size  == IF n < short THEN n ELSE short
  IN  /\ ret' \in Injection(1 .. size, Blocks \ Used)
      /\ content' \in [Used \cup Range(ret') -> Words]
      /\ \A b \in Used : content'[b] = content[b]

\* deallocate(), deallocateBatch() and reset(), and the calls that ignore
\* every pointer they are given.
GiveBack(S) ==
  /\ content' = [b \in Used \ S |-> content[b]]
  /\ ret' = <<>>

Write(b, w) ==
  /\ content' = [content EXCEPT ![b] = w]
  /\ ret' = <<>>

Init == content = <<>> /\ ret = <<>>

Next ==
  \/ \E n \in 0 .. MaxBatch \cup {1} : Issue(n)
  \/ \E S \in SUBSET Used : GiveBack(S)
  \/ \E b \in Used, w \in Words : Write(b, w)

Spec == Init /\ [][Next]_vars

=============================================================================
