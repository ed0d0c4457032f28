--------------------------------- MODULE Selection --------------------------------
(***************************************************************************)
(* The loop that copies what it wants of one vector to another, in order.  *)
(* What is wanted is a set, where SelectSeq takes an operator, so that     *)
(* facts about the loop can be stated once and cited.                      *)
(***************************************************************************)
EXTENDS Naturals, Sequences

Selected(s, S) ==
  LET upTo[i \in 0 .. Len(s)] ==
        IF i = 0 THEN <<>>
        ELSE IF s[i] \in S THEN Append(upTo[i-1], s[i]) ELSE upTo[i-1]
  IN  upTo[Len(s)]

=============================================================================
