------------------------------- MODULE MCPoolMove --------------------------------
(***************************************************************************)
(* The instance of PoolMove that TLC checks.  Pool objects are alike, and  *)
(* so are configurations; the watched arena is not like the others.        *)
(***************************************************************************)
EXTENDS PoolMove, TLC

Symmetry == Permutations(Pools) \cup Permutations(Configs)

=============================================================================
