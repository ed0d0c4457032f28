------------------------------ MODULE MCPoolGeometry ------------------------------
(* The & of PoolGeometry is that of the library, on every pair of numbers tested. *)
EXTENDS PoolGeometry

B == INSTANCE Bitwise

ASSUME AndIsBitwise == \A x, y \in Size_t : x & y = B!&(x, y)
=============================================================================
