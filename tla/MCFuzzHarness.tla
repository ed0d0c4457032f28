------------------------------ MODULE MCFuzzHarness ------------------------------
(***************************************************************************)
(* The instance of FuzzHarness that TLC checks: arenas are alike.          *)
(***************************************************************************)
EXTENDS FuzzHarness

Symmetry == Permutations(Arenas)

=============================================================================
