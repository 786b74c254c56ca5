------------------------------ MODULE MCHsspi ------------------------------
(* Model checking of Hsspi. *)
EXTENDS HsspiRefinement, TLC

Symmetry == Permutations(Clients) \cup Permutations(Blocks)
============================================================================
