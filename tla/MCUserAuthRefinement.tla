------------------------ MODULE MCUserAuthRefinement ------------------------
(* A small instance of UserAuthRefinement for TLC.                          *)
EXTENDS UserAuthRefinement, TLC

Symmetry == Permutations(Requests)
=============================================================================
