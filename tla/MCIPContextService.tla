------------------------- MODULE MCIPContextService -------------------------
(* Model-checking instance of IPContextService.  Lookup calls are alike, so *)
(* the safety run takes them up to permutation.                             *)
EXTENDS IPContextService, TLC

CallerSymmetry == Permutations(Callers)
=============================================================================
