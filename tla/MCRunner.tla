------------------------------ MODULE MCRunner ------------------------------
(* Model-checking instance of Runner. *)
EXTENDS Runner, TLC

MCLeases == Runs \X (1 .. NumTargets)
RunSymmetry == Permutations(Runs)
=============================================================================
