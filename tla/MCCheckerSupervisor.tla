------------------------ MODULE MCCheckerSupervisor ------------------------
(* Model-checking instance of CheckerSupervisor: four leases over the life *)
(* of a supervisor of capacity two, so that leases are refused, reused     *)
(* capacity is admitted again and the drained channel is renewed.          *)
EXTENDS CheckerSupervisor, TLC

LeaseSymmetry == Permutations(Leases)
=============================================================================
