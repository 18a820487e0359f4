------------------------- MODULE MCServiceShutdown -------------------------
(* Model-checking instance of ServiceShutdown. *)
EXTENDS ServiceShutdown

MCLeases == Conns
=============================================================================
