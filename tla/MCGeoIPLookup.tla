--------------------------- MODULE MCGeoIPLookup ---------------------------
(* Model-checking instance of GeoIPLookup. *)
EXTENDS GeoIPLookup, TLC

CallerSymmetry == Permutations(Callers)
=============================================================================
