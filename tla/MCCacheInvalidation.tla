------------------------ MODULE MCCacheInvalidation ------------------------
(* Small instances of CacheInvalidation for TLC. *)
EXTENDS CacheInvalidation, TLC

Symmetry == Permutations(Handler)
=============================================================================
