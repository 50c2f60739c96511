----------------------------- MODULE MCTTLCache -----------------------------
(* A small instance of TTLCache for TLC. *)
EXTENDS TTLCache
=============================================================================
