--------------------------- MODULE MCSessionLock ---------------------------
(* An instance of SessionLock for TLC with one bucket, against what a comment says. *)
EXTENDS SessionLock, TLC
=============================================================================
