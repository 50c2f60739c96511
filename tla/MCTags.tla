------------------------------- MODULE MCTags -------------------------------
(* An instance of Tags for TLC with one request, against what a comment says. *)
EXTENDS Tags
=============================================================================
