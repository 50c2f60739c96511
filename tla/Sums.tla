-------------------------------- MODULE Sums --------------------------------
(* Sums of sizes, as the collector, the proxy and the client add them up. *)
EXTENDS FiniteSetsExt

\* The sum of f[x] for all x in S, in whatever order they are added.
SumOver(f, S) == MapThenSumSet(LAMBDA x : f[x], S)
=============================================================================
