------------------------------ MODULE MCUsage ------------------------------
(***************************************************************************)
(* Small instances, for TLC, of the report of the collector and the list   *)
(* that is decorated with it.                                              *)
(***************************************************************************)
EXTENDS UsageReport, TLC

CONSTANTS s1, s2, i1, i2, c1, c2

\* Two snapshots of one archive each.
MCOwner   == (i1 :> s1) @@ (i2 :> s2)
MCBytes   == (c1 :> 1) @@ (c2 :> 2)
MCLogical == (i1 :> 3) @@ (i2 :> 4)
=============================================================================
