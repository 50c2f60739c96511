----------------------------- MODULE CacheCell -----------------------------
(***************************************************************************)
(* What a cache promises: the value it serves without asking upstream is   *)
(* one that upstream had, and one not older than the last invalidation, or *)
(* than the last value explicitly stored.  TTLCache implements this.       *)
(***************************************************************************)
EXTENDS Integers

CONSTANT Key

VARIABLES
  version,   \* version[k]: how often the state behind k has changed upstream
  cell,      \* cell[k]: the version served without an upstream call, or Absent
  floor      \* floor[k]: the version the last explicit operation established

vars == <<version, cell, floor>>

Absent == -1

Init ==
  /\ version = [k \in Key |-> 0]
  /\ cell = [k \in Key |-> Absent]
  /\ floor = [k \in Key |-> 0]

Mutate(k) ==
  /\ version' = [version EXCEPT ![k] = @ + 1]
  /\ UNCHANGED <<cell, floor>>

\* The answer of an upstream call is kept.
Fill(k) ==
  /\ \E v \in floor[k] .. version[k] : cell' = [cell EXCEPT ![k] = v]
  /\ UNCHANGED <<version, floor>>

\* The value has outlived its TTL.
Forget(k) ==
  /\ cell' = [cell EXCEPT ![k] = Absent]
  /\ UNCHANGED <<version, floor>>

\* Invalidation: nothing read upstream before now is served from here on.
Drop(k) ==
  /\ cell' = [cell EXCEPT ![k] = Absent]
  /\ floor' = [floor EXCEPT ![k] = version[k]]
  /\ UNCHANGED version

\* A value obtained elsewhere is stored.
Put(k) ==
  /\ \E v \in 0 .. version[k] : /\ cell' = [cell EXCEPT ![k] = v]
                                /\ floor' = [floor EXCEPT ![k] = v]
  /\ UNCHANGED version

Next == \E k \in Key : Mutate(k) \/ Fill(k) \/ Forget(k) \/ Drop(k) \/ Put(k)

Spec == Init /\ [][Next]_vars
=============================================================================
