----------------------------- MODULE MCSessions -----------------------------
(***************************************************************************)
(* Small instances, for TLC, of two parts of the proxy that share no       *)
(* state: the lock its sessions hold, and the coalesced uploads of their   *)
(* chunks.  A behaviour is one of one part; the other one rests.           *)
(***************************************************************************)
EXTENDS SessionLock, ChunkFlight, TLC

CONSTANTS r1, r2, r3, c1, c2, d

\* Three requests for one digest, two of them on the same connection.
Connections == (r1 :> c1) @@ (r2 :> c1) @@ (r3 :> c2)
Keys        == (r1 :> d) @@ (r2 :> d) @@ (r3 :> d)

VARIABLE part   \* the part that moves

\* No session has asked for the lock.
LockRests ==
  /\ LockInit
  /\ target = [x \in Session |-> CHOOSE b \in Bucket : TRUE]

\* All connections were closed before a request came.
UploadsRest ==
  /\ pc = [r \in Request |-> "over"] /\ result = [r \in Request |-> "none"]
  /\ unsent = [r \in Request |-> 0] /\ unread = [r \in Request |-> 0]
  /\ window = [c \in Conn |-> Window] /\ flight = [r \in Request |-> r]
  /\ calls = [k \in Digest |-> {}] /\ done = {} /\ err = {}
  /\ stored = {} /\ dead = Conn

MCInit ==
  \/ part = "lock" /\ LockInit /\ UploadsRest
  \/ part = "uploads" /\ Init /\ LockRests

MCNext ==
  \/ part = "lock" /\ LockNext /\ UNCHANGED <<vars, part>>
  \/ part = "uploads" /\ Next /\ UNCHANGED <<sessionVars, part>>

MCSpec ==
  /\ MCInit /\ [][MCNext]_<<sessionVars, vars, part>>
  /\ LockFairness /\ Fairness
=============================================================================
