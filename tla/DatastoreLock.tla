--------------------------- MODULE DatastoreLock ---------------------------
(***************************************************************************)
(* What the datastore locks promise, for every bucket: any number of       *)
(* sessions of the proxy, or one collector, and never both.  Datastore     *)
(* builds on this promise; SessionLock is how the program keeps it.        *)
(***************************************************************************)
CONSTANTS Session, Bucket

VARIABLES
  inside,      \* inside[b]: sessions being served on bucket b
  collecting   \* buckets a collector is working on

vars == <<inside, collecting>>

Init ==
  /\ inside = [b \in Bucket |-> {}]
  /\ collecting = {}

Enter(x, b) ==
  /\ \A c \in Bucket : x \notin inside[c]
  /\ b \notin collecting
  /\ inside' = [inside EXCEPT ![b] = @ \cup {x}]
  /\ UNCHANGED collecting

Leave(x, b) ==
  /\ x \in inside[b]
  /\ inside' = [inside EXCEPT ![b] = @ \ {x}]
  /\ UNCHANGED collecting

\* The proxy process ends, and every session with it.
LeaveAll ==
  /\ inside' = [b \in Bucket |-> {}]
  /\ UNCHANGED collecting

Collect(b) ==
  /\ inside[b] = {}
  /\ b \notin collecting
  /\ collecting' = collecting \cup {b}
  /\ UNCHANGED inside

Release(b) ==
  /\ b \in collecting
  /\ collecting' = collecting \ {b}
  /\ UNCHANGED inside

Next ==
  \/ \E b \in Bucket : \/ \E x \in Session : Enter(x, b) \/ Leave(x, b)
                       \/ Collect(b) \/ Release(b)
  \/ LeaveAll

Spec == Init /\ [][Next]_vars
=============================================================================
