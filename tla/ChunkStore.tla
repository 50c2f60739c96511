----------------------------- MODULE ChunkStore -----------------------------
(***************************************************************************)
(* What uploading chunks promises: every request is answered as if it had  *)
(* been handled alone and at once.  ChunkFlight, in which requests share   *)
(* the work of a leader, implements this.                                  *)
(***************************************************************************)
CONSTANTS
  Request,   \* chunk upload requests
  Digest,    \* chunk digests
  key        \* key[r]: the digest of r

VARIABLES
  stored,    \* digests in the bucket
  result     \* result[r]: what the client was told

vars == <<stored, result>>

Init ==
  /\ stored \in SUBSET Digest
  /\ result = [r \in Request |-> "none"]

Unanswered(r) == result[r] = "none"
Answer(r, a)  == result' = [result EXCEPT ![r] = a]
Write(r)      == stored' = stored \cup {key[r]}

\* The chunk is not there, and is written.
Upload(r) == Unanswered(r) /\ key[r] \notin stored /\ Write(r) /\ Answer(r, "uploaded")

\* The chunk is there.
Known(r) == Unanswered(r) /\ key[r] \in stored /\ Answer(r, "known") /\ UNCHANGED stored

\* Requests fail, together if they share a connection; one that fails may have
\* written its chunk.
Fail(R) ==
  /\ \A r \in R : Unanswered(r)
  /\ result' = [r \in Request |-> IF r \in R THEN "error" ELSE result[r]]
  /\ UNCHANGED stored

FailAfterWrite(r) == Unanswered(r) /\ Write(r) /\ Answer(r, "error")

Next ==
  \/ \E r \in Request : Upload(r) \/ Known(r) \/ FailAfterWrite(r)
  \/ \E R \in SUBSET Request : Fail(R)

Spec == Init /\ [][Next]_vars
=============================================================================
