---------------------------- MODULE MCDatastore ----------------------------
(* Small instances of Datastore for TLC. *)
EXTENDS Datastore, TLC

\* Chunks and session slots are interchangeable; snapshots are ordered by time.
ChunkSymmetry   == Permutations(Chunk)
SlotSymmetry    == Permutations(Session)

\* A disturbance is a request of the management API or a write that outlives its
\* session.  Two sessions are explored with two chunks; a third session, and
\* behaviours with a disturbance, with one.
Disturbances == userOps + Cardinality(stray \cup {l.snap : l \in late})
Contents     == chunks \cup UNION {idx[s] : s \in Snap} \cup UNION indexed
OneAtATime   ==
  /\ Disturbances <= 1
  /\ Disturbances = 1 => opens <= 2
  /\ opens = 3 \/ Disturbances = 1 => Cardinality(Contents) <= 1
=============================================================================
