---------------------------- MODULE ChunkFlight ----------------------------
(***************************************************************************)
(* Concurrent chunk uploads: chunkFlightGroup lets the first request for a *)
(* digest, the leader, store it while later ones, the followers, wait for  *)
(* its result, over HTTP/2 connections whose receive window all requests   *)
(* of the connection share.                                                *)
(*                                                                         *)
(* A body is a number of units.  The client sends a unit when the window   *)
(* of the connection has room, the handler gives the room back by reading  *)
(* it: a handler that waits for something else with an unread body can     *)
(* keep every other request of the connection from receiving its own.     *)
(*                                                                         *)
(* A call of the group is named by the request that leads it.              *)
(***************************************************************************)
EXTENDS Naturals

CONSTANTS
  Request,   \* chunk upload requests, of any session
  Conn,      \* HTTP/2 connections
  Digest,    \* chunk digests
  Large,     \* requests whose EncodedSize exceeds maxBufferedChunkBytes
  conn,      \* conn[r]: the connection of r
  key,       \* key[r]: its digest
  BodySize,  \* bound: units of a body
  Window     \* units a connection may have in flight

ASSUME RequestAssumption == /\ conn \in [Request -> Conn]
                            /\ key \in [Request -> Digest]
                            /\ Large \subseteq Request
ASSUME SizeAssumption    == BodySize \in Nat /\ Window \in Nat \ {0}

VARIABLES
  pc,      \* pc[r]: where the handler of r is
  unsent,  \* unsent[r]: units of its body the client has not sent
  unread,  \* unread[r]: units received and not read by the handler
  window,  \* window[c]: units the clients of connection c may still send
  flight,  \* flight[r]: the call r leads or waits for
  calls,   \* calls[d]: the call in progress for digest d, {} or a singleton
  done,    \* leaders whose call is done
  err,     \* the ones among them whose call failed
  result,  \* result[r]: what the client was told
  stored,  \* digests in the bucket
  dead     \* connections that are closed

bodyVars == <<unsent, unread, window>>
callVars == <<flight, calls, done, err>>
vars     == <<pc, bodyVars, callVars, result, stored, dead>>

\* A leader reads its body, asks S3 for the object, writes it; a leader with a
\* large body reads it while it writes, or skims it when the object exists.
Leading == {"read", "stat", "put", "skim"}
Pc      == {"new", "drain", "wait", "over"} \cup Leading
Result  == {"none", "uploaded", "known", "error"}

TypeOK ==
  /\ pc \in [Request -> Pc]
  /\ unsent \in [Request -> 0 .. BodySize]
  /\ unread \in [Request -> 0 .. BodySize]
  /\ \A r \in Request : unsent[r] + unread[r] <= BodySize
  /\ window \in [Conn -> Nat]
  /\ flight \in [Request -> Request]
  /\ calls \in [Digest -> SUBSET Request]
  /\ done \subseteq Request /\ err \subseteq done
  /\ result \in [Request -> Result]
  /\ stored \subseteq Digest
  /\ dead \subseteq Conn

Init ==
  /\ pc = [r \in Request |-> "new"]
  /\ unsent = [r \in Request |-> BodySize]
  /\ unread = [r \in Request |-> 0]
  /\ window = [c \in Conn |-> Window]
  /\ flight = [r \in Request |-> r]
  /\ calls = [d \in Digest |-> {}]
  /\ done = {} /\ err = {}
  /\ result = [r \in Request |-> "none"]
  /\ stored \in SUBSET Digest
  /\ dead = {}

-----------------------------------------------------------------------------
(* Bodies. *)

BodyRead(r) == unsent[r] = 0 /\ unread[r] = 0
Reading(r)  == pc[r] \in {"read", "skim", "drain"} \/ (pc[r] = "put" /\ r \in Large)

\* The client sends a unit of the body, handler started or not.
Send(r) ==
  /\ pc[r] # "over"
  /\ unsent[r] > 0
  /\ window[conn[r]] > 0
  /\ window' = [window EXCEPT ![conn[r]] = @ - 1]
  /\ unsent' = [unsent EXCEPT ![r] = @ - 1]
  /\ unread' = [unread EXCEPT ![r] = @ + 1]
  /\ UNCHANGED <<pc, callVars, result, stored, dead>>

\* io.ReadFull or io.Copy, or PutObject on a streamed body.
Read(r) ==
  /\ Reading(r)
  /\ unread[r] > 0
  /\ unread' = [unread EXCEPT ![r] = @ - 1]
  /\ window' = [window EXCEPT ![conn[r]] = @ + 1]
  /\ UNCHANGED <<pc, unsent, callVars, result, stored, dead>>

\* The body of r cannot be read to the length the request states: its connection is
\* gone, or all that came has been read and the body ends there, or goes on too long.
BodyFails(r) == conn[r] \in dead \/ unread[r] = 0

\* The handler of r returns; the server discards what is left of the body.
Return(r, res) ==
  /\ pc' = [pc EXCEPT ![r] = "over"]
  /\ result' = [result EXCEPT ![r] = res]
  /\ unsent' = [unsent EXCEPT ![r] = 0]
  /\ unread' = [unread EXCEPT ![r] = 0]
  /\ window' = [window EXCEPT ![conn[r]] = @ + unread[r]]

-----------------------------------------------------------------------------
(* chunkFlightGroup.Do *)

\* Mutant: a follower waits for the leader with its body unread.
WaitFirst == "wait"

\* A follower drains its body before it waits.
FollowerStart == "drain"

\* Mutant: requests do not look for a call in progress.
LeadAlone(r) ==
  /\ pc[r] = "new"
  /\ calls' = [calls EXCEPT ![key[r]] = {r}]
  /\ pc' = [pc EXCEPT ![r] = IF r \in Large THEN "stat" ELSE "read"]
  /\ UNCHANGED <<bodyVars, flight, done, err, result, stored, dead>>

Lead(r) ==
  /\ pc[r] = "new"
  /\ calls[key[r]] = {}
  /\ calls' = [calls EXCEPT ![key[r]] = {r}]
  /\ pc' = [pc EXCEPT ![r] = IF r \in Large THEN "stat" ELSE "read"]
  /\ UNCHANGED <<bodyVars, flight, done, err, result, stored, dead>>

Follow(r) ==
  /\ pc[r] = "new"
  /\ \E l \in calls[key[r]] : flight' = [flight EXCEPT ![r] = l]
  /\ pc' = [pc EXCEPT ![r] = FollowerStart]
  /\ UNCHANGED <<bodyVars, calls, done, err, result, stored, dead>>

Drained(r) ==
  /\ pc[r] = "drain"
  /\ BodyRead(r)
  /\ pc' = [pc EXCEPT ![r] = "wait"]
  /\ UNCHANGED <<bodyVars, callVars, result, stored, dead>>

\* Mutant: a follower does not look at the error of its call.
KnownAnyway(r) == "known"

\* What a follower is told once its call is done.
Outcome(r) == IF flight[r] \in err THEN "error" ELSE "known"

\* case <-call.done
Woken(r) ==
  /\ pc[r] = "wait"
  /\ flight[r] \in done
  /\ Return(r, Outcome(r))
  /\ UNCHANGED <<callVars, stored, dead>>

\* case <-ctx.Done(): the timeout of the request, or its connection is gone; and
\* drainFollower fails.
FollowerGivesUp(r) ==
  /\ pc[r] = "wait" \/ (pc[r] = "drain" /\ BodyFails(r))
  /\ Return(r, "error")
  /\ UNCHANGED <<callVars, stored, dead>>

\* Mutant: a failed call is never closed.
FinishSilently(r, res) ==
  /\ Return(r, res)
  /\ done' = IF res = "error" THEN done ELSE done \cup {r}
  /\ err' = IF res = "error" THEN err \cup {r} ELSE err
  /\ calls' = [calls EXCEPT ![key[r]] = @ \ {r}]
  /\ UNCHANGED <<flight, dead>>

\* The leader returns and finish wakes its followers.
Finish(r, res) ==
  /\ Return(r, res)
  /\ done' = done \cup {r}
  /\ err' = IF res = "error" THEN err \cup {r} ELSE err
  /\ calls' = [calls EXCEPT ![key[r]] = @ \ {r}]
  /\ UNCHANGED <<flight, dead>>

-----------------------------------------------------------------------------
(* storeChunk, by the leader. *)

\* What PutObject does to the bucket.
PutObject(d) == stored' = stored \cup {d}

BodyBuffered(r) ==
  /\ pc[r] = "read"
  /\ BodyRead(r)
  /\ pc' = [pc EXCEPT ![r] = "stat"]
  /\ UNCHANGED <<bodyVars, callVars, result, stored, dead>>

StatFound(r) ==
  /\ pc[r] = "stat"
  /\ key[r] \in stored
  /\ IF r \in Large
       THEN pc' = [pc EXCEPT ![r] = "skim"] /\ UNCHANGED <<bodyVars, callVars, result, dead>>
       ELSE Finish(r, "known")
  /\ UNCHANGED stored

Skimmed(r) ==
  /\ pc[r] = "skim"
  /\ BodyRead(r)
  /\ Finish(r, "known")
  /\ UNCHANGED stored

StatNotFound(r) ==
  /\ pc[r] = "stat"
  /\ key[r] \notin stored
  /\ pc' = [pc EXCEPT ![r] = "put"]
  /\ UNCHANGED <<bodyVars, callVars, result, stored, dead>>

PutDone(r) ==
  /\ pc[r] = "put"
  /\ r \in Large => BodyRead(r)
  /\ PutObject(key[r])
  /\ Finish(r, "uploaded")

\* An S3 request fails or times out, the body fails, or the handler panics.
\* PutObject may have written the object all the same.
LeaderFails(r) ==
  /\ pc[r] \in Leading
  /\ pc[r] \in {"read", "skim"} => BodyFails(r)
  /\ \/ UNCHANGED stored
     \/ pc[r] = "put" /\ (r \in Large => BodyRead(r)) /\ PutObject(key[r])
  /\ Finish(r, "error")

\* The connection goes: requests that have not started are never seen, handlers
\* learn of it from their body or their context.
CloseConn(c) ==
  /\ c \notin dead
  /\ dead' = dead \cup {c}
  /\ pc' = [r \in Request |-> IF conn[r] = c /\ pc[r] = "new" THEN "over" ELSE pc[r]]
  /\ result' = [r \in Request |-> IF conn[r] = c /\ pc[r] = "new" THEN "error" ELSE result[r]]
  /\ unsent' = [r \in Request |-> IF conn[r] = c /\ pc[r] = "new" THEN 0 ELSE unsent[r]]
  /\ unread' = [r \in Request |-> IF conn[r] = c /\ pc[r] = "new" THEN 0 ELSE unread[r]]
  /\ UNCHANGED <<window, callVars, stored>>

-----------------------------------------------------------------------------
Handler(r) ==
  \/ Lead(r) \/ Follow(r) \/ Read(r)
  \/ Drained(r) \/ Woken(r)
  \/ BodyBuffered(r) \/ StatFound(r) \/ Skimmed(r) \/ StatNotFound(r) \/ PutDone(r)

Next ==
  \/ \E r \in Request : Send(r) \/ Handler(r) \/ FollowerGivesUp(r) \/ LeaderFails(r)
  \/ \E c \in Conn : CloseConn(c)

Spec == Init /\ [][Next]_vars

\* Handlers run, S3 answers, and a client sends its body while the connection is
\* there; a handler whose connection is gone notices.  Nothing here relies on a
\* timeout: ChunkS3Timeout may be 0.
Fairness ==
  \A r \in Request :
    /\ WF_vars(Handler(r))
    /\ WF_vars(conn[r] \notin dead /\ Send(r))
    /\ WF_vars(conn[r] \in dead /\ (FollowerGivesUp(r) \/ LeaderFails(r)))

FairSpec == Spec /\ Fairness

-----------------------------------------------------------------------------
(* Properties. *)

\* A client that was told its chunk is uploaded or known can rely on it, whether
\* its request led or followed, and whatever failed around it.
SuccessMeansStored ==
  \A r \in Request : result[r] \in {"uploaded", "known"} => key[r] \in stored

\* Of all concurrent requests for one digest one is told that it uploaded it.
UploadedOnce ==
  \A r, q \in Request :
    r # q /\ key[r] = key[q] => ~(result[r] = "uploaded" /\ result[q] = "uploaded")

\* Sharing the work of a leader shows in no answer: each is one that the request could
\* have got alone, at the moment it is given.  In particular what is "known" is there
\* and one request at most has "uploaded" a chunk, since a chunk that is there stays.
Store == INSTANCE ChunkStore
AsIfAlone == Store!Spec

\* "waiting with an unread body can exhaust the connection-level receive window
\* and deadlock every stream" (chunk_upload.go): it does not, and no follower
\* misses the end of its leader.  Every request is answered.
AllAnswered == \A r \in Request : pc[r] # "new" ~> pc[r] = "over"

\* Some step of Handler(r), of the client of r or, on a dead connection, of giving up
\* is possible.  A leader that is at "stat", or writes what it has read, waits for S3 only.
CanMove(r) ==
  \/ pc[r] \in {"new", "stat"}
  \/ pc[r] = "put" /\ (r \in Large => BodyRead(r))
  \/ pc[r] \in {"read", "skim", "drain"} /\ BodyRead(r)
  \/ pc[r] = "wait" /\ flight[r] \in done
  \/ Reading(r) /\ unread[r] > 0
  \/ pc[r] # "over" /\ unsent[r] > 0 /\ window[conn[r]] > 0 /\ conn[r] \notin dead
  \/ pc[r] # "over" /\ conn[r] \in dead

\* The same at every moment, and without fairness: a request under way can go on, or
\* its leader can, or one whose unread body takes up the window of their connections
\* can.  No circle of handlers waits for one another.
NeverStuck ==
  \A r \in Request : pc[r] \notin {"new", "over"} =>
    \/ CanMove(r) \/ CanMove(flight[r])
    \/ \E q \in Request :
         unread[q] > 0 /\ conn[q] \in {conn[r], conn[flight[r]]} /\ CanMove(q)

(***************************************************************************)
(* The inductive invariants behind the first two and behind NeverStuck.    *)
(***************************************************************************)

\* calls holds exactly the leaders, one per digest.
OneLeader ==
  /\ \A d \in Digest : \A r \in calls[d] : key[r] = d /\ pc[r] \in Leading
  /\ \A r \in Request : pc[r] \in Leading => calls[key[r]] = {r}

\* What a follower waits for is a call for its digest, in progress or done.
FollowersCovered ==
  \A r \in Request : pc[r] \in {"drain", "wait"} =>
    /\ key[flight[r]] = key[r]
    /\ flight[r] \in done \/ pc[flight[r]] \in Leading

FlightInv ==
  /\ OneLeader /\ FollowersCovered /\ SuccessMeansStored /\ UploadedOnce
  /\ \A r \in done \ err : key[r] \in stored
  /\ \A r \in Request : pc[r] = "skim" => key[r] \in stored
  /\ \A r \in Request : pc[r] = "put" => key[r] \notin stored
  /\ \A r \in Request : result[r] # "none" => pc[r] = "over"

\* A handler that waits, or is over, leaves no part of its body in the window, and the
\* window of a connection is used up by bodies that wait to be read.
WindowInv ==
  /\ \A r \in Request : pc[r] \in {"wait", "over"} => BodyRead(r)
  /\ \A c \in Conn \ dead :
       window[c] = 0 => \E r \in Request : conn[r] = c /\ unread[r] > 0
=============================================================================
