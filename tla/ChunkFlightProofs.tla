------------------------- MODULE ChunkFlightProofs -------------------------
(***************************************************************************)
(* For any requests, connections, digests and window: TypeOK and FlightInv *)
(* are inductive, so no client is told of a chunk that is not stored, only *)
(* one is told that it uploaded a chunk, and sharing a leader shows in no  *)
(* answer.  With WindowInv, handlers never wait for one another in a       *)
(* circle.                                                                 *)
(***************************************************************************)
EXTENDS ChunkFlight, TLAPS

LEMMA InitTypeOK == Init => TypeOK
BY RequestAssumption, SizeAssumption DEF Init, TypeOK, Pc, Result

LEMMA ReturnOK ==
  ASSUME TypeOK, NEW r \in Request, NEW res \in Result, Return(r, res)
  PROVE  /\ pc' \in [Request -> Pc] /\ result' \in [Request -> Result]
         /\ unsent' \in [Request -> 0 .. BodySize] /\ unread' \in [Request -> 0 .. BodySize]
         /\ \A q \in Request : unsent'[q] + unread'[q] <= BodySize
         /\ window' \in [Conn -> Nat]
<1>1. conn[r] \in Conn /\ unread[r] \in Nat
  BY RequestAssumption, SizeAssumption DEF TypeOK
<1>2. window' \in [Conn -> Nat]
  BY <1>1 DEF TypeOK, Return
<1>3. \A q \in Request : unsent'[q] + unread'[q] <= BodySize
  BY SizeAssumption DEF TypeOK, Return
<1> QED
  BY <1>2, <1>3, SizeAssumption DEF TypeOK, Return, Pc

LEMMA FinishOK ==
  ASSUME TypeOK, NEW r \in Request, NEW res \in Result, Finish(r, res), stored' \subseteq Digest
  PROVE  TypeOK'
<1>1. calls' \in [Digest -> SUBSET Request]
  BY DEF TypeOK, Finish
<1>2. done' \subseteq Request /\ err' \subseteq done'
  BY DEF TypeOK, Finish
<1> QED
  BY <1>1, <1>2, ReturnOK DEF TypeOK, Finish

LEMMA NextTypeOK == TypeOK /\ [Next]_vars => TypeOK'
<1> SUFFICES ASSUME TypeOK, [Next]_vars PROVE TypeOK'
  OBVIOUS
<1> USE RequestAssumption, SizeAssumption DEF vars, bodyVars, callVars
<1>1. ASSUME NEW r \in Request, Send(r) PROVE TypeOK'
  <2>1. conn[r] \in Conn /\ unsent[r] \in 1 .. BodySize /\ unread[r] + 1 \in 0 .. BodySize
    BY <1>1 DEF TypeOK, Send
  <2>2. window' \in [Conn -> Nat]
    BY <1>1, <2>1 DEF TypeOK, Send
  <2>3. /\ unsent' \in [Request -> 0 .. BodySize] /\ unread' \in [Request -> 0 .. BodySize]
        /\ \A q \in Request : unsent'[q] + unread'[q] <= BodySize
    BY <1>1, <2>1 DEF TypeOK, Send
  <2> QED
    BY <1>1, <2>2, <2>3 DEF TypeOK, Send
<1>2. ASSUME NEW r \in Request, Read(r) PROVE TypeOK'
  BY <1>2 DEF TypeOK, Read
<1>3. ASSUME NEW r \in Request, Lead(r) PROVE TypeOK'
  BY <1>3 DEF TypeOK, Lead, Pc, Leading
<1>4. ASSUME NEW r \in Request, Follow(r) PROVE TypeOK'
  BY <1>4 DEF TypeOK, Follow, FollowerStart, Pc
<1>5. ASSUME NEW r \in Request, Drained(r) PROVE TypeOK'
  BY <1>5 DEF TypeOK, Drained, Pc
<1>6. ASSUME NEW r \in Request, Woken(r) \/ FollowerGivesUp(r) PROVE TypeOK'
  <2>1. \E res \in Result : Return(r, res)
    BY <1>6 DEF Woken, FollowerGivesUp, Outcome, Result
  <2>2. UNCHANGED <<callVars, stored, dead>>
    BY <1>6 DEF Woken, FollowerGivesUp
  <2> QED
    BY <2>1, <2>2, ReturnOK DEF TypeOK
<1>7. ASSUME NEW r \in Request, BodyBuffered(r) \/ StatNotFound(r) PROVE TypeOK'
  BY <1>7 DEF TypeOK, BodyBuffered, StatNotFound, Pc, Leading
<1>8. ASSUME NEW r \in Request, StatFound(r) PROVE TypeOK'
  <2>1. CASE r \in Large
    BY <1>8, <2>1 DEF TypeOK, StatFound, Pc, Leading
  <2>2. CASE r \notin Large
    BY <1>8, <2>2, FinishOK DEF StatFound, Result, TypeOK
  <2> QED
    BY <2>1, <2>2
<1>9. ASSUME NEW r \in Request, Skimmed(r) PROVE TypeOK'
  BY <1>9, FinishOK DEF Skimmed, Result, TypeOK
<1>10. ASSUME NEW r \in Request, PutDone(r) PROVE TypeOK'
  <2>1. stored' \subseteq Digest
    BY <1>10 DEF PutDone, PutObject, TypeOK
  <2> QED
    BY <1>10, <2>1, FinishOK DEF PutDone, Result
<1>11. ASSUME NEW r \in Request, LeaderFails(r) PROVE TypeOK'
  <2>1. stored' \subseteq Digest
    BY <1>11 DEF LeaderFails, PutObject, TypeOK
  <2> QED
    BY <1>11, <2>1, FinishOK DEF LeaderFails, Result
<1>12. ASSUME NEW c \in Conn, CloseConn(c) PROVE TypeOK'
  BY <1>12 DEF TypeOK, CloseConn, Pc, Result
<1>13. CASE UNCHANGED vars
  BY <1>13 DEF TypeOK
<1> QED
  BY <1>1, <1>2, <1>3, <1>4, <1>5, <1>6, <1>7, <1>8, <1>9, <1>10, <1>11, <1>12, <1>13
  DEF Next, Handler

(***************************************************************************)
(* Type correctness of the uploads in progress.                            *)
(***************************************************************************)
THEOREM TypeCorrect == Spec => []TypeOK
BY InitTypeOK, NextTypeOK, PTL DEF Spec

-----------------------------------------------------------------------------
(* FlightInv. *)

LEMMA InitFlightInv == Init => FlightInv
BY DEF Init, FlightInv, OneLeader, FollowersCovered, SuccessMeansStored, UploadedOnce, Leading

LEMMA CallTypes ==
  ASSUME TypeOK
  PROVE  calls \in [Digest -> SUBSET Request] /\ flight \in [Request -> Request]
BY DEF TypeOK

LEMMA ReturnFrame ==
  ASSUME TypeOK, NEW r \in Request, NEW res, Return(r, res)
  PROVE  /\ pc'[r] = "over" /\ result'[r] = res
         /\ \A q \in Request : q # r => pc'[q] = pc[q] /\ result'[q] = result[q]
BY DEF TypeOK, Return

\* The leader's answer: it must be true, and "uploaded" only after a put.
LEMMA FinishKeeps ==
  ASSUME TypeOK, FlightInv, NEW r \in Request, NEW res, Finish(r, res), pc[r] \in Leading,
         stored \subseteq stored', stored' \subseteq stored \cup {key[r]},
         res # "error" => key[r] \in stored',
         res = "uploaded" => pc[r] = "put",
         res # "none"
  PROVE  FlightInv'
<1> USE RequestAssumption
<1>1. /\ pc'[r] = "over" /\ result'[r] = res
      /\ \A q \in Request : q # r => pc'[q] = pc[q] /\ result'[q] = result[q]
  BY ReturnFrame DEF Finish
<1>2. /\ flight' = flight /\ done' = done \cup {r}
      /\ err' = IF res = "error" THEN err \cup {r} ELSE err
  BY DEF Finish
<1>3. calls[key[r]] = {r}
  BY DEF FlightInv, OneLeader
<1>4. calls'[key[r]] = {} /\ \A d \in Digest : d # key[r] => calls'[d] = calls[d]
  BY <1>3 DEF TypeOK, Finish
<1>5. \A q \in Request : pc[q] \in Leading /\ key[q] = key[r] => q = r
  BY <1>3 DEF FlightInv, OneLeader
<1>6. OneLeader'
  BY <1>1, <1>4, <1>5, CallTypes DEF FlightInv, OneLeader, Leading
<1>7. FollowersCovered'
  BY <1>1, <1>2, CallTypes DEF FlightInv, FollowersCovered
<1>8. SuccessMeansStored'
  BY <1>1 DEF FlightInv, SuccessMeansStored
<1>9. \A q \in Request : res = "uploaded" /\ key[q] = key[r] => result[q] # "uploaded"
  BY DEF FlightInv, SuccessMeansStored
<1>10. UploadedOnce'
  BY <1>1, <1>9 DEF FlightInv, UploadedOnce
<1>11. \A q \in done' \ err' : key[q] \in stored'
  BY <1>2 DEF FlightInv
<1>12. \A q \in Request : pc'[q] = "skim" => key[q] \in stored'
  BY <1>1 DEF FlightInv
<1>13. \A q \in Request : pc'[q] = "put" => key[q] \notin stored'
  BY <1>1, <1>5 DEF FlightInv, Leading
<1>14. \A q \in Request : result'[q] # "none" => pc'[q] = "over"
  BY <1>1 DEF FlightInv
<1> QED
  BY <1>6, <1>7, <1>8, <1>10, <1>11, <1>12, <1>13, <1>14 DEF FlightInv

\* A follower's answer.
LEMMA FollowerKeeps ==
  ASSUME TypeOK, FlightInv, NEW r \in Request, NEW res \in {"error", "known"}, Return(r, res),
         pc[r] \in {"drain", "wait"}, UNCHANGED <<callVars, stored>>,
         res = "known" => key[r] \in stored
  PROVE  FlightInv'
<1> USE DEF callVars
<1>1. /\ pc'[r] = "over" /\ result'[r] = res
      /\ \A q \in Request : q # r => pc'[q] = pc[q] /\ result'[q] = result[q]
  BY ReturnFrame
<1>2. pc[r] \notin Leading
  BY DEF Leading
<1>3. OneLeader'
  BY <1>1, <1>2, CallTypes DEF FlightInv, OneLeader, Leading
<1>4. FollowersCovered'
  BY <1>1, <1>2, CallTypes DEF FlightInv, FollowersCovered
<1>5. SuccessMeansStored' /\ UploadedOnce'
  BY <1>1 DEF FlightInv, SuccessMeansStored, UploadedOnce
<1> QED
  BY <1>1, <1>3, <1>4, <1>5 DEF FlightInv

\* A request that goes from one phase to another, with nothing else changed but
\* what is known of bodies.
LEMMA MoveKeeps ==
  ASSUME TypeOK, FlightInv, NEW r \in Request, NEW q,
         pc' = [pc EXCEPT ![r] = q], UNCHANGED <<callVars, result, stored>>,
         \/ pc[r] \in Leading /\ q \in Leading
         \/ pc[r] = "drain" /\ q = "wait",
         q = "skim" => key[r] \in stored,
         q = "put" => key[r] \notin stored
  PROVE  FlightInv'
<1> USE DEF callVars
<1>1. pc'[r] = q /\ \A p \in Request : p # r => pc'[p] = pc[p]
  BY DEF TypeOK
<1>2. OneLeader'
  BY <1>1, CallTypes DEF FlightInv, OneLeader, Leading
<1>3. FollowersCovered'
  BY <1>1, CallTypes DEF FlightInv, FollowersCovered, Leading
<1>4. \A s \in Request : pc'[s] = "put" => key[s] \notin stored'
  BY <1>1 DEF FlightInv
<1>5. \A s \in Request : result'[s] # "none" => pc'[s] = "over"
  BY <1>1 DEF FlightInv, Leading
<1>6. \A s \in Request : pc'[s] = "skim" => key[s] \in stored'
  BY <1>1 DEF FlightInv
<1> QED
  BY <1>2, <1>3, <1>4, <1>5, <1>6 DEF FlightInv, SuccessMeansStored, UploadedOnce

LEMMA NextFlightInv == TypeOK /\ FlightInv /\ [Next]_vars => FlightInv'
<1> SUFFICES ASSUME TypeOK, FlightInv, [Next]_vars PROVE FlightInv'
  OBVIOUS
<1> USE RequestAssumption DEF vars, bodyVars
<1>1. ASSUME NEW r \in Request, Send(r) \/ Read(r) PROVE FlightInv'
  <2>1. UNCHANGED <<pc, flight, calls, done, err, result, stored>>
    BY <1>1 DEF Send, Read, callVars
  <2> QED
    BY <2>1 DEF FlightInv, OneLeader, FollowersCovered, SuccessMeansStored, UploadedOnce
<1>2. ASSUME NEW r \in Request, Lead(r) PROVE FlightInv'
  <2>1. /\ pc'[r] \in {"stat", "read"} /\ \A q \in Request : q # r => pc'[q] = pc[q]
        /\ UNCHANGED <<flight, done, err, result, stored>>
    BY <1>2 DEF Lead, TypeOK
  <2>2. calls[key[r]] = {} /\ calls'[key[r]] = {r}
    BY <1>2 DEF Lead, TypeOK
  <2>3. \A d \in Digest : d # key[r] => calls'[d] = calls[d]
    BY <1>2 DEF Lead, TypeOK
  <2>4. pc[r] = "new"
    BY <1>2 DEF Lead
  <2>5. \A q \in Request : pc[q] \in Leading => key[q] # key[r]
    BY <2>2 DEF FlightInv, OneLeader
  <2>6. OneLeader'
    BY <2>1, <2>2, <2>3, <2>4, <2>5, CallTypes DEF FlightInv, OneLeader, Leading
  <2>7. FollowersCovered'
    BY <2>1, <2>4, CallTypes DEF FlightInv, FollowersCovered, Leading
  <2> QED
    BY <2>1, <2>4, <2>6, <2>7 DEF FlightInv, SuccessMeansStored, UploadedOnce
<1>3. ASSUME NEW r \in Request, Follow(r) PROVE FlightInv'
  <2>1. /\ pc[r] = "new" /\ pc'[r] = "drain" /\ \A q \in Request : q # r => pc'[q] = pc[q]
        /\ UNCHANGED <<calls, done, err, result, stored>>
    BY <1>3 DEF Follow, FollowerStart, TypeOK
  <2>2. PICK l \in calls[key[r]] : flight' = [flight EXCEPT ![r] = l]
    BY <1>3 DEF Follow
  <2>3. l \in Request /\ key[l] = key[r] /\ pc[l] \in Leading
    BY <2>2, CallTypes DEF FlightInv, OneLeader
  <2>4. flight'[r] = l /\ \A q \in Request : q # r => flight'[q] = flight[q]
    BY <2>2 DEF TypeOK
  <2>5. OneLeader'
    BY <2>1, CallTypes DEF FlightInv, OneLeader, Leading
  <2>6. FollowersCovered'
    BY <2>1, <2>3, <2>4, CallTypes DEF FlightInv, FollowersCovered, Leading
  <2> QED
    BY <2>1, <2>5, <2>6 DEF FlightInv, SuccessMeansStored, UploadedOnce
<1>4. ASSUME NEW r \in Request, Drained(r) PROVE FlightInv'
  BY <1>4, MoveKeeps DEF Drained
<1>5. ASSUME NEW r \in Request, Woken(r) PROVE FlightInv'
  <2>1. Outcome(r) \in {"error", "known"} /\ (Outcome(r) = "known" => flight[r] \in done \ err)
    BY <1>5 DEF Woken, Outcome
  <2>2. Outcome(r) = "known" => key[r] \in stored
    BY <1>5, <2>1 DEF Woken, FlightInv, FollowersCovered
  <2> QED
    BY <1>5, <2>1, <2>2, FollowerKeeps DEF Woken
<1>6. ASSUME NEW r \in Request, FollowerGivesUp(r) PROVE FlightInv'
  BY <1>6, FollowerKeeps DEF FollowerGivesUp
<1>7. ASSUME NEW r \in Request, BodyBuffered(r) PROVE FlightInv'
  BY <1>7, MoveKeeps DEF BodyBuffered, Leading
<1>8. ASSUME NEW r \in Request, StatFound(r) PROVE FlightInv'
  <2>1. CASE r \in Large
    BY <1>8, <2>1, MoveKeeps DEF StatFound, Leading
  <2>2. CASE r \notin Large
    BY <1>8, <2>2, FinishKeeps DEF StatFound, Leading, TypeOK
  <2> QED
    BY <2>1, <2>2
<1>9. ASSUME NEW r \in Request, Skimmed(r) PROVE FlightInv'
  <2>1. key[r] \in stored
    BY <1>9 DEF Skimmed, FlightInv
  <2> QED
    BY <1>9, <2>1, FinishKeeps DEF Skimmed, Leading, TypeOK
<1>10. ASSUME NEW r \in Request, StatNotFound(r) PROVE FlightInv'
  BY <1>10, MoveKeeps DEF StatNotFound, Leading
<1>11. ASSUME NEW r \in Request, PutDone(r) PROVE FlightInv'
  <2>1. stored' = stored \cup {key[r]}
    BY <1>11 DEF PutDone, PutObject
  <2> QED
    BY <1>11, <2>1, FinishKeeps DEF PutDone, Leading
<1>12. ASSUME NEW r \in Request, LeaderFails(r) PROVE FlightInv'
  <2>1. stored \subseteq stored' /\ stored' \subseteq stored \cup {key[r]}
    BY <1>12 DEF LeaderFails, PutObject
  <2> QED
    BY <1>12, <2>1, FinishKeeps DEF LeaderFails
<1>13. ASSUME NEW c \in Conn, CloseConn(c) PROVE FlightInv'
  <2>1. /\ UNCHANGED <<flight, calls, done, err, stored>>
        /\ \A q \in Request : \/ pc'[q] = pc[q] /\ result'[q] = result[q]
                              \/ pc[q] = "new" /\ pc'[q] = "over" /\ result'[q] = "error"
    BY <1>13 DEF CloseConn, callVars
  <2>2. OneLeader'
    BY <2>1, CallTypes DEF FlightInv, OneLeader, Leading
  <2>3. FollowersCovered'
    BY <2>1, CallTypes DEF FlightInv, FollowersCovered, Leading
  <2>4. SuccessMeansStored' /\ UploadedOnce'
    BY <2>1 DEF FlightInv, SuccessMeansStored, UploadedOnce
  <2> QED
    BY <2>1, <2>2, <2>3, <2>4 DEF FlightInv
<1>14. CASE UNCHANGED vars
  BY <1>14 DEF callVars, FlightInv, OneLeader, FollowersCovered, SuccessMeansStored, UploadedOnce
<1> QED
  BY <1>1, <1>2, <1>3, <1>4, <1>5, <1>6, <1>7, <1>8, <1>9, <1>10, <1>11, <1>12, <1>13, <1>14
  DEF Next, Handler

LEMMA FlightInvHolds == Spec => [](TypeOK /\ FlightInv)
BY InitTypeOK, InitFlightInv, NextTypeOK, NextFlightInv, PTL DEF Spec

(***************************************************************************)
(* A client that is told that its chunk is uploaded or known can rely on   *)
(* it: chunkFlightGroup.Do passes on to followers only what the leader's   *)
(* storeChunk achieved.                                                    *)
(***************************************************************************)
THEOREM SuccessIsStored == Spec => []SuccessMeansStored
<1>1. FlightInv => SuccessMeansStored
  BY DEF FlightInv
<1> QED
  BY <1>1, FlightInvHolds, PTL

(***************************************************************************)
(* Concurrent uploads of one digest coalesce: at most one request is       *)
(* answered "uploaded" for each digest.                                    *)
(***************************************************************************)
THEOREM Coalesced == Spec => []UploadedOnce
<1>1. FlightInv => UploadedOnce
  BY DEF FlightInv
<1> QED
  BY <1>1, FlightInvHolds, PTL

-----------------------------------------------------------------------------
(* Nobody waits for ever for another.  What must not happen is that the     *)
(* window of a connection is used up by bodies that nobody is about to read. *)

LEMMA BodyTypes ==
  ASSUME TypeOK, NEW r \in Request
  PROVE  unsent[r] \in Nat /\ unread[r] \in Nat /\ conn[r] \in Conn /\ window[conn[r]] \in Nat
BY RequestAssumption, SizeAssumption DEF TypeOK

LEMMA InitWindowInv == Init => WindowInv
BY RequestAssumption, SizeAssumption DEF Init, WindowInv

\* A unit that is sent is one to be read.
LEMMA SendWindow ==
  ASSUME TypeOK, WindowInv, NEW r \in Request, Send(r)
  PROVE  WindowInv'
<1>1. /\ pc[r] # "over" /\ unsent[r] > 0 /\ unread'[r] > 0
      /\ \A q \in Request \ {r} : unsent'[q] = unsent[q] /\ unread'[q] = unread[q]
      /\ \A c \in Conn \ {conn[r]} : window'[c] = window[c]
      /\ UNCHANGED <<pc, dead>>
  BY BodyTypes DEF Send, TypeOK
<1>2. \A q \in Request : pc'[q] \in {"wait", "over"} => BodyRead(q)'
  BY <1>1, BodyTypes DEF WindowInv, BodyRead
<1>3. ASSUME NEW c \in Conn \ dead, window'[c] = 0
      PROVE  \E q \in Request : conn[q] = c /\ unread'[q] > 0
  <2>1. CASE c = conn[r]
    BY <1>1, <2>1
  <2>2. CASE c # conn[r]
    BY <1>1, <1>3, <2>2 DEF WindowInv
  <2> QED
    BY <2>1, <2>2
<1> QED
  BY <1>1, <1>2, <1>3 DEF WindowInv

\* Whoever reads gives room back.
LEMMA ReadWindow ==
  ASSUME TypeOK, WindowInv, NEW r \in Request, Read(r)
  PROVE  WindowInv'
<1>1. /\ pc[r] \notin {"wait", "over"} /\ window'[conn[r]] > 0
      /\ \A q \in Request \ {r} : unread'[q] = unread[q]
      /\ \A c \in Conn \ {conn[r]} : window'[c] = window[c]
      /\ UNCHANGED <<pc, dead, unsent>>
  BY BodyTypes DEF Read, Reading, TypeOK
<1>2. \A q \in Request : pc'[q] \in {"wait", "over"} => BodyRead(q)'
  BY <1>1 DEF WindowInv, BodyRead
<1>3. ASSUME NEW c \in Conn \ dead, window'[c] = 0
      PROVE  \E q \in Request : conn[q] = c /\ unread'[q] > 0
  <2>1. c # conn[r] /\ window[c] = 0
    BY <1>1, <1>3
  <2> QED
    BY <1>1, <2>1 DEF WindowInv
<1> QED
  BY <1>1, <1>2, <1>3 DEF WindowInv

\* So does the server with what is left of the body of a handler that returns.
LEMMA ReturnWindow ==
  ASSUME TypeOK, WindowInv, NEW r \in Request, NEW res, Return(r, res), UNCHANGED dead
  PROVE  WindowInv'
<1>1. /\ BodyRead(r)' /\ window'[conn[r]] = window[conn[r]] + unread[r]
      /\ \A q \in Request \ {r} : /\ unsent'[q] = unsent[q] /\ unread'[q] = unread[q]
                                  /\ pc'[q] = pc[q]
      /\ \A c \in Conn \ {conn[r]} : window'[c] = window[c]
  BY BodyTypes DEF Return, BodyRead, TypeOK
<1>2. \A q \in Request : pc'[q] \in {"wait", "over"} => BodyRead(q)'
  BY <1>1 DEF WindowInv, BodyRead
<1>3. ASSUME NEW c \in Conn \ dead, window'[c] = 0
      PROVE  \E q \in Request : conn[q] = c /\ unread'[q] > 0
  <2>1. window[c] = 0 /\ (c = conn[r] => unread[r] = 0)
    BY <1>1, <1>3, BodyTypes
  <2>2. PICK q \in Request : conn[q] = c /\ unread[q] > 0
    BY <2>1 DEF WindowInv
  <2>3. q # r
    BY <2>1, <2>2
  <2> QED
    BY <1>1, <2>2, <2>3
<1> QED
  BY <1>2, <1>3 DEF WindowInv

\* Steps of a handler that leave the body alone: it waits with nothing left to read.
LEMMA MoveWindow ==
  ASSUME TypeOK, WindowInv, NEW r \in Request, NEW q, pc' = [pc EXCEPT ![r] = q],
         UNCHANGED <<unsent, unread, window, dead>>,
         q \in {"wait", "over"} => BodyRead(r)
  PROVE  WindowInv'
BY DEF TypeOK, WindowInv, BodyRead

LEMMA CloseWindow ==
  ASSUME TypeOK, WindowInv, NEW c \in Conn, CloseConn(c)
  PROVE  WindowInv'
<1>1. /\ dead' = dead \cup {c} /\ window' = window
      /\ \A q \in Request : \/ /\ pc'[q] = pc[q] /\ unsent'[q] = unsent[q]
                               /\ unread'[q] = unread[q]
                            \/ conn[q] = c /\ BodyRead(q)'
  BY DEF CloseConn, BodyRead
<1>2. \A q \in Request : pc'[q] \in {"wait", "over"} => BodyRead(q)'
  BY <1>1 DEF WindowInv, BodyRead
<1>3. ASSUME NEW b \in Conn \ dead', window'[b] = 0
      PROVE  \E q \in Request : conn[q] = b /\ unread'[q] > 0
  BY <1>1, <1>3 DEF WindowInv
<1> QED
  BY <1>2, <1>3 DEF WindowInv

LEMMA NextWindowInv ==
  ASSUME TypeOK, WindowInv, [Next]_vars
  PROVE  WindowInv'
<1> USE DEF bodyVars
<1>1. ASSUME NEW r \in Request, Lead(r) PROVE WindowInv'
  BY <1>1, MoveWindow DEF Lead
<1>2. ASSUME NEW r \in Request, Follow(r) PROVE WindowInv'
  BY <1>2, MoveWindow DEF Follow, FollowerStart
<1>3. ASSUME NEW r \in Request, Drained(r) \/ BodyBuffered(r) \/ StatNotFound(r)
      PROVE  WindowInv'
  BY <1>3, MoveWindow DEF Drained, BodyBuffered, StatNotFound
<1>4. ASSUME NEW r \in Request, Woken(r) \/ FollowerGivesUp(r) PROVE WindowInv'
  BY <1>4, ReturnWindow DEF Woken, FollowerGivesUp
<1>5. ASSUME NEW r \in Request, StatFound(r) PROVE WindowInv'
  BY <1>5, MoveWindow, ReturnWindow DEF StatFound, Finish
<1>6. ASSUME NEW r \in Request, Skimmed(r) \/ PutDone(r) \/ LeaderFails(r) PROVE WindowInv'
  BY <1>6, ReturnWindow DEF Skimmed, PutDone, LeaderFails, Finish
<1>7. CASE UNCHANGED vars
  BY <1>7 DEF vars, WindowInv, BodyRead
<1> QED
  BY <1>1, <1>2, <1>3, <1>4, <1>5, <1>6, <1>7, SendWindow, ReadWindow, CloseWindow
  DEF Next, Handler

LEMMA WindowInvHolds == Spec => []WindowInv
BY InitWindowInv, NextWindowInv, TypeCorrect, PTL DEF Spec

\* A body in the window belongs to a handler that can go on: it is about to start, it
\* reads, or S3 will answer it.
LEMMA UnreadMoves ==
  ASSUME TypeOK, WindowInv, NEW q \in Request, unread[q] > 0
  PROVE  CanMove(q)
<1>1. pc[q] \in Pc \ {"wait", "over"}
  BY BodyTypes DEF TypeOK, WindowInv, BodyRead
<1> QED
  BY <1>1 DEF Pc, Leading, CanMove, Reading

\* A handler that does not wait for another can go on, or waits for room in the window.
LEMMA HandlerMoves ==
  ASSUME TypeOK, WindowInv, NEW r \in Request, pc[r] \in Leading \cup {"drain"}
  PROVE  CanMove(r) \/ \E q \in Request : unread[q] > 0 /\ conn[q] = conn[r] /\ CanMove(q)
<1>1. CASE conn[r] \in dead \/ pc[r] = "stat" \/ (pc[r] = "put" /\ r \notin Large)
  BY <1>1 DEF CanMove, Leading
<1>2. CASE conn[r] \notin dead /\ Reading(r)
  <2>1. CASE unread[r] > 0
    BY <1>2, <2>1 DEF CanMove
  <2>2. CASE unread[r] = 0 /\ unsent[r] = 0
    BY <1>2, <2>2 DEF CanMove, Reading, BodyRead
  <2>3. CASE unsent[r] > 0 /\ window[conn[r]] > 0
    BY <1>2, <2>3 DEF CanMove, Leading
  <2>4. CASE window[conn[r]] = 0
    <3>1. PICK q \in Request : conn[q] = conn[r] /\ unread[q] > 0
      BY <1>2, <2>4, BodyTypes DEF WindowInv
    <3> QED
      BY <3>1, UnreadMoves
  <2> QED
    BY <2>1, <2>2, <2>3, <2>4, BodyTypes
<1> QED
  BY <1>1, <1>2 DEF Leading, Reading

(***************************************************************************)
(* "waiting with an unread body can exhaust the connection-level receive   *)
(* window and deadlock every stream" (chunk_upload.go): for any requests,  *)
(* connections and window, a request under way can go on, or its leader    *)
(* can, or one that holds room in the window they need.                    *)
(***************************************************************************)
THEOREM NoDeadlock == Spec => []NeverStuck
<1>1. ASSUME TypeOK, FlightInv, WindowInv PROVE NeverStuck
  <2> SUFFICES ASSUME NEW r \in Request, pc[r] \notin {"new", "over"}
               PROVE  \/ CanMove(r) \/ CanMove(flight[r])
                      \/ \E q \in Request : /\ unread[q] > 0 /\ CanMove(q)
                                            /\ conn[q] \in {conn[r], conn[flight[r]]}
    BY DEF NeverStuck
  <2>1. flight[r] \in Request /\ pc[r] \in Leading \cup {"drain", "wait"}
    BY <1>1 DEF TypeOK, Pc
  <2>2. CASE pc[r] \in Leading \cup {"drain"}
    BY <1>1, <2>2, HandlerMoves
  <2>3. CASE pc[r] = "wait" /\ flight[r] \in done
    BY <2>3 DEF CanMove
  <2>4. CASE pc[r] = "wait" /\ pc[flight[r]] \in Leading
    BY <1>1, <2>1, <2>4, HandlerMoves
  <2> QED
    BY <1>1, <2>1, <2>2, <2>3, <2>4 DEF FlightInv, FollowersCovered
<1> QED
  BY <1>1, FlightInvHolds, WindowInvHolds, PTL

-----------------------------------------------------------------------------
(* The uploads implement ChunkStore. *)

\* The answer of one request, given by a handler that has not answered yet.
LEMMA AnswerAlone ==
  ASSUME TypeOK, FlightInv, NEW r \in Request, pc[r] # "over", NEW res, Return(r, res),
         \/ res = "error" /\ (stored' = stored \/ PutObject(key[r]))
         \/ res = "known" /\ key[r] \in stored /\ stored' = stored
         \/ res = "uploaded" /\ key[r] \notin stored /\ PutObject(key[r])
  PROVE  Store!Next
<1>1. Store!Unanswered(r) /\ Store!Answer(r, res)
  BY DEF FlightInv, Return, Store!Unanswered, Store!Answer
<1>2. CASE res = "error" /\ stored' = stored
  <2>1. result' = [q \in Request |-> IF q \in {r} THEN "error" ELSE result[q]]
    BY <1>2 DEF TypeOK, Return
  <2>2. {r} \in SUBSET Request /\ Store!Fail({r})
    BY <1>1, <1>2, <2>1 DEF Store!Fail
  <2> QED
    BY <2>2 DEF Store!Next
<1>3. CASE res = "error" /\ PutObject(key[r])
  BY <1>1, <1>3 DEF Store!Next, Store!FailAfterWrite, Store!Write, PutObject
<1>4. CASE res = "known" /\ key[r] \in stored /\ stored' = stored
  BY <1>1, <1>4 DEF Store!Next, Store!Known
<1>5. CASE res = "uploaded" /\ key[r] \notin stored /\ PutObject(key[r])
  BY <1>1, <1>5 DEF Store!Next, Store!Upload, Store!Write, PutObject
<1> QED
  BY <1>2, <1>3, <1>4, <1>5

LEMMA NextAlone ==
  ASSUME TypeOK, FlightInv, [Next]_vars
  PROVE  [Store!Next]_(Store!vars)
<1>1. ASSUME NEW r \in Request,
             \/ Send(r) \/ Read(r) \/ Lead(r) \/ Follow(r) \/ Drained(r) \/ BodyBuffered(r)
             \/ StatNotFound(r)
      PROVE  UNCHANGED Store!vars
  BY <1>1 DEF Send, Read, Lead, Follow, Drained, BodyBuffered, StatNotFound, Store!vars
<1>2. ASSUME NEW r \in Request, Woken(r) PROVE Store!Next
  <2>1. Outcome(r) = "known" => key[r] \in stored
    BY <1>2 DEF Woken, Outcome, FlightInv, FollowersCovered
  <2>2. Outcome(r) \in {"error", "known"}
    BY DEF Outcome
  <2> QED
    BY <1>2, <2>1, <2>2, AnswerAlone DEF Woken
<1>3. ASSUME NEW r \in Request, FollowerGivesUp(r) PROVE Store!Next
  BY <1>3, AnswerAlone DEF FollowerGivesUp
<1>4. ASSUME NEW r \in Request, StatFound(r) PROVE Store!Next \/ UNCHANGED Store!vars
  <2>1. CASE r \in Large
    BY <1>4, <2>1 DEF StatFound, Store!vars
  <2>2. CASE r \notin Large
    BY <1>4, <2>2, AnswerAlone DEF StatFound, Finish
  <2> QED
    BY <2>1, <2>2
<1>5. ASSUME NEW r \in Request, Skimmed(r) PROVE Store!Next
  BY <1>5, AnswerAlone DEF Skimmed, Finish, FlightInv
<1>6. ASSUME NEW r \in Request, PutDone(r) PROVE Store!Next
  BY <1>6, AnswerAlone DEF PutDone, Finish, FlightInv
<1>7. ASSUME NEW r \in Request, LeaderFails(r) PROVE Store!Next
  BY <1>7, AnswerAlone DEF LeaderFails, Finish, Leading
<1>8. ASSUME NEW c \in Conn, CloseConn(c) PROVE Store!Next
  <2> DEFINE R == {r \in Request : conn[r] = c /\ pc[r] = "new"}
  <2>1. \A r \in R : Store!Unanswered(r)
    BY DEF FlightInv, Store!Unanswered
  <2>2. result' = [r \in Request |-> IF r \in R THEN "error" ELSE result[r]]
    BY <1>8 DEF CloseConn
  <2>3. R \in SUBSET Request /\ Store!Fail(R)
    BY <1>8, <2>1, <2>2 DEF CloseConn, Store!Fail
  <2> QED
    BY <2>3 DEF Store!Next
<1>9. CASE UNCHANGED vars
  BY <1>9 DEF vars, Store!vars
<1> QED
  BY <1>1, <1>2, <1>3, <1>4, <1>5, <1>6, <1>7, <1>8, <1>9 DEF Next, Handler

(***************************************************************************)
(* Coalescing is invisible: whatever requests run at once, fail or lose    *)
(* their connection, each gets an answer that it could have got alone.     *)
(***************************************************************************)
THEOREM AnsweredAlone == Spec => AsIfAlone
<1>1. Init => Store!Init
  BY DEF Init, Store!Init
<1> QED
  BY <1>1, NextAlone, FlightInvHolds, PTL DEF Spec, AsIfAlone, Store!Spec
=============================================================================
