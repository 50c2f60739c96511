------------------------- MODULE SessionLockProofs -------------------------
(***************************************************************************)
(* For any sessions and buckets: the reference counts of SessionLock are   *)
(* right, and therefore it implements DatastoreLock.  LockTypeOK /\ CountsRight *)
(* is inductive; every step of SessionLock maps to a step of DatastoreLock *)
(* or to a stutter.                                                        *)
(***************************************************************************)
EXTENDS SessionLock, FiniteSetTheorems, TLAPS

-----------------------------------------------------------------------------
(* Who is served, and how many. *)

LEMMA ServedFinite ==
  /\ IsFiniteSet(AllServed) /\ Cardinality(AllServed) \in Nat
  /\ \A b \in Bucket : IsFiniteSet(Served(b)) /\ Cardinality(Served(b)) \in Nat
<1>1. AllServed \subseteq Session /\ \A b \in Bucket : Served(b) \subseteq Session
  BY DEF AllServed, Served
<1> QED
  BY <1>1, SessionAssumption, FS_Subset, FS_CardinalityType

LEMMA InitTypeOK == LockInit => LockTypeOK
BY DEF LockInit, LockTypeOK

LEMMA InitCounts == LockInit => CountsRight
<1> SUFFICES ASSUME LockInit PROVE CountsRight
  OBVIOUS
<1>1. AllServed = {} /\ \A b \in Bucket : Served(b) = {}
  BY DEF LockInit, AllServed, Served
<1>2. Cardinality({}) = 0
  BY FS_EmptySet
<1> QED
  BY <1>1, <1>2 DEF LockInit, CountsRight

\* Whoever is neither counted before nor after leaves the sets as they are.
LEMMA ServedSame ==
  ASSUME LockTypeOK, NEW x \in Session, at[x] \notin {"serving", "ending"},
         NEW q, q \notin {"serving", "ending"}, at' = [at EXCEPT ![x] = q],
         \A y \in Session : y # x => target'[y] = target[y]
  PROVE  AllServed' = AllServed /\ \A b \in Bucket : Served(b)' = Served(b)
BY DEF LockTypeOK, AllServed, Served

LEMMA ServedUnchanged ==
  ASSUME UNCHANGED <<at, target>>
  PROVE  AllServed' = AllServed /\ \A b \in Bucket : Served(b)' = Served(b)
BY DEF AllServed, Served

LEMMA CountServed ==
  ASSUME LockTypeOK, NEW x \in Session, at[x] \in {"begin", "poll"}, Count(x)
  PROVE  /\ AllServed' = AllServed \cup {x} /\ x \notin AllServed
         /\ \A b \in Bucket :
              /\ x \notin Served(b)
              /\ Served(b)' = IF b = target[x] THEN Served(b) \cup {x} ELSE Served(b)
<1>1. at' = [at EXCEPT ![x] = "serving"] /\ target' = target
  BY DEF Count
<1> QED
  BY <1>1 DEF LockTypeOK, AllServed, Served

LEMMA EndServed ==
  ASSUME LockTypeOK, NEW x \in Session, End(x)
  PROVE  /\ AllServed' = AllServed \ {x} /\ x \in AllServed
         /\ \A b \in Bucket :
              /\ b = target[x] => x \in Served(b)
              /\ Served(b)' = IF b = target[x] THEN Served(b) \ {x} ELSE Served(b)
<1>1. at[x] = "ending" /\ at' = [at EXCEPT ![x] = "idle"] /\ target' = target
  BY DEF End
<1> QED
  BY <1>1 DEF LockTypeOK, AllServed, Served

-----------------------------------------------------------------------------
(* Every step keeps LockTypeOK and CountsRight. *)

\* beginDataStoreSession with the lock in hand: oslock[target[x]] is the proxy's after it.
LEMMA CountKeeps ==
  ASSUME LockTypeOK, CountsRight, NEW x \in Session, at[x] \in {"begin", "poll"}, Count(x),
         oslock' = [oslock EXCEPT ![target[x]] = "proxy"], oslock[target[x]] # "collector"
  PROVE  LockTypeOK' /\ CountsRight'
<1>1. LockTypeOK'
  BY DEF LockTypeOK, Count, signalVars
<1> DEFINE t == target[x]
<1>2. t \in Bucket /\ gc' = gc
  BY DEF LockTypeOK, Count
<1>3. Cardinality(AllServed') = Cardinality(AllServed) + 1
  BY CountServed, ServedFinite, FS_AddElement
<1>4. ASSUME NEW b \in Bucket, b = t PROVE Cardinality(Served(b)') = Cardinality(Served(b)) + 1
  BY <1>4, CountServed, ServedFinite, FS_AddElement
<1>5. \A b \in Bucket : b # t => Served(b)' = Served(b)
  BY CountServed
<1>6. /\ locks'[t] = locks[t] + 1 /\ sessions' = sessions + 1
      /\ \A b \in Bucket : b # t => locks'[b] = locks[b] /\ oslock'[b] = oslock[b]
      /\ oslock'[t] = "proxy" /\ locks[t] \in Nat
  BY <1>2 DEF LockTypeOK, Count
<1>7. gc[t] # "running"
  BY <1>2 DEF CountsRight
<1>8. ASSUME NEW b \in Bucket
      PROVE  /\ locks'[b] = Cardinality(Served(b)')
             /\ oslock'[b] = "proxy" <=> locks'[b] > 0
             /\ oslock'[b] = "collector" <=> gc'[b] = "running"
  <2>1. CASE b = t
    BY <1>2, <1>4, <1>6, <1>7, <2>1 DEF CountsRight
  <2>2. CASE b # t
    BY <1>2, <1>5, <1>6, <2>2 DEF CountsRight
  <2> QED
    BY <2>1, <2>2
<1> QED
  BY <1>1, <1>3, <1>6, <1>8 DEF CountsRight

LEMMA EndKeeps ==
  ASSUME LockTypeOK, CountsRight, NEW x \in Session, End(x)
  PROVE  LockTypeOK' /\ CountsRight'
<1> DEFINE t == target[x]
<1>1. t \in Bucket /\ gc' = gc
  BY DEF LockTypeOK, End
<1>2. Cardinality(AllServed') = Cardinality(AllServed) - 1
  BY EndServed, ServedFinite, FS_RemoveElement
<1>3. ASSUME NEW b \in Bucket, b = t PROVE Cardinality(Served(b)') = Cardinality(Served(b)) - 1
  BY <1>3, EndServed, ServedFinite, FS_RemoveElement
<1>4. \A b \in Bucket : b # t => Served(b)' = Served(b)
  BY EndServed
<1>5. Cardinality(Served(t)) > 0 /\ Cardinality(AllServed) > 0
  <2>1. Served(t) # {} /\ AllServed # {}
    BY <1>1, EndServed
  <2> QED
    BY <1>1, <2>1, ServedFinite, FS_EmptySet
<1>6. locks[t] > 0 /\ sessions > 0 /\ oslock[t] = "proxy"
  BY <1>1, <1>5 DEF CountsRight
<1>7. /\ locks'[t] = locks[t] - 1 /\ sessions' = sessions - 1
      /\ \A b \in Bucket : b # t => locks'[b] = locks[b] /\ oslock'[b] = oslock[b]
      /\ oslock'[t] = IF locks[t] = 1 THEN "free" ELSE oslock[t]
  BY <1>1, <1>6 DEF LockTypeOK, End, HasEntry, LastSession
<1>8. LockTypeOK'
  BY <1>1, <1>6, <1>7 DEF LockTypeOK, End, HasEntry, LastSession, signalVars
<1>9. locks[t] \in Nat
  BY <1>1 DEF LockTypeOK
<1>10. ASSUME NEW b \in Bucket
       PROVE  /\ locks'[b] = Cardinality(Served(b)')
              /\ oslock'[b] = "proxy" <=> locks'[b] > 0
              /\ oslock'[b] = "collector" <=> gc'[b] = "running"
  <2>1. CASE b = t
    BY <1>1, <1>3, <1>6, <1>7, <1>9, <2>1 DEF CountsRight
  <2>2. CASE b # t
    BY <1>1, <1>4, <1>7, <2>2 DEF CountsRight
  <2> QED
    BY <2>1, <2>2
<1> QED
  BY <1>2, <1>7, <1>8, <1>10 DEF CountsRight

LEMMA ExitKeeps == ASSUME LockTypeOK, CountsRight, Exit PROVE LockTypeOK' /\ CountsRight'
<1>1. AllServed' = {} /\ \A b \in Bucket : Served(b)' = {}
  BY DEF Exit, AllServed, Served
<1>2. Cardinality({}) = 0
  BY FS_EmptySet
<1>3. LockTypeOK'
  BY DEF LockTypeOK, Exit
<1> QED
  BY <1>1, <1>2, <1>3 DEF LockTypeOK, CountsRight, Exit

LEMMA NextKeeps == LockTypeOK /\ CountsRight /\ [LockNext]_sessionVars => LockTypeOK' /\ CountsRight'
<1> SUFFICES ASSUME LockTypeOK, CountsRight, [LockNext]_sessionVars PROVE LockTypeOK' /\ CountsRight'
  OBVIOUS
<1> USE DEF sessionVars, lockVars, signalVars
<1>1. ASSUME NEW x \in Session, NEW b \in Bucket, Connect(x, b) PROVE LockTypeOK' /\ CountsRight'
  <2>1. AllServed' = AllServed /\ \A c \in Bucket : Served(c)' = Served(c)
    BY <1>1, ServedSame DEF Connect, LockTypeOK
  <2> QED
    BY <1>1, <2>1 DEF LockTypeOK, CountsRight, Connect
<1>2. ASSUME NEW x \in Session, Share(x) PROVE LockTypeOK' /\ CountsRight'
  <2>1. target[x] \in Bucket /\ locks[target[x]] > 0
    BY <1>2 DEF LockTypeOK, Share, HasEntry
  <2>2. oslock[target[x]] = "proxy"
    BY <2>1 DEF CountsRight
  <2>3. oslock' = [oslock EXCEPT ![target[x]] = "proxy"]
    BY <1>2, <2>1, <2>2 DEF Share, LockTypeOK
  <2> QED
    BY <1>2, <2>2, <2>3, CountKeeps DEF Share
<1>3. ASSUME NEW x \in Session, Acquire(x) PROVE LockTypeOK' /\ CountsRight'
  BY <1>3, CountKeeps DEF Acquire, Take
<1>4. ASSUME NEW x \in Session, PollAcquire(x) PROVE LockTypeOK' /\ CountsRight'
  BY <1>4, CountKeeps DEF PollAcquire, Take
<1>5. ASSUME NEW x \in Session, Block(x) PROVE LockTypeOK' /\ CountsRight'
  <2>1. AllServed' = AllServed /\ \A c \in Bucket : Served(c)' = Served(c)
    BY <1>5, ServedSame DEF Block
  <2> QED
    BY <1>5, <2>1 DEF LockTypeOK, CountsRight, Block
<1>6. ASSUME NEW x \in Session, PollTimeout(x) PROVE LockTypeOK' /\ CountsRight'
  <2>1. AllServed' = AllServed /\ \A c \in Bucket : Served(c)' = Served(c)
    BY <1>6, ServedSame DEF PollTimeout
  <2> QED
    BY <1>6, <2>1 DEF LockTypeOK, CountsRight, PollTimeout
<1>7. ASSUME NEW x \in Session, ServeEnds(x) PROVE LockTypeOK' /\ CountsRight'
  <2>1. AllServed' = AllServed /\ \A c \in Bucket : Served(c)' = Served(c)
    BY <1>7 DEF ServeEnds, LockTypeOK, AllServed, Served
  <2> QED
    BY <1>7, <2>1 DEF LockTypeOK, CountsRight, ServeEnds
<1>8. ASSUME NEW x \in Session, End(x) PROVE LockTypeOK' /\ CountsRight'
  BY <1>8, EndKeeps
<1>9. ASSUME NEW b \in Bucket, CollectorStep(b) PROVE LockTypeOK' /\ CountsRight'
  <2>1. UNCHANGED <<at, target, locks, sessions>>
    BY <1>9 DEF CollectorStep, GcStart, GcAcquire, GcTimeout, GcEnd
  <2>2. AllServed' = AllServed /\ \A c \in Bucket : Served(c)' = Served(c)
    BY <2>1, ServedUnchanged
  <2>3. LockTypeOK'
    BY <1>9 DEF CollectorStep, GcStart, GcAcquire, GcTimeout, GcEnd, LockTypeOK
  <2>4. \A c \in Bucket : /\ oslock'[c] = "proxy" <=> oslock[c] = "proxy"
                          /\ oslock'[c] = "collector" <=> gc'[c] = "running"
    BY <1>9 DEF CollectorStep, GcStart, GcAcquire, GcTimeout, GcEnd, LockTypeOK, CountsRight
  <2> QED
    BY <2>1, <2>2, <2>3, <2>4 DEF CountsRight
<1>10. CASE Signal \/ HandleSignal
  <2>1. AllServed' = AllServed /\ \A c \in Bucket : Served(c)' = Served(c)
    BY <1>10, ServedUnchanged DEF Signal, HandleSignal
  <2> QED
    BY <1>10, <2>1 DEF Signal, HandleSignal, Ignored, LockTypeOK, CountsRight
<1>11. CASE Exit
  BY <1>11, ExitKeeps
<1>12. CASE UNCHANGED sessionVars
  <2>1. AllServed' = AllServed /\ \A c \in Bucket : Served(c)' = Served(c)
    BY <1>12, ServedUnchanged
  <2> QED
    BY <1>12, <2>1 DEF LockTypeOK, CountsRight
<1> QED
  BY <1>1, <1>2, <1>3, <1>4, <1>5, <1>6, <1>7, <1>8, <1>9, <1>10, <1>11, <1>12
  DEF LockNext, SessionStep

(***************************************************************************)
(* The counts kept by beginDataStoreSession and endDataStoreSession, and   *)
(* the holder of each inter-process lock, are right in every state.        *)
(***************************************************************************)
THEOREM Counting == LockSpec => [](LockTypeOK /\ CountsRight)
<1>1. LockInit => LockTypeOK /\ CountsRight
  BY InitTypeOK, InitCounts
<1> QED
  BY <1>1, NextKeeps, PTL DEF LockSpec

\* Type correctness of the session lock: counters, holders and waiting sessions of
\* beginDataStoreSession, whatever the signals and the collectors do.
THEOREM TypeCorrect == LockSpec => []LockTypeOK
  BY Counting, PTL

-----------------------------------------------------------------------------
(* Refinement. *)

LEMMA InitPromise == LockInit => Abstract!Init
BY DEF LockInit, Abstract!Init, AllServed, Served

LEMMA CountEnters ==
  ASSUME LockTypeOK, NEW x \in Session, at[x] \in {"begin", "poll"}, Count(x),
         gc[target[x]] # "running"
  PROVE  Abstract!Enter(x, target[x])
BY CountServed DEF Abstract!Enter, Count, LockTypeOK

LEMMA NextPromise == LockTypeOK /\ CountsRight /\ [LockNext]_sessionVars => [Abstract!Next]_(Abstract!vars)
<1> SUFFICES ASSUME LockTypeOK, CountsRight, [LockNext]_sessionVars PROVE [Abstract!Next]_(Abstract!vars)
  OBVIOUS
<1> USE DEF sessionVars, lockVars, signalVars
<1> DEFINE Stutters == gc' = gc /\ \A b \in Bucket : Served(b)' = Served(b)
<1>1. ASSUME Stutters PROVE UNCHANGED Abstract!vars
  BY <1>1 DEF Abstract!vars
<1>2. ASSUME NEW x \in Session, NEW b \in Bucket, Connect(x, b) PROVE Stutters
  BY <1>2, ServedSame DEF Connect, LockTypeOK
<1>3. ASSUME NEW x \in Session, Share(x) \/ Acquire(x) \/ PollAcquire(x) PROVE Abstract!Next
  <2>1. at[x] \in {"begin", "poll"} /\ Count(x) /\ target[x] \in Bucket
    BY <1>3 DEF Share, Acquire, PollAcquire, Take, LockTypeOK
  <2>2. oslock[target[x]] = "free" \/ locks[target[x]] > 0
    BY <1>3 DEF Share, Acquire, PollAcquire, Take, HasEntry
  <2>3. gc[target[x]] # "running"
    BY <2>1, <2>2 DEF CountsRight
  <2> QED
    BY <2>1, <2>3, CountEnters DEF Abstract!Next
<1>4. ASSUME NEW x \in Session, Block(x) \/ PollTimeout(x) PROVE Stutters
  BY <1>4, ServedSame DEF Block, PollTimeout
<1>5. ASSUME NEW x \in Session, ServeEnds(x) PROVE Stutters
  BY <1>5 DEF ServeEnds, LockTypeOK, AllServed, Served
<1>6. ASSUME NEW x \in Session, End(x) PROVE Abstract!Next
  <2>1. target[x] \in Bucket /\ gc' = gc
    BY <1>6 DEF LockTypeOK, End
  <2>2. Abstract!Leave(x, target[x])
    BY <1>6, <2>1, EndServed DEF Abstract!Leave
  <2> QED
    BY <2>1, <2>2 DEF Abstract!Next
<1>7. ASSUME NEW b \in Bucket, GcStart(b) \/ GcTimeout(b) PROVE UNCHANGED Abstract!vars
  <2>1. \A c \in Bucket : Served(c)' = Served(c)
    BY <1>7, ServedUnchanged DEF GcStart, GcTimeout
  <2>2. \A c \in Bucket : gc'[c] = "running" <=> gc[c] = "running"
    BY <1>7 DEF GcStart, GcTimeout, LockTypeOK
  <2> QED
    BY <2>1, <2>2 DEF Abstract!vars
<1>8. ASSUME NEW b \in Bucket, GcAcquire(b) PROVE Abstract!Next
  <2>1. \A c \in Bucket : Served(c)' = Served(c)
    BY <1>8, ServedUnchanged DEF GcAcquire
  <2>2. \A c \in Bucket : gc'[c] = "running" <=> gc[c] = "running" \/ c = b
    BY <1>8 DEF GcAcquire, LockTypeOK
  <2>3. gc[b] # "running"
    BY <1>8 DEF GcAcquire
  <2>4. Served(b) = {}
    <3>1. ~(locks[b] > 0) /\ locks[b] \in Nat
      BY <1>8 DEF GcAcquire, CountsRight, LockTypeOK
    <3>2. Cardinality(Served(b)) = 0
      BY <3>1 DEF CountsRight
    <3> QED
      BY <3>2, ServedFinite, FS_EmptySet
  <2>5. Abstract!Collect(b)
    BY <2>1, <2>2, <2>3, <2>4 DEF Abstract!Collect
  <2> QED
    BY <2>5 DEF Abstract!Next
<1>9. ASSUME NEW b \in Bucket, GcEnd(b) PROVE Abstract!Next
  <2>1. \A c \in Bucket : Served(c)' = Served(c)
    BY <1>9, ServedUnchanged DEF GcEnd
  <2>2. \A c \in Bucket : gc'[c] = "running" <=> gc[c] = "running" /\ c # b
    BY <1>9 DEF GcEnd, LockTypeOK
  <2>3. Abstract!Release(b)
    BY <1>9, <2>1, <2>2 DEF Abstract!Release, GcEnd
  <2> QED
    BY <2>3 DEF Abstract!Next
<1>10. CASE Signal \/ HandleSignal
  <2>1. Stutters
    BY <1>10, ServedUnchanged DEF Signal, HandleSignal
  <2> QED
    BY <1>1, <2>1
<1>11. CASE Exit
  <2>1. \A b \in Bucket : Served(b)' = {}
    BY <1>11 DEF Exit, AllServed, Served
  <2>2. Abstract!LeaveAll
    BY <1>11, <2>1 DEF Abstract!LeaveAll, Exit
  <2> QED
    BY <2>2 DEF Abstract!Next
<1>12. CASE UNCHANGED sessionVars
  <2>1. Stutters
    BY <1>12, ServedUnchanged
  <2> QED
    BY <1>1, <2>1
<1> QED
  BY <1>1, <1>2, <1>3, <1>4, <1>5, <1>6, <1>7, <1>8, <1>9, <1>10, <1>11, <1>12
  DEF LockNext, SessionStep, CollectorStep

(***************************************************************************)
(* The reference-counted locks implement, for every bucket, the shared or  *)
(* exclusive lock DatastoreLock describes: what Datastore assumes when it  *)
(* lets a collector run only while no session is live, and conversely.     *)
(***************************************************************************)
THEOREM ImplementsLock == LockSpec => KeepsPromise
BY InitPromise, NextPromise, Counting, PTL DEF LockSpec, KeepsPromise, Abstract!Spec
=============================================================================
