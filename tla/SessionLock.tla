---------------------------- MODULE SessionLock ----------------------------
(***************************************************************************)
(* How the proxy and the collectors keep the promise of DatastoreLock.     *)
(*                                                                         *)
(* There is one inter-process lock per bucket (github.com/juju/mutex, a    *)
(* file lock the operating system frees when its holder exits).  The proxy *)
(* takes it for the first session on the bucket, counts the others, and    *)
(* gives it back with the last one; SessionLocks, the counts, is guarded   *)
(* by SessionsMutex, which beginDataStoreSession keeps while it polls for  *)
(* the lock, for at most 30 seconds.  A collector polls as long and gives  *)
(* up.  The signal handler asks for the number of sessions before it stops *)
(* the proxy, which is then started again.                                 *)
(*                                                                         *)
(* SessionsMutex is only ever held between two steps of this model by a    *)
(* session that polls, so it has no variable of its own.                   *)
(***************************************************************************)
EXTENDS Naturals, FiniteSets

CONSTANTS Session, Bucket

ASSUME SessionAssumption == IsFiniteSet(Session)

VARIABLES
  at,         \* at[x]: where the goroutine of session x is
  target,     \* target[x]: its bucket
  locks,      \* locks[b]: SessionLocks[b].count, 0 when there is no entry
  sessions,   \* Server.Sessions
  oslock,     \* oslock[b]: who holds the inter-process lock of b
  gc,         \* gc[b]: state of the collector of b
  signal,     \* the signal handler: a signal waits in its channel, or it exits
  signalcnt   \* signals ignored so far

lockVars   == <<at, target, locks, sessions>>
signalVars == <<signal, signalcnt>>
sessionVars == <<lockVars, oslock, gc, signalVars>>

LockTypeOK ==
  /\ at \in [Session -> {"idle", "begin", "poll", "serving", "ending"}]
  /\ target \in [Session -> Bucket]
  /\ locks \in [Bucket -> Nat]
  /\ sessions \in Nat
  /\ oslock \in [Bucket -> {"free", "proxy", "collector"}]
  /\ gc \in [Bucket -> {"off", "polling", "running"}]
  /\ signal \in {"none", "pending", "exit0", "exit1"}
  /\ signalcnt \in {0, 1}

LockInit ==
  /\ at = [x \in Session |-> "idle"]
  /\ target \in [Session -> Bucket]
  /\ locks = [b \in Bucket |-> 0]
  /\ sessions = 0
  /\ oslock = [b \in Bucket |-> "free"]
  /\ gc = [b \in Bucket |-> "off"]
  /\ signal = "none" /\ signalcnt = 0

-----------------------------------------------------------------------------
(* Sessions. *)

\* Mutants: one counter for all buckets; the lock goes with any session that ends.
GlobalEntry(b)   == sessions > 0
AnySessionEnd(b) == TRUE

\* A bucket has an entry in SessionLocks while its count is positive.
HasEntry(b)    == locks[b] > 0
LastSession(b) == locks[b] = 1

MutexFree == \A x \in Session : at[x] # "poll"

\* A backup or restore connection for bucket b is upgraded.
Connect(x, b) ==
  /\ at[x] = "idle"
  /\ at' = [at EXCEPT ![x] = "begin"]
  /\ target' = [target EXCEPT ![x] = b]
  /\ UNCHANGED <<locks, sessions, oslock, gc, signalVars>>

\* entry.count++ and Sessions++
Count(x) ==
  /\ at' = [at EXCEPT ![x] = "serving"]
  /\ locks' = [locks EXCEPT ![target[x]] = @ + 1]
  /\ sessions' = sessions + 1
  /\ UNCHANGED <<target, gc, signalVars>>

\* beginDataStoreSession when the bucket has an entry.
Share(x) ==
  /\ at[x] = "begin" /\ MutexFree
  /\ HasEntry(target[x])
  /\ Count(x)
  /\ UNCHANGED oslock

\* It has none: acquireProcessMutex succeeds, at once or while it polls ...
Take(x) ==
  /\ oslock[target[x]] = "free"
  /\ oslock' = [oslock EXCEPT ![target[x]] = "proxy"]
  /\ Count(x)

Acquire(x) ==
  /\ at[x] = "begin" /\ MutexFree
  /\ ~HasEntry(target[x])
  /\ Take(x)

PollAcquire(x) == at[x] = "poll" /\ Take(x)

\* ... or finds the lock taken, and polls with SessionsMutex locked ...
Block(x) ==
  /\ at[x] = "begin" /\ MutexFree
  /\ ~HasEntry(target[x])
  /\ oslock[target[x]] # "free"
  /\ at' = [at EXCEPT ![x] = "poll"]
  /\ UNCHANGED <<target, locks, sessions, oslock, gc, signalVars>>

\* Mutant: it polls for ever.
PollForever(x) == at[x] = "poll" /\ UNCHANGED sessionVars

\* ... until the 30 seconds are over: the connection is closed.
PollTimeout(x) ==
  /\ at[x] = "poll"
  /\ at' = [at EXCEPT ![x] = "idle"]
  /\ UNCHANGED <<target, locks, sessions, oslock, gc, signalVars>>

\* ServeConn returned and backup() has cleaned up.
ServeEnds(x) ==
  /\ at[x] = "serving"
  /\ at' = [at EXCEPT ![x] = "ending"]
  /\ UNCHANGED <<target, locks, sessions, oslock, gc, signalVars>>

\* endDataStoreSession.  Without an entry it only logs.
End(x) ==
  /\ at[x] = "ending" /\ MutexFree
  /\ at' = [at EXCEPT ![x] = "idle"]
  /\ IF HasEntry(target[x])
       THEN /\ locks' = [locks EXCEPT ![target[x]] = @ - 1]
            /\ sessions' = sessions - 1
            /\ oslock' = [oslock EXCEPT ![target[x]] = IF LastSession(target[x]) THEN "free" ELSE @]
       ELSE UNCHANGED <<locks, sessions, oslock>>
  /\ UNCHANGED <<target, gc, signalVars>>

-----------------------------------------------------------------------------
(* Collectors: one per bucket, started by a timer. *)

GcStart(b) ==
  /\ gc[b] = "off"
  /\ gc' = [gc EXCEPT ![b] = "polling"]
  /\ UNCHANGED <<lockVars, oslock, signalVars>>

GcAcquire(b) ==
  /\ gc[b] = "polling"
  /\ oslock[b] = "free"
  /\ gc' = [gc EXCEPT ![b] = "running"]
  /\ oslock' = [oslock EXCEPT ![b] = "collector"]
  /\ UNCHANGED <<lockVars, signalVars>>

GcTimeout(b) ==
  /\ gc[b] = "polling"
  /\ gc' = [gc EXCEPT ![b] = "off"]
  /\ UNCHANGED <<lockVars, oslock, signalVars>>

\* SessionsRelease.Release at the end of main, or the process ends before.
GcEnd(b) ==
  /\ gc[b] = "running"
  /\ gc' = [gc EXCEPT ![b] = "off"]
  /\ oslock' = [oslock EXCEPT ![b] = "free"]
  /\ UNCHANGED <<lockVars, signalVars>>

-----------------------------------------------------------------------------
(* The signal handler. *)

\* SIGINT or SIGTERM; the channel holds one.
Signal ==
  /\ signal = "none"
  /\ signal' = "pending"
  /\ UNCHANGED <<lockVars, oslock, gc, signalcnt>>

\* Mutant: every signal is ignored while there are sessions.
IgnoreAll == sessions > 0

\* Only the first signal is ignored.
Ignored == sessions > 0 /\ signalcnt < 1

\* handleSignal reads activeSessions under SessionsMutex, then acts on it.
HandleSignal ==
  /\ signal = "pending" /\ MutexFree
  /\ IF Ignored
       THEN signal' = "none" /\ signalcnt' = signalcnt + 1
       ELSE signal' = (IF sessions > 0 THEN "exit1" ELSE "exit0") /\ UNCHANGED signalcnt
  /\ UNCHANGED <<lockVars, oslock, gc>>

\* os.Exit: every goroutine is gone and so are the locks; the service manager
\* starts the proxy again.
Exit ==
  /\ signal \in {"exit0", "exit1"}
  /\ at' = [x \in Session |-> "idle"]
  /\ locks' = [b \in Bucket |-> 0]
  /\ sessions' = 0
  /\ oslock' = [b \in Bucket |-> IF oslock[b] = "proxy" THEN "free" ELSE oslock[b]]
  /\ signal' = "none" /\ signalcnt' = 0
  /\ UNCHANGED <<target, gc>>

-----------------------------------------------------------------------------
SessionStep(x) ==
  \/ \E b \in Bucket : Connect(x, b)
  \/ Share(x) \/ Acquire(x) \/ Block(x) \/ PollAcquire(x) \/ PollTimeout(x)
  \/ ServeEnds(x) \/ End(x)

CollectorStep(b) == GcStart(b) \/ GcAcquire(b) \/ GcTimeout(b) \/ GcEnd(b)

LockNext ==
  \/ \E x \in Session : SessionStep(x)
  \/ \E b \in Bucket : CollectorStep(b)
  \/ Signal \/ HandleSignal \/ Exit

LockSpec == LockInit /\ [][LockNext]_sessionVars

\* What the code and the Go runtime guarantee.  A goroutine that waits for
\* SessionsMutex gets it in the end, however often others do (sync.Mutex hands
\* over to a starving waiter); polling ends after 30 seconds.  Nothing obliges a
\* client to hang up or a collector to come to an end.
LockFairness ==
  /\ \A x \in Session : /\ SF_sessionVars(Share(x) \/ Acquire(x) \/ Block(x))
                        /\ SF_sessionVars(End(x))
                        /\ WF_sessionVars(PollTimeout(x))
  /\ \A b \in Bucket : WF_sessionVars(GcTimeout(b))
  /\ SF_sessionVars(HandleSignal) /\ WF_sessionVars(Exit)

LockFairSpec == LockSpec /\ LockFairness

-----------------------------------------------------------------------------
(* Properties. *)

AllServed == {x \in Session : at[x] \in {"serving", "ending"}}
Served(b) == {x \in AllServed : target[x] = b}

\* The counts are right through any interleaving of begin, timeout, end and exit:
\* the proxy has a bucket's lock exactly while it has a session there, so the lock
\* is never given back under a live session nor kept after the last one.
CountsRight ==
  /\ \A b \in Bucket : /\ locks[b] = Cardinality(Served(b))
                       /\ oslock[b] = "proxy" <=> locks[b] > 0
                       /\ oslock[b] = "collector" <=> gc[b] = "running"
  /\ sessions = Cardinality(AllServed)

\* For every bucket, sessions and a collector exclude each other: the promise
\* Datastore relies on.
Abstract == INSTANCE DatastoreLock WITH
              inside     <- [b \in Bucket |-> Served(b)],
              collecting <- {b \in Bucket : gc[b] = "running"}
KeepsPromise == Abstract!Spec

\* Whoever else holds or waits for SessionsMutex, on whichever bucket, a session
\* that asks for its lock is answered, one that ends gives its lock back, and a
\* signal is acted upon.
EveryoneServed ==
  /\ \A x \in Session : /\ at[x] = "begin" ~> at[x] \in {"serving", "idle"}
                        /\ at[x] = "ending" ~> at[x] = "idle"
  /\ signal = "pending" ~> signal # "pending"

\* "Being forced out while sessions are still running is a different matter, as it
\* aborts backups in flight, and keeps a failure status" (signal.go): an exit with
\* status 0 aborts no session.
CleanExitAbortsNothing == signal = "exit0" => sessions = 0
=============================================================================
