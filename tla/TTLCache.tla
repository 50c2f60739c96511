------------------------------ MODULE TTLCache ------------------------------
(***************************************************************************)
(* ttlCache[T] of the proxy: goroutines that read, refresh and invalidate  *)
(* the entries of one cache.                                               *)
(*                                                                         *)
(* A value is the version of the upstream state it was computed from, and  *)
(* an upstream call is two steps, so that the state may change before it   *)
(* is read and before the answer arrives.  Get keeps the mutex of its      *)
(* entry during the call; GetAsync leaves the call to a background         *)
(* goroutine that takes the mutex only to store the answer.  The mutex of  *)
(* the table is kept across steps by InvalidatePrefix alone.               *)
(***************************************************************************)
EXTENDS Integers, FiniteSets

CONSTANTS
  Key,         \* keys of the cache
  Prefixed,    \* the ones InvalidatePrefix is called for
  Proc,        \* goroutines of request handlers
  Nobody,      \* holder of a free mutex
  Calls,       \* operations the handlers use on this cache
  MaxVersion,  \* bound: changes of the upstream state of a key
  MaxExplicit  \* bound: Store, Invalidate, InvalidatePrefix and Expire calls

AllCalls == {"get", "async", "peek", "store", "invalidate", "prefix", "expire"}
Explicit == {"store", "invalidate", "prefix", "expire"}

ASSUME KeysAssumption   == Key # {} /\ Prefixed \subseteq Key /\ Calls \subseteq AllCalls
ASSUME NobodyAssumption == Nobody \notin Proc
ASSUME BoundAssumption  == MaxVersion \in Nat /\ MaxExplicit \in Nat

VARIABLES
  version,     \* version[k]: upstream state
  value, valid, refreshing, gen,   \* fields of the entry of k
  fresh,       \* fresh[k]: time.Since(fetched) < ttl
  holder,      \* holder[k]: who holds the entry's mutex
  table,       \* who holds the table's mutex
  pc, call, key, got,  \* a handler: where it is, its call, the answer it holds
  todo,        \* todo[p]: entries InvalidatePrefix of p has still to visit
  bg,          \* bg[p]: the background refresh p has started
  explicit,    \* number of explicit operations so far
  floor        \* history: version established by the last explicit operation

entryVars == <<value, valid, fresh, refreshing, gen>>
procVars  == <<pc, call, key, got, todo>>
vars      == <<version, entryVars, holder, table, procVars, bg, explicit, floor>>

NoRefresh == [pc |-> "none", key |-> "", gen |-> 0, got |-> 0]
Refresh   == [pc : {"fetch", "fetched"}, key : Key, gen : Nat, got : 0 .. MaxVersion]

Hit(k)       == valid[k] /\ fresh[k]
EntryFree(k) == holder[k] = Nobody

\* Besides ranges: a mutex is held by a handler that is where it should hold it.
TypeOK ==
  /\ version \in [Key -> 0 .. MaxVersion]
  /\ value \in [Key -> 0 .. MaxVersion]
  /\ valid \in [Key -> BOOLEAN] /\ fresh \in [Key -> BOOLEAN]
  /\ refreshing \in [Key -> BOOLEAN]
  /\ gen \in [Key -> Nat]
  /\ holder \in [Key -> Proc \cup {Nobody}]
  /\ table \in Proc \cup {Nobody}
  /\ pc \in [Proc -> {"idle", "entry", "lock", "fetch", "fetched", "wait", "prefix"}]
  /\ call \in [Proc -> AllCalls] /\ key \in [Proc -> Key]
  /\ got \in [Proc -> 0 .. MaxVersion]
  /\ todo \in [Proc -> SUBSET Prefixed]
  /\ bg \in [Proc -> Refresh \cup {NoRefresh}]
  /\ explicit \in 0 .. MaxExplicit
  /\ floor \in [Key -> 0 .. MaxVersion]
  /\ \A k \in Key, p \in Proc : holder[k] = p <=> pc[p] \in {"fetch", "fetched"} /\ key[p] = k
  /\ \A p \in Proc : table = p <=> pc[p] = "prefix"

Init ==
  /\ version = [k \in Key |-> 0]
  /\ value = [k \in Key |-> 0]
  /\ valid = [k \in Key |-> FALSE] /\ fresh = [k \in Key |-> FALSE]
  /\ refreshing = [k \in Key |-> FALSE]
  /\ gen = [k \in Key |-> 0]
  /\ holder = [k \in Key |-> Nobody] /\ table = Nobody
  /\ pc = [p \in Proc |-> "idle"]
  /\ call = [p \in Proc |-> "peek"] /\ key = [p \in Proc |-> CHOOSE k \in Key : TRUE]
  /\ got = [p \in Proc |-> 0]
  /\ todo = [p \in Proc |-> {}]
  /\ bg = [p \in Proc |-> NoRefresh]
  /\ explicit = 0
  /\ floor = [k \in Key |-> 0]

-----------------------------------------------------------------------------
(* Upstream, and time. *)

Mutate(k) ==
  /\ version[k] < MaxVersion
  /\ version' = [version EXCEPT ![k] = @ + 1]
  /\ UNCHANGED <<entryVars, holder, table, procVars, bg, explicit, floor>>

\* The TTL of the entry elapses.
Age(k) ==
  /\ fresh[k]
  /\ fresh' = [fresh EXCEPT ![k] = FALSE]
  /\ UNCHANGED <<version, value, valid, refreshing, gen, holder, table, procVars, bg, explicit,
                 floor>>

-----------------------------------------------------------------------------
(* Calls. *)

\* A handler calls operation c on k.  The value of a Store has been obtained
\* before the call.
Call(p, c, k) ==
  /\ pc[p] = "idle"
  /\ c = "async" => bg[p] = NoRefresh
  /\ c \in Explicit => explicit < MaxExplicit
  /\ pc' = [pc EXCEPT ![p] = "entry"]
  /\ call' = [call EXCEPT ![p] = c]
  /\ key' = [key EXCEPT ![p] = k]
  /\ got' = [got EXCEPT ![p] = IF c = "store" THEN version[k] ELSE 0]
  /\ explicit' = IF c \in Explicit THEN explicit + 1 ELSE explicit
  /\ UNCHANGED <<version, entryVars, holder, table, todo, bg, floor>>

\* entry(key), or the first line of InvalidatePrefix.
Enter(p) ==
  /\ pc[p] = "entry" /\ table = Nobody
  /\ IF call[p] = "prefix"
       THEN /\ table' = p
            /\ pc' = [pc EXCEPT ![p] = "prefix"]
            /\ todo' = [todo EXCEPT ![p] = Prefixed]
       ELSE pc' = [pc EXCEPT ![p] = "lock"] /\ UNCHANGED <<table, todo>>
  /\ UNCHANGED <<version, entryVars, holder, call, key, got, bg, explicit, floor>>

\* p holds the entry's mutex, for the call c, within one step.
Locked(p, c) == pc[p] = "lock" /\ call[p] = c /\ EntryFree(key[p])

Return(p) ==
  /\ pc' = [pc EXCEPT ![p] = "idle"]
  /\ call' = [call EXCEPT ![p] = "peek"]
  /\ got' = [got EXCEPT ![p] = 0]

\* e.value = v; e.fetched = now; e.valid = true
Write(k, v) ==
  /\ value' = [value EXCEPT ![k] = v]
  /\ fresh' = [fresh EXCEPT ![k] = TRUE]
  /\ valid' = [valid EXCEPT ![k] = TRUE]

GetHit(p) ==
  /\ Locked(p, "get") /\ Hit(key[p])
  /\ Return(p)
  /\ UNCHANGED <<version, entryVars, holder, table, key, todo, bg, explicit, floor>>

GetMiss(p) ==
  /\ Locked(p, "get") /\ ~Hit(key[p])
  /\ holder' = [holder EXCEPT ![key[p]] = p]
  /\ pc' = [pc EXCEPT ![p] = "fetch"]
  /\ UNCHANGED <<version, entryVars, table, call, key, got, todo, bg, explicit, floor>>

\* Upstream computes an answer; whether it arrives, or an error, is seen next.
GetAnswer(p) ==
  /\ pc[p] = "fetch"
  /\ got' = [got EXCEPT ![p] = version[key[p]]]
  /\ pc' = [pc EXCEPT ![p] = "fetched"]
  /\ UNCHANGED <<version, entryVars, holder, table, call, key, todo, bg, explicit, floor>>

\* Mutant: a failed call forgets the mutex.
KeepMutex(p) == holder' = holder

Unlock(p) == holder' = [holder EXCEPT ![key[p]] = Nobody]

GetStore(p) ==
  /\ pc[p] = "fetched"
  /\ Write(key[p], got[p])
  /\ Unlock(p)
  /\ Return(p)
  /\ UNCHANGED <<version, refreshing, gen, table, key, todo, bg, explicit, floor>>

\* The upstream call fails: the last value is served, if it is valid.
GetServeStale(p) ==
  /\ pc[p] = "fetched" /\ valid[key[p]]
  /\ Unlock(p)
  /\ Return(p)
  /\ UNCHANGED <<version, entryVars, table, key, todo, bg, explicit, floor>>

\* Mutant: the caller is kept waiting until the upstream call succeeds.
RetryForever(p) ==
  /\ pc[p] = "fetched" /\ ~valid[key[p]]
  /\ pc' = [pc EXCEPT ![p] = "fetch"]
  /\ UNCHANGED <<version, entryVars, holder, table, call, key, got, todo, bg, explicit, floor>>

GetError(p) ==
  /\ pc[p] = "fetched" /\ ~valid[key[p]]
  /\ Unlock(p)
  /\ Return(p)
  /\ UNCHANGED <<version, entryVars, table, key, todo, bg, explicit, floor>>

\* Mutant: every GetAsync on an expired entry starts a refresh.
AlwaysRefresh(k) == TRUE

MayRefresh(k) == ~refreshing[k]

\* readDataStoreUsageForStatus: what GetAsync has, or a wait for the first value ever.
Known(p) ==
  IF valid[key[p]] THEN Return(p) ELSE pc' = [pc EXCEPT ![p] = "wait"] /\ UNCHANGED <<call, got>>

Async(p) ==
  LET k == key[p] IN
  /\ Locked(p, "async")
  /\ Known(p)
  /\ IF ~Hit(k) /\ MayRefresh(k)
       THEN /\ refreshing' = [refreshing EXCEPT ![k] = TRUE]
            /\ bg' = [bg EXCEPT ![p] = [pc |-> "fetch", key |-> k, gen |-> gen[k], got |-> 0]]
       ELSE UNCHANGED <<refreshing, bg>>
  /\ UNCHANGED <<version, value, valid, fresh, gen, holder, table, key, todo, explicit,
                 floor>>

\* waitForDataStoreUsage: a Peek every 10 ms, for at most 2 seconds.  A Peek that finds
\* nothing in time changes nothing.  The last one finds the value, or waits for the
\* mutexes past the deadline, which nobody looks at meanwhile.
WaitLastPeek(p) ==
  /\ pc[p] = "wait"
  /\ pc' = [pc EXCEPT ![p] = "entry"]
  /\ call' = [call EXCEPT ![p] = "peek"]
  /\ UNCHANGED <<version, entryVars, holder, table, key, got, todo, bg, explicit, floor>>

WaitTimeout(p) ==
  /\ pc[p] = "wait"
  /\ Return(p)
  /\ UNCHANGED <<version, entryVars, holder, table, key, todo, bg, explicit, floor>>

Peek(p) ==
  /\ Locked(p, "peek")
  /\ Return(p)
  /\ UNCHANGED <<version, entryVars, holder, table, key, todo, bg, explicit, floor>>

Store(p) ==
  LET k == key[p] IN
  /\ Locked(p, "store")
  /\ Write(k, got[p])
  /\ gen' = [gen EXCEPT ![k] = @ + 1]
  /\ floor' = [floor EXCEPT ![k] = got[p]]
  /\ Return(p)
  /\ UNCHANGED <<version, refreshing, holder, table, key, todo, bg, explicit>>

\* e.valid = false; e.generation++
Drop(k) ==
  /\ valid' = [valid EXCEPT ![k] = FALSE]
  /\ gen' = [gen EXCEPT ![k] = @ + 1]
  /\ floor' = [floor EXCEPT ![k] = version[k]]

Invalidate(p) ==
  /\ Locked(p, "invalidate")
  /\ Drop(key[p])
  /\ Return(p)
  /\ UNCHANGED <<version, value, fresh, refreshing, holder, table, key, todo, bg,
                 explicit>>

\* The value stays, for those who accept a stale one.
Expire(p) ==
  LET k == key[p] IN
  /\ Locked(p, "expire")
  /\ fresh' = [fresh EXCEPT ![k] = @ /\ ~valid[k]]
  /\ gen' = [gen EXCEPT ![k] = @ + 1]
  /\ floor' = [floor EXCEPT ![k] = version[k]]
  /\ Return(p)
  /\ UNCHANGED <<version, value, valid, refreshing, holder, table, key, todo, bg,
                 explicit>>

\* InvalidatePrefix visits the entries in any order, the table's mutex held.
PrefixStep(p, k) ==
  /\ pc[p] = "prefix" /\ k \in todo[p] /\ EntryFree(k)
  /\ Drop(k)
  /\ todo' = [todo EXCEPT ![p] = @ \ {k}]
  /\ UNCHANGED <<version, value, fresh, refreshing, holder, table, pc, call, key, got, bg,
                 explicit>>

PrefixDone(p) ==
  /\ pc[p] = "prefix" /\ todo[p] = {}
  /\ table' = Nobody
  /\ Return(p)
  /\ UNCHANGED <<version, entryVars, holder, key, todo, bg, explicit, floor>>

-----------------------------------------------------------------------------
(* The background goroutine of GetAsync. *)

BgAnswer(p) ==
  /\ bg[p].pc = "fetch"
  /\ bg' = [bg EXCEPT ![p] = [@ EXCEPT !.pc = "fetched", !.got = version[bg[p].key]]]
  /\ UNCHANGED <<version, entryVars, holder, table, procVars, explicit, floor>>

\* Mutants: the generation is not compared; an outdated refresh returns before
\* it clears the flag.
StillWanted(p)   == TRUE
FlagKept(p)      == refreshing' = IF gen[bg[p].key] = bg[p].gen
                                  THEN [refreshing EXCEPT ![bg[p].key] = FALSE] ELSE refreshing

Current(p)       == gen[bg[p].key] = bg[p].gen
ClearFlag(p)     == refreshing' = [refreshing EXCEPT ![bg[p].key] = FALSE]

\* The answer is stored, unless the entry was invalidated meanwhile.
BgStore(p) ==
  /\ bg[p].pc = "fetched" /\ EntryFree(bg[p].key)
  /\ ClearFlag(p)
  /\ IF Current(p) THEN Write(bg[p].key, bg[p].got) ELSE UNCHANGED <<value, fresh, valid>>
  /\ bg' = [bg EXCEPT ![p] = NoRefresh]
  /\ UNCHANGED <<version, gen, holder, table, procVars, explicit, floor>>

BgFail(p) ==
  /\ bg[p].pc = "fetched" /\ EntryFree(bg[p].key)
  /\ ClearFlag(p)
  /\ bg' = [bg EXCEPT ![p] = NoRefresh]
  /\ UNCHANGED <<version, value, valid, fresh, gen, holder, table, procVars, explicit, floor>>

-----------------------------------------------------------------------------
HandlerStep(p) ==
  \/ Enter(p)
  \/ GetHit(p) \/ GetMiss(p) \/ GetAnswer(p) \/ GetStore(p) \/ GetServeStale(p) \/ GetError(p)
  \/ Async(p) \/ WaitLastPeek(p) \/ WaitTimeout(p)
  \/ Peek(p) \/ Store(p) \/ Invalidate(p) \/ Expire(p)
  \/ (\E k \in Key : PrefixStep(p, k)) \/ PrefixDone(p)

BackgroundStep(p) == BgAnswer(p) \/ BgStore(p) \/ BgFail(p)

Next ==
  \/ \E k \in Key : Mutate(k) \/ Age(k)
  \/ \E p \in Proc :
       \/ \E c \in Calls, k \in Key : Call(p, c, k)
       \/ HandlerStep(p) \/ BackgroundStep(p)

\* Goroutines run, sync.Mutex starves no waiter, and the object store answers.
Progress == \A p \in Proc : SF_vars(HandlerStep(p)) /\ SF_vars(BackgroundStep(p))

\* Time passes, pvestatd keeps polling, and an object store that is asked again and
\* again succeeds again and again.
Polling ==
  /\ \A k \in Key : WF_vars(Age(k))
  /\ \A p \in Proc : SF_vars(\E k \in Key : Call(p, "async", k)) /\ SF_vars(BgStore(p))

Spec == Init /\ [][Next]_vars /\ Progress /\ Polling

-----------------------------------------------------------------------------
(* Properties. *)

\* What is served without an upstream call was read upstream after the last
\* invalidation of the key: no refresh, in the foreground or in the background,
\* brings back what an Invalidate, an Expire or a Store has replaced.
Cell == INSTANCE CacheCell
          WITH cell <- [k \in Key |-> IF Hit(k) THEN value[k] ELSE -1]
Promise == Cell!Spec

\* "Single flight": of all blocking Gets of a key at most one is upstream, and of
\* all background refreshes at most one, invalidations in between included.
SingleFlight ==
  \A k \in Key :
    /\ Cardinality({p \in Proc : pc[p] \in {"fetch", "fetched"} /\ key[p] = k}) <= 1
    /\ Cardinality({p \in Proc : bg[p] # NoRefresh /\ bg[p].key = k}) <= 1

\* Every call returns, although InvalidatePrefix waits for entries with the
\* table locked and Get waits for the object store with an entry locked.
AllAnswered == \A p \in Proc : pc[p] # "idle" ~> pc[p] = "idle"

\* When the upstream state no longer changes, the polled figure becomes current
\* and stays so: no outdated refresh is left that blocks or undoes the others.
Converges == <>[](\A k \in Key : valid[k] /\ value[k] = version[k])
=============================================================================
