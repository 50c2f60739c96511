--------------------------- MODULE TTLCacheProofs ---------------------------
(***************************************************************************)
(* The cache keeps its promise for any number of keys and goroutines.  The *)
(* invariant says why an answer may still be stored: a fetch that holds    *)
(* the mutex of its entry cannot be overtaken by an invalidation, and a    *)
(* background refresh notices one by the generation.  Nobody waits for     *)
(* mutexes in a circle.                                                    *)
(***************************************************************************)
EXTENDS TTLCache, TLAPS, FiniteSetTheorems

Busy(p) == bg[p] # NoRefresh

FloorOK == \A k \in Key : floor[k] <= version[k]

HitOK == \A k \in Key : Hit(k) => floor[k] <= value[k] /\ value[k] <= version[k]

FetchOK ==
  \A p \in Proc : pc[p] = "fetched" =>
    floor[key[p]] <= got[p] /\ got[p] <= version[key[p]]

StoreOK == \A p \in Proc : call[p] = "store" => got[p] <= version[key[p]]

RefreshOK ==
  \A p \in Proc : Busy(p) =>
    /\ refreshing[bg[p].key] /\ bg[p].gen <= gen[bg[p].key]
    /\ bg[p].pc = "fetched" /\ bg[p].gen = gen[bg[p].key] =>
         floor[bg[p].key] <= bg[p].got /\ bg[p].got <= version[bg[p].key]

OneRefresh ==
  \A p, q \in Proc : Busy(p) /\ Busy(q) /\ bg[p].key = bg[q].key => p = q

CacheInv == FloorOK /\ HitOK /\ FetchOK /\ StoreOK /\ RefreshOK /\ OneRefresh

-----------------------------------------------------------------------------
(* Type correctness. *)

LEMMA InitTypeOK == Init => TypeOK
<1> SUFFICES ASSUME Init PROVE TypeOK
  OBVIOUS
<1>1. (CHOOSE k \in Key : TRUE) \in Key
  BY KeysAssumption
<1>2. 0 \in 0 .. MaxVersion /\ 0 \in 0 .. MaxExplicit
  BY BoundAssumption
<1>3. /\ version \in [Key -> 0 .. MaxVersion] /\ value \in [Key -> 0 .. MaxVersion]
      /\ floor \in [Key -> 0 .. MaxVersion] /\ got \in [Proc -> 0 .. MaxVersion]
      /\ explicit \in 0 .. MaxExplicit
  BY <1>2 DEF Init
<1>4. /\ pc \in [Proc -> {"idle", "entry", "lock", "fetch", "fetched", "wait", "prefix"}]
      /\ call \in [Proc -> AllCalls] /\ key \in [Proc -> Key]
      /\ todo \in [Proc -> SUBSET Prefixed]
      /\ bg \in [Proc -> Refresh \cup {NoRefresh}]
  BY <1>1 DEF Init, AllCalls
<1>5. \A k \in Key, p \in Proc : holder[k] = p <=> pc[p] \in {"fetch", "fetched"} /\ key[p] = k
  BY NobodyAssumption DEF Init
<1>6. \A p \in Proc : table = p <=> pc[p] = "prefix"
  BY NobodyAssumption DEF Init
<1> QED
  BY <1>3, <1>4, <1>5, <1>6 DEF Init, TypeOK

\* Upstream and time touch no goroutine.
LEMMA WorldTypes ==
  ASSUME TypeOK, NEW k \in Key, Mutate(k) \/ Age(k)
  PROVE  TypeOK'
<1>1. CASE Mutate(k)
  <2>1. version' \in [Key -> 0 .. MaxVersion]
    BY <1>1, BoundAssumption DEF TypeOK, Mutate
  <2> QED
    BY <1>1, <2>1 DEF TypeOK, Mutate, entryVars, procVars
<1>2. CASE Age(k)
  BY <1>2 DEF TypeOK, Age, procVars
<1> QED
  BY <1>1, <1>2

LEMMA CallTypes ==
  ASSUME TypeOK, NEW p \in Proc, NEW c \in Calls, NEW k \in Key, Call(p, c, k)
  PROVE  TypeOK'
<1>1. c \in AllCalls
  BY KeysAssumption
<1>2. got' \in [Proc -> 0 .. MaxVersion] /\ explicit' \in 0 .. MaxExplicit
  BY BoundAssumption DEF TypeOK, Call
<1>3. \A j \in Key : holder[j] # p
  BY DEF TypeOK, Call
<1>4. table # p
  BY DEF TypeOK, Call
<1> QED
  BY <1>1, <1>2, <1>3, <1>4 DEF TypeOK, Call, entryVars

LEMMA EnterTypes ==
  ASSUME TypeOK, NEW p \in Proc, Enter(p)
  PROVE  TypeOK'
<1>1. \A q \in Proc : pc[q] # "prefix"
  BY NobodyAssumption DEF TypeOK, Enter
<1>2. \A j \in Key : holder[j] # p
  BY DEF TypeOK, Enter
<1>3. CASE call[p] = "prefix"
  BY <1>1, <1>2, <1>3 DEF TypeOK, Enter, entryVars
<1>4. CASE call[p] # "prefix"
  BY <1>1, <1>2, <1>4 DEF TypeOK, Enter, entryVars
<1> QED
  BY <1>3, <1>4

\* A call that holds no mutex across steps, or none any more, returns.
LEMMA ReturnTypes ==
  ASSUME TypeOK, NEW p \in Proc, Return(p), UNCHANGED <<key, todo>>
  PROVE  /\ pc' \in [Proc -> {"idle", "entry", "lock", "fetch", "fetched", "wait", "prefix"}]
         /\ call' \in [Proc -> AllCalls] /\ key' \in [Proc -> Key]
         /\ got' \in [Proc -> 0 .. MaxVersion] /\ todo' \in [Proc -> SUBSET Prefixed]
         /\ pc'[p] = "idle" /\ \A q \in Proc \ {p} : pc'[q] = pc[q]
         /\ call'[p] = "peek" /\ \A q \in Proc \ {p} : call'[q] = call[q]
         /\ got'[p] = 0 /\ \A q \in Proc \ {p} : got'[q] = got[q]
  BY BoundAssumption DEF TypeOK, Return, AllCalls

\* Where p is at a step that holds no mutex, its return leaves the mutexes alone.
LEMMA IdleMutexes ==
  ASSUME TypeOK, NEW p \in Proc, Return(p), UNCHANGED <<key, todo, holder, table>>,
         pc[p] \in {"lock", "wait"}
  PROVE  /\ \A k \in Key, q \in Proc :
              holder'[k] = q <=> pc'[q] \in {"fetch", "fetched"} /\ key'[q] = k
         /\ \A q \in Proc : table' = q <=> pc'[q] = "prefix"
<1>1. pc'[p] = "idle" /\ \A q \in Proc \ {p} : pc'[q] = pc[q]
  BY ReturnTypes
<1> QED
  BY <1>1 DEF TypeOK

LEMMA GetLockedTypes ==
  ASSUME TypeOK, NEW p \in Proc, GetHit(p) \/ Peek(p) \/ WaitTimeout(p)
  PROVE  TypeOK'
<1>1. /\ pc[p] \in {"lock", "wait"} /\ Return(p)
      /\ UNCHANGED <<version, entryVars, holder, table, key, todo, bg, explicit, floor>>
  BY DEF GetHit, Peek, WaitTimeout, Locked
<1> QED
  BY <1>1, ReturnTypes, IdleMutexes DEF TypeOK, entryVars

LEMMA LastPeekTypes ==
  ASSUME TypeOK, NEW p \in Proc, WaitLastPeek(p)
  PROVE  TypeOK'
BY DEF TypeOK, WaitLastPeek, entryVars, AllCalls

LEMMA GetMissTypes ==
  ASSUME TypeOK, NEW p \in Proc, GetMiss(p)
  PROVE  TypeOK'
<1>1. /\ pc[p] = "lock" /\ holder[key[p]] = Nobody /\ key[p] \in Key
      /\ \A j \in Key : holder[j] # p
  BY DEF TypeOK, GetMiss, Locked, EntryFree
<1>2. \A q \in Proc : ~(pc[q] \in {"fetch", "fetched"} /\ key[q] = key[p])
  BY <1>1, NobodyAssumption DEF TypeOK
<1> QED
  BY <1>1, <1>2 DEF TypeOK, GetMiss, entryVars

LEMMA GetAnswerTypes ==
  ASSUME TypeOK, NEW p \in Proc, GetAnswer(p)
  PROVE  TypeOK'
  BY DEF TypeOK, GetAnswer, entryVars

\* The call comes back, with an answer or not.
LEMMA FetchingTypes ==
  ASSUME TypeOK, NEW p \in Proc, GetStore(p) \/ GetServeStale(p) \/ GetError(p)
  PROVE  TypeOK'
<1>1. /\ pc[p] = "fetched" /\ Unlock(p) /\ Return(p)
      /\ UNCHANGED <<version, refreshing, gen, table, key, todo, bg, explicit, floor>>
  BY DEF GetStore, GetServeStale, GetError, entryVars
<1>2. /\ value' \in [Key -> 0 .. MaxVersion] /\ valid' \in [Key -> BOOLEAN]
      /\ fresh' \in [Key -> BOOLEAN]
  <2>1. CASE GetStore(p)
    BY <2>1 DEF TypeOK, GetStore, Write
  <2>2. CASE GetServeStale(p) \/ GetError(p)
    BY <2>2 DEF TypeOK, GetServeStale, GetError, entryVars
  <2> QED
    BY <2>1, <2>2
<1>3. /\ holder' \in [Key -> Proc \cup {Nobody}]
      /\ \A k \in Key, q \in Proc :
           holder'[k] = q <=> pc'[q] \in {"fetch", "fetched"} /\ key'[q] = k
  <2>1. pc'[p] = "idle" /\ \A q \in Proc \ {p} : pc'[q] = pc[q]
    BY <1>1, ReturnTypes
  <2>2. /\ holder'[key[p]] = Nobody /\ \A k \in Key \ {key[p]} : holder'[k] = holder[k]
        /\ holder[key[p]] = p
    BY <1>1 DEF TypeOK, Unlock
  <2>3. holder' \in [Key -> Proc \cup {Nobody}]
    BY <1>1 DEF TypeOK, Unlock
  <2>4. ASSUME NEW k \in Key, NEW q \in Proc
        PROVE  holder'[k] = q <=> pc'[q] \in {"fetch", "fetched"} /\ key'[q] = k
    BY <1>1, <2>1, <2>2, NobodyAssumption DEF TypeOK
  <2> QED
    BY <2>3, <2>4
<1>4. \A q \in Proc : table' = q <=> pc'[q] = "prefix"
  BY <1>1, ReturnTypes DEF TypeOK
<1> QED
  BY <1>1, <1>2, <1>3, <1>4, ReturnTypes DEF TypeOK

LEMMA AsyncTypes ==
  ASSUME TypeOK, NEW p \in Proc, Async(p)
  PROVE  TypeOK'
<1>1. /\ pc[p] = "lock" /\ key[p] \in Key
      /\ UNCHANGED <<version, value, valid, fresh, gen, holder, table, key, todo, explicit, floor>>
  BY DEF TypeOK, Async, Locked
<1>2. refreshing' \in [Key -> BOOLEAN] /\ bg' \in [Proc -> Refresh \cup {NoRefresh}]
  <2>1. gen[key[p]] \in Nat /\ 0 \in 0 .. MaxVersion
    BY <1>1, BoundAssumption DEF TypeOK
  <2>2. [pc |-> "fetch", key |-> key[p], gen |-> gen[key[p]], got |-> 0] \in Refresh
    BY <1>1, <2>1 DEF Refresh
  <2>3. CASE ~Hit(key[p]) /\ MayRefresh(key[p])
    <3>1. /\ refreshing' = [refreshing EXCEPT ![key[p]] = TRUE]
          /\ bg' = [bg EXCEPT ![p] = [pc |-> "fetch", key |-> key[p], gen |-> gen[key[p]],
                                      got |-> 0]]
      BY <2>3 DEF Async
    <3> QED
      BY <2>2, <3>1 DEF TypeOK
  <2>4. CASE ~(~Hit(key[p]) /\ MayRefresh(key[p]))
    BY <2>4 DEF TypeOK, Async
  <2> QED
    BY <2>3, <2>4
<1>3. CASE valid[key[p]]
  <2>1. Return(p)
    BY <1>3 DEF Async, Known
  <2> QED
    BY <1>1, <1>2, <2>1, ReturnTypes, IdleMutexes DEF TypeOK
<1>4. CASE ~valid[key[p]]
  <2>1. pc' = [pc EXCEPT ![p] = "wait"] /\ UNCHANGED <<call, got>>
    BY <1>4 DEF Async, Known
  <2> QED
    BY <1>1, <1>2, <2>1 DEF TypeOK
<1> QED
  BY <1>3, <1>4

LEMMA ExplicitTypes ==
  ASSUME TypeOK, NEW p \in Proc, Store(p) \/ Invalidate(p) \/ Expire(p)
  PROVE  TypeOK'
<1>1. /\ pc[p] = "lock" /\ key[p] \in Key /\ Return(p)
      /\ UNCHANGED <<version, refreshing, holder, table, key, todo, bg, explicit>>
  BY DEF TypeOK, Store, Invalidate, Expire, Locked
<1>2. /\ value' \in [Key -> 0 .. MaxVersion] /\ valid' \in [Key -> BOOLEAN]
      /\ fresh' \in [Key -> BOOLEAN] /\ gen' \in [Key -> Nat]
      /\ floor' \in [Key -> 0 .. MaxVersion]
  <2>1. CASE Store(p)
    BY <1>1, <2>1 DEF TypeOK, Store, Write
  <2>2. CASE Invalidate(p)
    BY <1>1, <2>2 DEF TypeOK, Invalidate, Drop
  <2>3. CASE Expire(p)
    BY <1>1, <2>3 DEF TypeOK, Expire
  <2> QED
    BY <2>1, <2>2, <2>3
<1> QED
  BY <1>1, <1>2, ReturnTypes, IdleMutexes DEF TypeOK

LEMMA PrefixTypes ==
  ASSUME TypeOK, NEW p \in Proc, (\E k \in Key : PrefixStep(p, k)) \/ PrefixDone(p)
  PROVE  TypeOK'
<1>1. CASE \E k \in Key : PrefixStep(p, k)
  BY <1>1 DEF TypeOK, PrefixStep, Drop
<1>2. CASE PrefixDone(p)
  <2>1. /\ pc[p] = "prefix" /\ table = p /\ table' = Nobody /\ Return(p)
        /\ UNCHANGED <<version, entryVars, holder, key, todo, bg, explicit, floor>>
    BY <1>2 DEF TypeOK, PrefixDone
  <2>2. pc'[p] = "idle" /\ \A q \in Proc \ {p} : pc'[q] = pc[q]
    BY <2>1, ReturnTypes
  <2>3. \A q \in Proc : table' = q <=> pc'[q] = "prefix"
    BY <2>1, <2>2, NobodyAssumption DEF TypeOK
  <2>4. \A k \in Key, q \in Proc :
          holder'[k] = q <=> pc'[q] \in {"fetch", "fetched"} /\ key'[q] = k
    BY <2>1, <2>2 DEF TypeOK
  <2> QED
    BY <2>1, <2>3, <2>4, ReturnTypes DEF TypeOK, entryVars
<1> QED
  BY <1>1, <1>2

LEMMA BackgroundTypes ==
  ASSUME TypeOK, NEW p \in Proc, BackgroundStep(p)
  PROVE  TypeOK'
<1>1. bg[p] \in Refresh
  <2>1. bg[p].pc \in {"fetch", "fetched"}
    BY DEF BackgroundStep, BgAnswer, BgStore, BgFail
  <2>2. bg[p] \in Refresh \/ bg[p] = NoRefresh
    BY DEF TypeOK
  <2>3. NoRefresh.pc = "none"
    BY DEF NoRefresh
  <2> QED
    BY <2>1, <2>2, <2>3
<1>2. bg[p].key \in Key /\ bg[p].gen \in Nat /\ bg[p].got \in 0 .. MaxVersion
  BY <1>1 DEF Refresh
<1>3. UNCHANGED <<version, gen, holder, table, procVars, explicit, floor>>
  BY DEF BackgroundStep, BgAnswer, BgStore, BgFail, entryVars
<1>4. bg' \in [Proc -> Refresh \cup {NoRefresh}]
  <2>1. CASE BgAnswer(p)
    <3>1. version[bg[p].key] \in 0 .. MaxVersion
      BY <1>2 DEF TypeOK
    <3>2. [bg[p] EXCEPT !.pc = "fetched", !.got = version[bg[p].key]] \in Refresh
      BY <1>1, <3>1 DEF Refresh
    <3> QED
      BY <2>1, <3>2 DEF TypeOK, BgAnswer
  <2>2. CASE BgStore(p) \/ BgFail(p)
    BY <2>2 DEF TypeOK, BgStore, BgFail
  <2> QED
    BY <2>1, <2>2 DEF BackgroundStep
<1>5. /\ value' \in [Key -> 0 .. MaxVersion] /\ valid' \in [Key -> BOOLEAN]
      /\ fresh' \in [Key -> BOOLEAN] /\ refreshing' \in [Key -> BOOLEAN]
  <2>1. CASE BgAnswer(p)
    BY <2>1 DEF TypeOK, BgAnswer, entryVars
  <2>2. CASE BgStore(p) /\ Current(p)
    <3>1. Write(bg[p].key, bg[p].got) /\ ClearFlag(p)
      BY <2>2 DEF BgStore
    <3> QED
      BY <1>2, <3>1 DEF TypeOK, Write, ClearFlag
  <2>3. CASE BgStore(p) /\ ~Current(p)
    BY <1>2, <2>3 DEF TypeOK, BgStore, ClearFlag
  <2>4. CASE BgFail(p)
    BY <1>2, <2>4 DEF TypeOK, BgFail, ClearFlag
  <2> QED
    BY <2>1, <2>2, <2>3, <2>4 DEF BackgroundStep
<1> QED
  BY <1>3, <1>4, <1>5 DEF TypeOK, procVars

LEMMA NextTypes ==
  ASSUME TypeOK, [Next]_vars
  PROVE  TypeOK'
<1>1. ASSUME NEW k \in Key, Mutate(k) \/ Age(k) PROVE TypeOK'
  BY <1>1, WorldTypes
<1>2. ASSUME NEW p \in Proc, NEW c \in Calls, NEW k \in Key, Call(p, c, k) PROVE TypeOK'
  BY <1>2, CallTypes
<1>3. ASSUME NEW p \in Proc, HandlerStep(p) PROVE TypeOK'
  BY <1>3, EnterTypes, GetLockedTypes, LastPeekTypes, GetMissTypes, GetAnswerTypes,
     FetchingTypes, AsyncTypes, ExplicitTypes, PrefixTypes DEF HandlerStep
<1>4. ASSUME NEW p \in Proc, BackgroundStep(p) PROVE TypeOK'
  BY <1>4, BackgroundTypes
<1>5. CASE UNCHANGED vars
  BY <1>5 DEF TypeOK, vars, entryVars, procVars
<1> QED
  BY <1>1, <1>2, <1>3, <1>4, <1>5 DEF Next

\* Type correctness of the cache, mutexes included: an entry is locked exactly by the
\* Get that is upstream for it, the table exactly by InvalidatePrefix.
THEOREM TypeCorrect == Spec => []TypeOK
BY InitTypeOK, NextTypes, PTL DEF Spec

-----------------------------------------------------------------------------
(* The invariant. *)

EntryInv   == FloorOK /\ HitOK /\ RefreshOK /\ OneRefresh
HandlerInv == FetchOK /\ StoreOK

LEMMA InitCacheInv == Init => CacheInv
<1> SUFFICES ASSUME Init PROVE CacheInv
  OBVIOUS
<1>1. FloorOK /\ HitOK
  BY DEF Init, FloorOK, HitOK, Hit
<1>2. FetchOK /\ StoreOK
  BY DEF Init, FetchOK, StoreOK
<1>3. RefreshOK /\ OneRefresh
  BY DEF Init, RefreshOK, OneRefresh, Busy
<1> QED
  BY <1>1, <1>2, <1>3 DEF CacheInv

LEMMA BusyRefresh ==
  ASSUME TypeOK, NEW p \in Proc, Busy(p)
  PROVE  /\ bg[p] \in Refresh /\ bg[p].key \in Key /\ bg[p].gen \in Nat
         /\ bg[p].got \in 0 .. MaxVersion
<1>1. bg[p] \in Refresh
  BY DEF TypeOK, Busy
<1> QED
  BY <1>1 DEF Refresh

LEMMA RefreshBusy ==
  ASSUME NEW p \in Proc, bg[p].pc \in {"fetch", "fetched"}
  PROVE  Busy(p)
<1>1. NoRefresh.pc = "none"
  BY DEF NoRefresh
<1> QED
  BY <1>1 DEF Busy

\* A value that was above the floor and is not from the future stays so when
\* upstream moves on.
LEMMA MutateInv ==
  ASSUME TypeOK, CacheInv, NEW k \in Key, Mutate(k)
  PROVE  CacheInv'
<1>1. \A j \in Key : version[j] \in Nat /\ version'[j] \in Nat /\ version[j] <= version'[j]
  BY BoundAssumption DEF TypeOK, Mutate
<1>2. UNCHANGED <<value, valid, fresh, refreshing, gen, holder, pc, call, key, got, bg, floor>>
  BY DEF Mutate, entryVars, procVars
<1>3. \A j \in Key : floor[j] \in Int /\ value[j] \in Int
  BY BoundAssumption DEF TypeOK
<1>4. FloorOK' /\ HitOK'
  BY <1>1, <1>2, <1>3 DEF CacheInv, FloorOK, HitOK, Hit
<1>5. FetchOK' /\ StoreOK'
  <2>1. \A p \in Proc : got[p] \in Int /\ key[p] \in Key
    BY BoundAssumption DEF TypeOK
  <2> QED
    BY <1>1, <1>2, <1>3, <2>1 DEF CacheInv, FetchOK, StoreOK
<1>6. RefreshOK' /\ OneRefresh'
  <2>1. ASSUME NEW p \in Proc, Busy(p), bg[p].got <= version[bg[p].key]
        PROVE  bg[p].got <= version'[bg[p].key]
    BY <1>1, <2>1, BusyRefresh, BoundAssumption
  <2> QED
    BY <1>2, <2>1 DEF CacheInv, RefreshOK, OneRefresh, Busy
<1> QED
  BY <1>4, <1>5, <1>6 DEF CacheInv

LEMMA AgeInv ==
  ASSUME TypeOK, CacheInv, NEW k \in Key, Age(k)
  PROVE  CacheInv'
<1>1. UNCHANGED <<version, value, valid, refreshing, gen, pc, call, key, got, bg, floor>>
  BY DEF Age, procVars
<1>2. \A j \in Key : Hit(j)' => Hit(j)
  BY DEF TypeOK, Age, Hit
<1> QED
  BY <1>1, <1>2 DEF CacheInv, FloorOK, HitOK, FetchOK, StoreOK, RefreshOK, OneRefresh, Busy

\* A step of a handler that touches no entry, no refresh and nothing upstream.
LEMMA EntriesAlone ==
  ASSUME EntryInv, UNCHANGED <<version, entryVars, bg, floor>>
  PROVE  EntryInv'
BY DEF EntryInv, FloorOK, HitOK, RefreshOK, OneRefresh, Busy, Hit, entryVars

\* A handler that returns holds no answer.
LEMMA ReturnInv ==
  ASSUME TypeOK, HandlerInv, NEW p \in Proc, Return(p), UNCHANGED <<version, key>>,
         \A q \in Proc : pc[q] = "fetched" /\ q # p => floor'[key[q]] = floor[key[q]]
  PROVE  HandlerInv'
<1>1. /\ pc'[p] = "idle" /\ call'[p] = "peek"
      /\ \A q \in Proc \ {p} : pc'[q] = pc[q] /\ call'[q] = call[q] /\ got'[q] = got[q]
  BY DEF TypeOK, Return
<1> QED
  BY <1>1 DEF HandlerInv, FetchOK, StoreOK

LEMMA CallInv ==
  ASSUME TypeOK, CacheInv, NEW p \in Proc, NEW c \in Calls, NEW k \in Key, Call(p, c, k)
  PROVE  CacheInv'
<1>1. EntryInv'
  BY EntriesAlone DEF CacheInv, EntryInv, Call
<1>2. /\ UNCHANGED <<version, floor>> /\ pc'[p] = "entry" /\ call'[p] = c /\ key'[p] = k
      /\ got'[p] = IF c = "store" THEN version[k] ELSE 0
      /\ \A q \in Proc \ {p} : /\ pc'[q] = pc[q] /\ call'[q] = call[q] /\ key'[q] = key[q]
                               /\ got'[q] = got[q]
  BY DEF TypeOK, Call
<1>3. version[k] <= version[k]
  BY BoundAssumption DEF TypeOK
<1>4. FetchOK' /\ StoreOK'
  BY <1>2, <1>3 DEF CacheInv, FetchOK, StoreOK
<1> QED
  BY <1>1, <1>4 DEF CacheInv, EntryInv

LEMMA EnterInv ==
  ASSUME TypeOK, CacheInv, NEW p \in Proc, Enter(p) \/ GetMiss(p)
  PROVE  CacheInv'
<1>1. EntryInv'
  BY EntriesAlone DEF CacheInv, EntryInv, Enter, GetMiss
<1>2. /\ UNCHANGED <<version, floor, call, key, got>> /\ pc'[p] # "fetched"
      /\ \A q \in Proc \ {p} : pc'[q] = pc[q]
  BY DEF TypeOK, Enter, GetMiss
<1>3. FetchOK' /\ StoreOK'
  BY <1>2 DEF CacheInv, FetchOK, StoreOK
<1> QED
  BY <1>1, <1>3 DEF CacheInv, EntryInv

LEMMA LastPeekInv ==
  ASSUME TypeOK, CacheInv, NEW p \in Proc, WaitLastPeek(p)
  PROVE  CacheInv'
<1>1. EntryInv'
  BY EntriesAlone DEF CacheInv, EntryInv, WaitLastPeek
<1>2. /\ UNCHANGED <<version, floor, key, got>> /\ pc'[p] = "entry" /\ call'[p] = "peek"
      /\ \A q \in Proc \ {p} : pc'[q] = pc[q] /\ call'[q] = call[q]
  BY DEF TypeOK, WaitLastPeek
<1>3. FetchOK' /\ StoreOK'
  BY <1>2 DEF CacheInv, FetchOK, StoreOK
<1> QED
  BY <1>1, <1>3 DEF CacheInv, EntryInv

LEMMA QuietInv ==
  ASSUME TypeOK, CacheInv, NEW p \in Proc,
         \/ GetHit(p) \/ Peek(p) \/ WaitTimeout(p) \/ PrefixDone(p)
         \/ GetServeStale(p) \/ GetError(p)
  PROVE  CacheInv'
<1>1. Return(p) /\ UNCHANGED <<version, entryVars, key, bg, floor>>
  BY DEF GetHit, Peek, WaitTimeout, PrefixDone, GetServeStale, GetError
<1> QED
  BY <1>1, EntriesAlone, ReturnInv DEF CacheInv, EntryInv, HandlerInv

LEMMA GetAnswerInv ==
  ASSUME TypeOK, CacheInv, NEW p \in Proc, GetAnswer(p)
  PROVE  CacheInv'
<1>1. EntryInv'
  BY EntriesAlone DEF CacheInv, EntryInv, GetAnswer
<1>2. /\ UNCHANGED <<version, floor, call, key>> /\ got'[p] = version[key[p]]
      /\ \A q \in Proc \ {p} : pc'[q] = pc[q] /\ got'[q] = got[q]
  BY DEF TypeOK, GetAnswer
<1>3. floor[key[p]] <= version[key[p]] /\ version[key[p]] <= version[key[p]]
  BY BoundAssumption DEF TypeOK, CacheInv, FloorOK
<1>4. FetchOK' /\ StoreOK'
  BY <1>2, <1>3 DEF CacheInv, FetchOK, StoreOK
<1> QED
  BY <1>1, <1>4 DEF CacheInv, EntryInv

\* An answer is stored that is not older than the floor: by a Get, or by a refresh
\* whose generation is still the one of the entry.
LEMMA WriteInv ==
  ASSUME TypeOK, EntryInv, NEW k \in Key, NEW v \in 0 .. MaxVersion, Write(k, v),
         floor[k] <= v, v <= version[k], UNCHANGED <<version, floor>>
  PROVE  FloorOK' /\ HitOK'
<1>1. value'[k] = v /\ \A j \in Key \ {k} : value'[j] = value[j] /\ (Hit(j)' => Hit(j))
  BY DEF TypeOK, Write, Hit
<1> QED
  BY <1>1 DEF EntryInv, FloorOK, HitOK

LEMMA GetStoreInv ==
  ASSUME TypeOK, CacheInv, NEW p \in Proc, GetStore(p)
  PROVE  CacheInv'
<1>1. /\ pc[p] = "fetched" /\ Write(key[p], got[p]) /\ Return(p)
      /\ UNCHANGED <<version, refreshing, gen, key, bg, floor>>
  BY DEF GetStore
<1>2. /\ key[p] \in Key /\ got[p] \in 0 .. MaxVersion
      /\ floor[key[p]] <= got[p] /\ got[p] <= version[key[p]]
  BY <1>1 DEF TypeOK, CacheInv, FetchOK
<1>3. FloorOK' /\ HitOK'
  BY <1>1, <1>2, WriteInv DEF CacheInv, EntryInv
<1>4. RefreshOK' /\ OneRefresh'
  BY <1>1 DEF CacheInv, RefreshOK, OneRefresh, Busy
<1>5. HandlerInv'
  BY <1>1, ReturnInv DEF CacheInv, HandlerInv
<1> QED
  BY <1>3, <1>4, <1>5 DEF CacheInv, HandlerInv

\* GetAsync starts a refresh only if none is under way; it knows the generation.
LEMMA AsyncInv ==
  ASSUME TypeOK, CacheInv, NEW p \in Proc, Async(p)
  PROVE  CacheInv'
<1> DEFINE k == key[p]
<1>1. /\ k \in Key /\ pc[p] = "lock"
      /\ UNCHANGED <<version, value, valid, fresh, gen, key, floor>>
  BY DEF TypeOK, Async, Locked
<1>2. FloorOK' /\ HitOK'
  BY <1>1 DEF CacheInv, FloorOK, HitOK, Hit
<1>3. HandlerInv'
  <2>1. CASE valid[k]
    <3>1. Return(p)
      BY <2>1 DEF Async, Known
    <3> QED
      BY <1>1, <3>1, ReturnInv DEF CacheInv, HandlerInv
  <2>2. CASE ~valid[k]
    <3>1. /\ UNCHANGED <<call, got>> /\ pc'[p] = "wait"
          /\ \A q \in Proc \ {p} : pc'[q] = pc[q]
      BY <2>2 DEF TypeOK, Async, Known
    <3> QED
      BY <1>1, <3>1 DEF CacheInv, HandlerInv, FetchOK, StoreOK
  <2> QED
    BY <2>1, <2>2
<1>4. RefreshOK' /\ OneRefresh'
  <2>1. CASE ~Hit(k) /\ MayRefresh(k)
    <3>1. /\ refreshing' = [refreshing EXCEPT ![k] = TRUE]
          /\ bg' = [bg EXCEPT ![p] = [pc |-> "fetch", key |-> k, gen |-> gen[k], got |-> 0]]
      BY <2>1 DEF Async
    <3>2. \A q \in Proc : Busy(q) => bg[q].key # k
      BY <2>1 DEF CacheInv, RefreshOK, MayRefresh
    <3>3. /\ bg'[p].pc = "fetch" /\ bg'[p].key = k /\ bg'[p].gen = gen[k]
          /\ \A q \in Proc \ {p} : bg'[q] = bg[q]
      BY <3>1 DEF TypeOK
    <3>4. refreshing'[k] /\ \A j \in Key : refreshing[j] => refreshing'[j]
      BY <1>1, <3>1 DEF TypeOK
    <3>5. gen[k] <= gen[k]
      BY <1>1 DEF TypeOK
    <3>6. ASSUME NEW q \in Proc, q # p, Busy(q)'
          PROVE  /\ Busy(q) /\ bg'[q] = bg[q] /\ bg[q].key # k /\ refreshing'[bg[q].key]
      BY <3>2, <3>3, <3>4, <3>6, BusyRefresh DEF CacheInv, RefreshOK, Busy
    <3>7. RefreshOK'
      BY <1>1, <3>3, <3>4, <3>5, <3>6 DEF CacheInv, RefreshOK
    <3>8. OneRefresh'
      BY <3>3, <3>6 DEF CacheInv, OneRefresh
    <3> QED
      BY <3>7, <3>8
  <2>2. CASE ~(~Hit(k) /\ MayRefresh(k))
    <3>1. UNCHANGED <<refreshing, bg>>
      BY <2>2 DEF Async
    <3> QED
      BY <1>1, <3>1 DEF CacheInv, RefreshOK, OneRefresh, Busy
  <2> QED
    BY <2>1, <2>2
<1> QED
  BY <1>2, <1>3, <1>4 DEF CacheInv, HandlerInv

\* Store, Invalidate and Expire: the floor of k becomes v, and the generation of k
\* moves on, so that no refresh that is under way is taken for a current one.
LEMMA EstablishInv ==
  ASSUME TypeOK, EntryInv, NEW k \in Key, NEW v \in 0 .. MaxVersion, v <= version[k],
         gen' = [gen EXCEPT ![k] = @ + 1], floor' = [floor EXCEPT ![k] = v],
         UNCHANGED <<version, refreshing, bg>>,
         \A j \in Key \ {k} : value'[j] = value[j] /\ (Hit(j)' => Hit(j)),
         Hit(k)' => value'[k] = v
  PROVE  EntryInv'
<1>1. /\ floor'[k] = v /\ gen'[k] = gen[k] + 1 /\ gen[k] \in Nat
      /\ \A j \in Key \ {k} : floor'[j] = floor[j] /\ gen'[j] = gen[j]
  BY DEF TypeOK
<1>2. v <= v
  BY BoundAssumption
<1>3. FloorOK' /\ HitOK'
  BY <1>1, <1>2 DEF EntryInv, FloorOK, HitOK
<1>4. RefreshOK'
  <2> SUFFICES ASSUME NEW p \in Proc, Busy(p)
               PROVE  /\ refreshing[bg[p].key] /\ bg[p].gen <= gen'[bg[p].key]
                      /\ bg[p].pc = "fetched" /\ bg[p].gen = gen'[bg[p].key] =>
                           /\ floor'[bg[p].key] <= bg[p].got
                           /\ bg[p].got <= version[bg[p].key]
    BY DEF RefreshOK, Busy
  <2>1. bg[p].key \in Key /\ bg[p].gen \in Nat
    BY BusyRefresh
  <2>2. CASE bg[p].key = k
    BY <1>1, <2>1, <2>2 DEF EntryInv, RefreshOK
  <2>3. CASE bg[p].key # k
    BY <1>1, <2>1, <2>3 DEF EntryInv, RefreshOK
  <2> QED
    BY <2>2, <2>3
<1>5. OneRefresh'
  BY DEF EntryInv, OneRefresh, Busy
<1> QED
  BY <1>3, <1>4, <1>5 DEF EntryInv

\* Nobody is upstream for an entry whose mutex is free.
LEMMA FreeEntry ==
  ASSUME TypeOK, NEW k \in Key, EntryFree(k), NEW q \in Proc, pc[q] = "fetched"
  PROVE  key[q] # k
BY NobodyAssumption DEF TypeOK, EntryFree

LEMMA ExplicitInv ==
  ASSUME TypeOK, CacheInv, NEW p \in Proc, Store(p) \/ Invalidate(p) \/ Expire(p)
  PROVE  CacheInv'
<1> DEFINE k == key[p]
<1>1. /\ k \in Key /\ EntryFree(k) /\ Return(p)
      /\ gen' = [gen EXCEPT ![k] = @ + 1]
      /\ UNCHANGED <<version, refreshing, key, bg>>
  BY DEF TypeOK, Store, Invalidate, Expire, Locked, Drop
<1>2. /\ version[k] \in 0 .. MaxVersion /\ version[k] <= version[k] /\ got[p] \in 0 .. MaxVersion
  BY <1>1, BoundAssumption DEF TypeOK
<1>3. EntryInv' /\ \A j \in Key \ {k} : floor'[j] = floor[j]
  <2>1. CASE Store(p)
    <3>1. got[p] <= version[k]
      BY <2>1 DEF CacheInv, StoreOK, Store, Locked
    <3>2. Write(k, got[p]) /\ floor' = [floor EXCEPT ![k] = got[p]]
      BY <2>1 DEF Store
    <3>3. \A j \in Key \ {k} : value'[j] = value[j] /\ (Hit(j)' => Hit(j))
      BY <3>2 DEF TypeOK, Write, Hit
    <3>4. value'[k] = got[p]
      BY <1>1, <3>2 DEF TypeOK, Write
    <3>5. EntryInv'
      BY <1>1, <1>2, <3>1, <3>2, <3>3, <3>4, EstablishInv DEF CacheInv, EntryInv
    <3> QED
      BY <3>2, <3>5 DEF TypeOK
  <2>2. CASE Invalidate(p) \/ Expire(p)
    <3>1. UNCHANGED value /\ floor' = [floor EXCEPT ![k] = version[k]]
      BY <2>2 DEF Invalidate, Expire, Drop
    <3>2. ~Hit(k)' /\ \A j \in Key \ {k} : Hit(j)' => Hit(j)
      <4>1. CASE Invalidate(p)
        BY <1>1, <4>1 DEF TypeOK, Invalidate, Drop, Hit
      <4>2. CASE Expire(p)
        <5>1. fresh' = [fresh EXCEPT ![k] = fresh[k] /\ ~valid[k]] /\ UNCHANGED valid
          BY <4>2 DEF Expire
        <5>2. DOMAIN fresh = Key
          BY DEF TypeOK
        <5>3. fresh'[k] <=> fresh[k] /\ ~valid[k]
          BY <1>1, <5>1, <5>2, Zenon
        <5>4. \A j \in Key \ {k} : fresh'[j] = fresh[j]
          BY <5>1, <5>2, Zenon
        <5>5. ~Hit(k)'
          <6>1. key'[p] = key[p] /\ valid' = valid
            BY <1>1, <5>1
          <6> QED
            BY <5>3, <6>1, Zenon DEF Hit
        <5>6. \A j \in Key \ {k} : Hit(j)' => Hit(j)
          BY <5>1, <5>4, Zenon DEF Hit
        <5> QED
          BY <5>5, <5>6
      <4> QED
        BY <2>2, <4>1, <4>2
    <3>3. EntryInv'
      BY <1>1, <1>2, <3>1, <3>2, EstablishInv DEF CacheInv, EntryInv
    <3> QED
      BY <3>1, <3>3 DEF TypeOK
  <2> QED
    BY <2>1, <2>2
<1>4. HandlerInv'
  <2>1. \A q \in Proc : pc[q] = "fetched" => key[q] \in Key \ {k}
    BY <1>1, FreeEntry DEF TypeOK
  <2> QED
    BY <1>1, <1>3, <2>1, ReturnInv DEF CacheInv, HandlerInv
<1> QED
  BY <1>3, <1>4 DEF CacheInv, EntryInv, HandlerInv

LEMMA PrefixInv ==
  ASSUME TypeOK, CacheInv, NEW p \in Proc, NEW k \in Key, PrefixStep(p, k)
  PROVE  CacheInv'
<1>1. /\ EntryFree(k) /\ UNCHANGED <<version, value, refreshing, pc, call, key, got, bg>>
      /\ gen' = [gen EXCEPT ![k] = @ + 1] /\ floor' = [floor EXCEPT ![k] = version[k]]
  BY DEF PrefixStep, Drop
<1>2. version[k] \in 0 .. MaxVersion /\ version[k] <= version[k]
  BY BoundAssumption DEF TypeOK
<1>3. ~Hit(k)' /\ \A j \in Key \ {k} : Hit(j)' => Hit(j)
  BY DEF TypeOK, PrefixStep, Drop, Hit
<1>4. EntryInv'
  BY <1>1, <1>2, <1>3, EstablishInv DEF CacheInv, EntryInv
<1>5. \A q \in Proc : pc[q] = "fetched" => floor'[key[q]] = floor[key[q]]
  BY <1>1, FreeEntry DEF TypeOK
<1>6. FetchOK' /\ StoreOK'
  BY <1>1, <1>5 DEF CacheInv, FetchOK, StoreOK
<1> QED
  BY <1>4, <1>6 DEF CacheInv, EntryInv

LEMMA BgAnswerInv ==
  ASSUME TypeOK, CacheInv, NEW p \in Proc, BgAnswer(p)
  PROVE  CacheInv'
<1>1. /\ bg[p].pc = "fetch" /\ UNCHANGED <<version, entryVars, procVars, floor>>
      /\ bg' = [bg EXCEPT ![p] = [@ EXCEPT !.pc = "fetched", !.got = version[bg[p].key]]]
  BY DEF BgAnswer
<1>2. FloorOK' /\ HitOK' /\ FetchOK' /\ StoreOK'
  BY <1>1 DEF CacheInv, FloorOK, HitOK, FetchOK, StoreOK, Hit, entryVars, procVars
<1>3. Busy(p)
  BY <1>1, RefreshBusy
<1>4. /\ bg'[p].key = bg[p].key /\ bg'[p].gen = bg[p].gen /\ bg'[p].got = version[bg[p].key]
      /\ \A q \in Proc \ {p} : bg'[q] = bg[q]
  BY <1>1, <1>3, BusyRefresh DEF TypeOK, Refresh
<1>5. floor[bg[p].key] <= version[bg[p].key] /\ version[bg[p].key] <= version[bg[p].key]
  BY <1>3, BusyRefresh, BoundAssumption DEF TypeOK, CacheInv, FloorOK
<1>6. \A q \in Proc : Busy(q)' => Busy(q)
  BY <1>3, <1>4 DEF Busy
<1>7. RefreshOK'
  BY <1>1, <1>3, <1>4, <1>5, <1>6 DEF CacheInv, RefreshOK, entryVars
<1>8. OneRefresh'
  BY <1>4, <1>6 DEF CacheInv, OneRefresh
<1> QED
  BY <1>2, <1>7, <1>8 DEF CacheInv

\* The refresh is over: nobody else was refreshing its key.
LEMMA BgEndInv ==
  ASSUME TypeOK, CacheInv, NEW p \in Proc, BgStore(p) \/ BgFail(p)
  PROVE  CacheInv'
<1> DEFINE k == bg[p].key
<1>1. /\ bg[p].pc = "fetched" /\ ClearFlag(p) /\ bg' = [bg EXCEPT ![p] = NoRefresh]
      /\ UNCHANGED <<version, gen, procVars, floor>>
  BY DEF BgStore, BgFail
<1>2. Busy(p)
  BY <1>1, RefreshBusy
<1>3. k \in Key /\ bg[p].got \in 0 .. MaxVersion
  BY <1>2, BusyRefresh
<1>4. FetchOK' /\ StoreOK'
  BY <1>1 DEF CacheInv, FetchOK, StoreOK, procVars
<1>5. ~Busy(p)' /\ \A q \in Proc \ {p} : bg'[q] = bg[q]
  BY <1>1 DEF TypeOK, Busy
<1>6. \A j \in Key \ {k} : refreshing'[j] = refreshing[j]
  <2>1. DOMAIN refreshing = Key /\ refreshing' = [refreshing EXCEPT ![k] = FALSE]
    BY <1>1 DEF TypeOK, ClearFlag
  <2> QED
    BY <2>1
<1>7. ASSUME NEW q \in Proc, Busy(q)'
      PROVE  q # p /\ Busy(q) /\ bg'[q] = bg[q] /\ bg[q].key # k /\ refreshing'[bg[q].key]
  <2>1. q # p /\ Busy(q) /\ bg'[q] = bg[q]
    BY <1>5, <1>7 DEF Busy
  <2>2. bg[q].key # k /\ bg[q].key \in Key
    BY <1>2, <2>1, BusyRefresh DEF CacheInv, OneRefresh
  <2> QED
    BY <1>6, <2>1, <2>2 DEF CacheInv, RefreshOK
<1>8. RefreshOK' /\ OneRefresh'
  BY <1>1, <1>7 DEF CacheInv, RefreshOK, OneRefresh
<1>9. FloorOK' /\ HitOK'
  <2>1. CASE BgStore(p) /\ Current(p)
    <3>1. Write(k, bg[p].got)
      BY <2>1 DEF BgStore
    <3>2. floor[k] <= bg[p].got /\ bg[p].got <= version[k]
      BY <1>1, <1>2, <2>1 DEF CacheInv, RefreshOK, Current
    <3> QED
      BY <1>1, <1>3, <3>1, <3>2, WriteInv DEF CacheInv, EntryInv
  <2>2. CASE ~(BgStore(p) /\ Current(p))
    <3>1. UNCHANGED <<value, valid, fresh>>
      BY <2>2 DEF BgStore, BgFail
    <3> QED
      BY <1>1, <3>1 DEF CacheInv, FloorOK, HitOK, Hit
  <2> QED
    BY <2>1, <2>2
<1> QED
  BY <1>4, <1>8, <1>9 DEF CacheInv

LEMMA NextInv ==
  ASSUME TypeOK, CacheInv, [Next]_vars
  PROVE  CacheInv'
<1>1. ASSUME NEW k \in Key, Mutate(k) \/ Age(k) PROVE CacheInv'
  BY <1>1, MutateInv, AgeInv
<1>2. ASSUME NEW p \in Proc, NEW c \in Calls, NEW k \in Key, Call(p, c, k) PROVE CacheInv'
  BY <1>2, CallInv
<1>3. ASSUME NEW p \in Proc, HandlerStep(p) PROVE CacheInv'
  BY <1>3, EnterInv, LastPeekInv, QuietInv, GetAnswerInv, GetStoreInv, AsyncInv, ExplicitInv, PrefixInv
     DEF HandlerStep
<1>4. ASSUME NEW p \in Proc, BackgroundStep(p) PROVE CacheInv'
  BY <1>4, BgAnswerInv, BgEndInv DEF BackgroundStep
<1>5. CASE UNCHANGED vars
  BY <1>5 DEF vars, entryVars, procVars, CacheInv, FloorOK, HitOK, FetchOK, StoreOK, RefreshOK,
              OneRefresh, Busy, Hit
<1> QED
  BY <1>1, <1>2, <1>3, <1>4, <1>5 DEF Next

\* What an answer in flight is worth: one that a Get brings was read after the last
\* explicit operation, and so was one of a refresh whose generation is still current.
THEOREM AnswersCurrent == Spec => []CacheInv
<1>1. Init => TypeOK /\ CacheInv
  BY InitTypeOK, InitCacheInv
<1>2. TypeOK /\ CacheInv /\ [Next]_vars => (TypeOK /\ CacheInv)'
  BY NextTypes, NextInv
<1> QED
  BY <1>1, <1>2, PTL DEF Spec

-----------------------------------------------------------------------------
(* Single flight. *)

LEMMA AtMostOne ==
  ASSUME NEW S, \A x, y \in S : x = y
  PROVE  Cardinality(S) <= 1
<1>1. CASE S = {}
  BY <1>1, FS_EmptySet
<1>2. CASE S # {}
  <2>1. PICK x \in S : TRUE
    BY <1>2
  <2>2. S = {x}
    BY <2>1
  <2>3. Cardinality({x}) = 1
    BY FS_Singleton
  <2> QED
    BY <2>2, <2>3
<1> QED
  BY <1>1, <1>2

\* Whatever invalidations fall in between, at most one Get of a key is upstream, for
\* it holds the mutex of the entry, and at most one refresh, for the flag of the entry
\* is cleared by the one that set it.
THEOREM FlightsAreSingle == Spec => []SingleFlight
<1>1. ASSUME TypeOK, CacheInv PROVE SingleFlight
  <2> SUFFICES ASSUME NEW k \in Key
               PROVE  /\ Cardinality({p \in Proc : /\ pc[p] \in {"fetch", "fetched"}
                                                   /\ key[p] = k}) <= 1
                      /\ Cardinality({p \in Proc : bg[p] # NoRefresh /\ bg[p].key = k}) <= 1
    BY DEF SingleFlight
  <2>1. \A p, q \in {r \in Proc : pc[r] \in {"fetch", "fetched"} /\ key[r] = k} : p = q
    <3>1. \A p \in {r \in Proc : pc[r] \in {"fetch", "fetched"} /\ key[r] = k} : holder[k] = p
      BY <1>1 DEF TypeOK
    <3> QED
      BY <3>1
  <2>2. \A p, q \in {r \in Proc : bg[r] # NoRefresh /\ bg[r].key = k} : p = q
    BY <1>1 DEF CacheInv, OneRefresh, Busy
  <2> QED
    BY <2>1, <2>2, AtMostOne
<1> QED
  BY <1>1, TypeCorrect, AnswersCurrent, PTL

-----------------------------------------------------------------------------
(* The cache implements CacheCell. *)

ServedOf == [k \in Key |-> IF Hit(k) THEN value[k] ELSE -1]

LEMMA ServedChange ==
  ASSUME NEW k \in Key, NEW v,
         v = IF Hit(k)' THEN value'[k] ELSE -1,
         \A j \in Key \ {k} : value'[j] = value[j] /\ (Hit(j)' <=> Hit(j))
  PROVE  ServedOf' = [ServedOf EXCEPT ![k] = v]
BY DEF ServedOf

LEMMA ServedSame ==
  ASSUME UNCHANGED <<value, valid, fresh>>
  PROVE  ServedOf' = ServedOf
BY DEF ServedOf, Hit

\* Nothing that is served, and nothing upstream, has changed.
LEMMA Stutter ==
  ASSUME UNCHANGED <<version, value, valid, fresh, floor>>
  PROVE  UNCHANGED Cell!vars
BY ServedSame DEF Cell!vars, ServedOf

LEMMA InitPromise == Init => Cell!Init
<1> SUFFICES ASSUME Init PROVE Cell!Init
  OBVIOUS
<1>1. \A k \in Key : ~Hit(k)
  BY DEF Init, Hit
<1> QED
  BY <1>1 DEF Init, Cell!Init, Cell!Absent

LEMMA MutatePromise ==
  ASSUME NEW k \in Key, Mutate(k)
  PROVE  Cell!Next
<1>1. Cell!Mutate(k)
  BY ServedSame DEF Mutate, entryVars, Cell!Mutate, ServedOf
<1> QED
  BY <1>1 DEF Cell!Next

LEMMA AgePromise ==
  ASSUME TypeOK, NEW k \in Key, Age(k)
  PROVE  Cell!Next
<1>1. /\ UNCHANGED <<version, value, valid, floor>> /\ fresh'[k] = FALSE
      /\ \A j \in Key \ {k} : fresh'[j] = fresh[j]
  BY DEF TypeOK, Age
<1>2. ServedOf' = [ServedOf EXCEPT ![k] = -1]
  BY <1>1, ServedChange DEF Hit
<1>3. Cell!Forget(k)
  BY <1>1, <1>2 DEF Cell!Forget, Cell!Absent, ServedOf
<1> QED
  BY <1>3 DEF Cell!Next

\* An answer above the floor is stored.
LEMMA WritePromise ==
  ASSUME TypeOK, NEW k \in Key, NEW v \in 0 .. MaxVersion, Write(k, v),
         floor[k] <= v, v <= version[k], UNCHANGED <<version, floor>>
  PROVE  Cell!Next
<1>1. /\ value'[k] = v /\ Hit(k)'
      /\ \A j \in Key \ {k} : value'[j] = value[j] /\ (Hit(j)' <=> Hit(j))
  BY DEF TypeOK, Write, Hit
<1>2. ServedOf' = [ServedOf EXCEPT ![k] = v]
  BY <1>1, ServedChange
<1>3. v \in floor[k] .. version[k]
  BY BoundAssumption DEF TypeOK
<1>4. Cell!Fill(k)
  BY <1>2, <1>3 DEF Cell!Fill, ServedOf
<1> QED
  BY <1>4 DEF Cell!Next

LEMMA DropPromise ==
  ASSUME NEW k \in Key, ~Hit(k)', UNCHANGED <<version, value>>,
         floor' = [floor EXCEPT ![k] = version[k]],
         \A j \in Key \ {k} : Hit(j)' <=> Hit(j)
  PROVE  Cell!Next
<1>1. ServedOf' = [ServedOf EXCEPT ![k] = -1]
  BY ServedChange
<1>2. Cell!Drop(k)
  BY <1>1 DEF Cell!Drop, Cell!Absent, ServedOf
<1> QED
  BY <1>2 DEF Cell!Next

LEMMA StorePromise ==
  ASSUME TypeOK, CacheInv, NEW p \in Proc, Store(p)
  PROVE  Cell!Next
<1>1. PICK k \in Key : k = key[p]
  BY DEF TypeOK
<1>2. PICK v \in 0 .. MaxVersion : v = got[p]
  BY DEF TypeOK
<1>3. /\ call[p] = "store" /\ Write(k, v) /\ floor' = [floor EXCEPT ![k] = v]
      /\ UNCHANGED version
  BY <1>1, <1>2 DEF Store, Locked
<1>4. v \in 0 .. version[k]
  BY <1>1, <1>2, <1>3, BoundAssumption DEF TypeOK, CacheInv, StoreOK
<1>5. /\ value'[k] = v /\ Hit(k)'
      /\ \A j \in Key \ {k} : value'[j] = value[j] /\ (Hit(j)' <=> Hit(j))
  BY <1>3 DEF TypeOK, Write, Hit
<1>6. ServedOf' = [ServedOf EXCEPT ![k] = v]
  BY <1>5, ServedChange
<1>7. Cell!Put(k)
  BY <1>3, <1>4, <1>6 DEF Cell!Put, ServedOf
<1> QED
  BY <1>7 DEF Cell!Next

LEMMA InvalidatePromise ==
  ASSUME TypeOK, NEW p \in Proc, Invalidate(p) \/ Expire(p) \/ \E k \in Key : PrefixStep(p, k)
  PROVE  Cell!Next
<1>1. CASE Invalidate(p)
  <2>1. PICK k \in Key : k = key[p]
    BY DEF TypeOK
  <2>2. Drop(k) /\ UNCHANGED <<version, value, fresh>>
    BY <1>1, <2>1 DEF Invalidate
  <2>3. ~Hit(k)' /\ \A j \in Key \ {k} : Hit(j)' <=> Hit(j)
    BY <2>2 DEF TypeOK, Drop, Hit
  <2> QED
    BY <2>2, <2>3, DropPromise DEF Drop
<1>2. CASE Expire(p)
  <2>1. PICK k \in Key : k = key[p]
    BY DEF TypeOK
  <2>2. /\ fresh' = [fresh EXCEPT ![k] = fresh[k] /\ ~valid[k]]
        /\ floor' = [floor EXCEPT ![k] = version[k]] /\ UNCHANGED <<version, value, valid>>
    BY <1>2, <2>1 DEF Expire
  <2>3. DOMAIN fresh = Key
    BY DEF TypeOK
  <2>4. fresh'[k] <=> fresh[k] /\ ~valid[k]
    BY <2>2, <2>3, Zenon
  <2>5. \A j \in Key \ {k} : fresh'[j] = fresh[j]
    BY <2>2, <2>3, Zenon
  <2>6. valid' = valid
    BY <2>2
  <2>7. ~Hit(k)' /\ \A j \in Key \ {k} : Hit(j)' <=> Hit(j)
    BY <2>4, <2>5, <2>6, Zenon DEF Hit
  <2> QED
    BY <2>2, <2>7, DropPromise
<1>3. ASSUME NEW k \in Key, PrefixStep(p, k) PROVE Cell!Next
  <2>1. Drop(k) /\ UNCHANGED <<version, value, fresh>>
    BY <1>3 DEF PrefixStep
  <2>2. ~Hit(k)' /\ \A j \in Key \ {k} : Hit(j)' <=> Hit(j)
    BY <2>1 DEF TypeOK, Drop, Hit
  <2> QED
    BY <2>1, <2>2, DropPromise DEF Drop
<1> QED
  BY <1>1, <1>2, <1>3

LEMMA GetPromise ==
  ASSUME TypeOK, CacheInv, NEW p \in Proc, GetStore(p)
  PROVE  Cell!Next
<1>1. PICK k \in Key : k = key[p]
  BY DEF TypeOK
<1>2. PICK v \in 0 .. MaxVersion : v = got[p]
  BY DEF TypeOK
<1>3. Write(k, v) /\ pc[p] = "fetched" /\ UNCHANGED <<version, floor>>
  BY <1>1, <1>2 DEF GetStore
<1>4. floor[k] <= v /\ v <= version[k]
  BY <1>1, <1>2, <1>3 DEF CacheInv, FetchOK
<1> QED
  BY <1>3, <1>4, WritePromise

LEMMA BgPromise ==
  ASSUME TypeOK, CacheInv, NEW p \in Proc, BackgroundStep(p)
  PROVE  Cell!Next \/ UNCHANGED Cell!vars
<1>1. CASE BgStore(p) /\ Current(p)
  <2>1. bg[p].pc = "fetched" /\ UNCHANGED <<version, floor>>
    BY <1>1 DEF BgStore
  <2>2. Busy(p)
    BY <2>1, RefreshBusy
  <2>3. PICK k \in Key : k = bg[p].key
    BY <2>2, BusyRefresh
  <2>4. PICK v \in 0 .. MaxVersion : v = bg[p].got
    BY <2>2, BusyRefresh
  <2>5. Write(k, v)
    BY <1>1, <2>3, <2>4 DEF BgStore
  <2>6. floor[k] <= v /\ v <= version[k]
    BY <1>1, <2>1, <2>2, <2>3, <2>4 DEF CacheInv, RefreshOK, Current
  <2> QED
    BY <2>1, <2>5, <2>6, WritePromise
<1>2. CASE ~(BgStore(p) /\ Current(p))
  <2>1. UNCHANGED <<version, value, valid, fresh, floor>>
    BY <1>2 DEF BackgroundStep, BgAnswer, BgStore, BgFail, entryVars
  <2> QED
    BY <2>1, Stutter
<1> QED
  BY <1>1, <1>2

LEMMA NextPromise ==
  ASSUME TypeOK, CacheInv, [Next]_vars
  PROVE  [Cell!Next]_(Cell!vars)
<1>1. ASSUME NEW k \in Key, Mutate(k) \/ Age(k) PROVE Cell!Next
  BY <1>1, MutatePromise, AgePromise
<1>2. ASSUME NEW p \in Proc, NEW c \in Calls, NEW k \in Key, Call(p, c, k)
      PROVE  UNCHANGED Cell!vars
  BY <1>2, Stutter DEF Call, entryVars
<1>3. ASSUME NEW p \in Proc,
             \/ Enter(p) \/ GetHit(p) \/ GetMiss(p) \/ GetAnswer(p) \/ GetServeStale(p)
             \/ GetError(p) \/ Async(p) \/ WaitLastPeek(p) \/ WaitTimeout(p)
             \/ Peek(p) \/ PrefixDone(p)
      PROVE  UNCHANGED Cell!vars
  <2>1. UNCHANGED <<version, value, valid, fresh, floor>>
    BY <1>3 DEF Enter, GetHit, GetMiss, GetAnswer, GetServeStale, GetError, Async,
                WaitLastPeek, WaitTimeout, Peek, PrefixDone, entryVars
  <2> QED
    BY <2>1, Stutter
<1>4. ASSUME NEW p \in Proc, HandlerStep(p) PROVE Cell!Next \/ UNCHANGED Cell!vars
  BY <1>3, <1>4, GetPromise, StorePromise, InvalidatePromise DEF HandlerStep
<1>5. ASSUME NEW p \in Proc, BackgroundStep(p) PROVE Cell!Next \/ UNCHANGED Cell!vars
  BY <1>5, BgPromise
<1>6. CASE UNCHANGED vars
  BY <1>6, Stutter DEF vars, entryVars
<1> QED
  BY <1>1, <1>2, <1>4, <1>5, <1>6 DEF Next

\* ttlCache implements CacheCell for any number of keys and goroutines: what it serves
\* without an upstream call was read upstream, and not before the last Store,
\* Invalidate or Expire of the key.
THEOREM CacheKeepsPromise == Spec => Promise
BY InitPromise, NextPromise, TypeCorrect, AnswersCurrent, PTL DEF Spec, Promise, Cell!Spec

-----------------------------------------------------------------------------
(* The mutexes of the entries and of the table. *)

\* p has a step that no mutex keeps it from.
GoesOn(p) ==
  \/ pc[p] \in {"fetch", "fetched", "wait"}
  \/ pc[p] = "entry" /\ table = Nobody
  \/ pc[p] = "lock" /\ EntryFree(key[p])
  \/ pc[p] = "prefix" /\ (todo[p] = {} \/ \E k \in todo[p] : EntryFree(k))

\* The holders of the mutexes p is after.
WaitsFor(p) ==
  {q \in Proc : \/ pc[p] = "entry" /\ table = q
                \/ pc[p] = "lock" /\ holder[key[p]] = q
                \/ pc[p] = "prefix" /\ \E k \in todo[p] : holder[k] = q}

\* A chain of waiting handlers has two links at most, and no background refresh is in one:
\* it waits for one that can go on (cache.go takes the table's mutex before an entry's).
ShortWaits ==
  /\ \A p \in Proc : pc[p] # "idle" =>
       \/ GoesOn(p)
       \/ \E q \in WaitsFor(p) : GoesOn(q) \/ \E r \in WaitsFor(q) : GoesOn(r)
  /\ \A p \in Proc : bg[p].pc = "fetched" =>
       EntryFree(bg[p].key) \/ \E q \in Proc : holder[bg[p].key] = q /\ GoesOn(q)

\* The mutex of an entry is held by one that waits for upstream only.
LEMMA HolderGoesOn ==
  ASSUME TypeOK, NEW k \in Key
  PROVE  EntryFree(k) \/ \E q \in Proc : holder[k] = q /\ GoesOn(q)
BY DEF TypeOK, EntryFree, GoesOn

LEMMA PrefixGoesOn ==
  ASSUME TypeOK, NEW p \in Proc, pc[p] = "prefix"
  PROVE  GoesOn(p) \/ \E q \in WaitsFor(p) : GoesOn(q)
<1> SUFFICES ASSUME ~GoesOn(p) PROVE \E q \in WaitsFor(p) : GoesOn(q)
  OBVIOUS
<1>1. PICK k \in todo[p] : ~EntryFree(k)
  BY DEF GoesOn
<1>2. k \in Key
  BY <1>1, KeysAssumption DEF TypeOK
<1>3. PICK q \in Proc : holder[k] = q /\ GoesOn(q)
  BY <1>1, <1>2, HolderGoesOn
<1> QED
  BY <1>1, <1>3 DEF WaitsFor

\* InvalidatePrefix waits for entries with the mutex of the table in hand, and everybody
\* else waits for that one: still nobody waits in a circle.  Whoever waits for a mutex
\* waits for one that can go on, or for one that waits for such a one.
THEOREM MutexesAreGivenBack == Spec => []ShortWaits
<1>1. ASSUME TypeOK PROVE ShortWaits
  <2>1. ASSUME NEW p \in Proc, pc[p] # "idle"
        PROVE  \/ GoesOn(p)
               \/ \E q \in WaitsFor(p) : GoesOn(q) \/ \E r \in WaitsFor(q) : GoesOn(r)
    <3>1. CASE pc[p] = "entry"
      <4>1. CASE table = Nobody
        BY <3>1, <4>1 DEF GoesOn
      <4>2. CASE table # Nobody
        <5>1. PICK q \in Proc : table = q /\ pc[q] = "prefix"
          BY <1>1, <4>2 DEF TypeOK
        <5>2. q \in WaitsFor(p)
          BY <3>1, <5>1 DEF WaitsFor
        <5> QED
          BY <1>1, <5>1, <5>2, PrefixGoesOn
      <4> QED
        BY <4>1, <4>2
    <3>2. CASE pc[p] = "lock"
      <4>1. key[p] \in Key
        BY <1>1 DEF TypeOK
      <4>2. CASE EntryFree(key[p])
        BY <3>2, <4>2 DEF GoesOn
      <4>3. CASE ~EntryFree(key[p])
        BY <1>1, <3>2, <4>1, <4>3, HolderGoesOn DEF WaitsFor
      <4> QED
        BY <4>2, <4>3
    <3>3. CASE pc[p] = "prefix"
      BY <1>1, <3>3, PrefixGoesOn
    <3>4. CASE pc[p] \in {"fetch", "fetched", "wait"}
      BY <3>4 DEF GoesOn
    <3> QED
      BY <1>1, <2>1, <3>1, <3>2, <3>3, <3>4 DEF TypeOK
  <2>2. ASSUME NEW p \in Proc, bg[p].pc = "fetched" PROVE bg[p].key \in Key
    BY <1>1, <2>2, RefreshBusy, BusyRefresh
  <2> QED
    BY <1>1, <2>1, <2>2, HolderGoesOn DEF ShortWaits
<1> QED
  BY <1>1, TypeCorrect, PTL
=============================================================================
