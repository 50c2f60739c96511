---------------------- MODULE CacheInvalidationProofs ----------------------
(***************************************************************************)
(* For any number of handlers: a list that is served holds what the proxy  *)
(* itself has changed, and when nothing goes on it holds what a collector  *)
(* has announced.                                                          *)
(*                                                                         *)
(* The invariant follows what is out of date.  As long as a list that does *)
(* not show the bucket as it is can still be served, or is being made,     *)
(* somebody owes an invalidation: a handler is about to drop the list, a   *)
(* collector is about to publish a token, or its token is in the file and  *)
(* not recorded.  Dropping the list ends this for all of them at once,     *)
(* because no fetch is under way when the mutex is free.                   *)
(***************************************************************************)
EXTENDS CacheInvalidation, TLAPS

\* A token is told from all others by its number.
TokensOK ==
  \A h \in Handler :
    /\ handler[h].token <= tokens
    /\ At(h, "publish2") /\ theirs => handler[h].token # file

FetchOK ==
  /\ dropped <= listing
  /\ list.valid => dropped <= list.listing
  /\ \A h \in Handler : At(h, "finish") => dropped <= handler[h].got

Stale ==
  \/ list.valid /\ list.listing # listing
  \/ \E h \in Handler : At(h, "finish") /\ handler[h].got # listing

Owing ==
  \/ \E h \in Handler : At(h, "list")
  \/ collector \in {"marked", "swept"}
  \/ theirs /\ file # seen

NoticeOwed == Stale /\ ~silent /\ ~replaced => Owing

Inv == TypeOK /\ TokensOK /\ FetchOK /\ NoticeOwed

-----------------------------------------------------------------------------
LEMMA InitInv == Init => Inv
<1> SUFFICES ASSUME Init PROVE Inv
  OBVIOUS
<1>1. 0 \in 0 .. MaxListing /\ 0 \in 0 .. MaxReport /\ 0 \in 0 .. MaxToken
  BY BoundsAssumption
<1>2. Idle \in Handlers
  BY <1>1 DEF Idle, Handlers, AllKinds
<1>3. \A h \in Handler : handler[h] = Idle
  BY DEF Init
<1>4. Idle.pc = "idle" /\ Idle.token = 0
  BY DEF Idle
<1>5. list \in Entry /\ stats \in Entry /\ ~list.valid
  BY <1>1 DEF Init, Entry
<1>6. TypeOK
  <2>1. handler \in [Handler -> Handlers]
    BY <1>2 DEF Init
  <2>2. \A h \in Handler : holder = h <=> handler[h].pc = "finish"
    BY <1>3, <1>4, HandlersAssumption DEF Init
  <2>3. {theirs, silent, replaced} \subseteq BOOLEAN
    BY DEF Init
  <2> QED
    BY <1>1, <1>5, <2>1, <2>2, <2>3 DEF Init, TypeOK
<1>7. TokensOK /\ FetchOK
  BY <1>3, <1>4, <1>5 DEF Init, TokensOK, FetchOK, At
<1>8. NoticeOwed
  BY <1>3, <1>4, <1>5 DEF NoticeOwed, Stale, At
<1> QED
  BY <1>6, <1>7, <1>8 DEF Inv

LEMMA Moved ==
  ASSUME TypeOK, NEW h \in Handler, NEW r \in Handlers, handler' = [handler EXCEPT ![h] = r]
  PROVE  /\ handler' \in [Handler -> Handlers] /\ handler'[h] = r
         /\ \A g \in Handler \ {h} : handler'[g] = handler[g]
BY DEF TypeOK

\* A step of a handler that is not at the mutex of the list.  If it has changed the
\* bucket, or recorded a token of a collector, it is about to drop the list, or
\* nobody was told of the change.
LEMMA MoveInv ==
  ASSUME Inv, NEW h \in Handler, NEW r \in Handlers, handler' = [handler EXCEPT ![h] = r],
         handler[h].pc \notin {"list", "finish"}, r.pc \notin {"finish", "publish2"},
         r.token <= tokens, stats' \in Entry, seen' \in 0 .. tokens,
         listing' \in 0 .. MaxListing, listing <= listing',
         silent' \in {silent, TRUE},
         UNCHANGED <<report, file, tokens, theirs, list, holder, collector, dropped, replaced>>,
         listing' # listing => r.pc = "list" \/ silent',
         seen' # seen => r.pc = "list" \/ ~theirs \/ file # seen'
  PROVE  Inv'
<1>1. /\ handler' \in [Handler -> Handlers] /\ handler'[h] = r
      /\ \A g \in Handler \ {h} : handler'[g] = handler[g]
  BY Moved DEF Inv
<1>2. \A g \in Handler : handler'[g].pc = "finish" <=> handler[g].pc = "finish"
  BY <1>1
<1>3. TypeOK'
  BY <1>1, <1>2 DEF Inv, TypeOK, At
<1>4. TokensOK'
  BY <1>1 DEF Inv, TokensOK, At
<1>5. FetchOK'
  <2>1. dropped <= listing'
    BY BoundsAssumption DEF Inv, TypeOK, FetchOK
  <2>2. \A g \in Handler : handler'[g].pc = "finish" => handler'[g] = handler[g]
    BY <1>1
  <2> QED
    BY <1>2, <2>1, <2>2 DEF Inv, FetchOK, At
<1>6. NoticeOwed'
  <2>1. CASE r.pc = "list"
    BY <1>1, <2>1 DEF NoticeOwed, Owing, At
  <2>2. CASE silent'
    BY <2>2 DEF NoticeOwed
  <2>3. CASE r.pc # "list" /\ ~silent'
    <3>1. Stale' => Stale
      BY <1>1, <2>3 DEF Stale, At
    <3>2. Owing => Owing'
      BY <1>1, <2>3 DEF Owing, At
    <3> QED
      BY <2>3, <3>1, <3>2 DEF Inv, NoticeOwed
  <2> QED
    BY <2>1, <2>2, <2>3
<1> QED
  BY <1>3, <1>4, <1>5, <1>6 DEF Inv

\* The fields of a handler.
LEMMA HandlerType ==
  ASSUME TypeOK, NEW h \in Handler
  PROVE  /\ handler[h] \in Handlers /\ handler[h].kind \in AllKinds
         /\ handler[h].seen \in 0 .. MaxToken /\ handler[h].token \in 0 .. MaxToken
         /\ handler[h].got \in 0 .. MaxListing /\ handler[h].last \in BOOLEAN
BY DEF TypeOK, Handlers

\* A request that is over, or has not begun.
LEMMA IdleType == Idle \in Handlers /\ Idle.pc = "idle" /\ Idle.token = 0
BY BoundsAssumption DEF Idle, Handlers, AllKinds

LEMMA DoneInv ==
  ASSUME Inv, NEW h \in Handler, Done(h), handler[h].pc \notin {"list", "finish"},
         stats' \in Entry, seen' \in 0 .. tokens,
         UNCHANGED <<bucket, file, tokens, theirs, list, holder, collector, dropped, silent,
                     replaced>>,
         seen' # seen => ~theirs \/ file # seen'
  PROVE  Inv'
<1>1. handler' = [handler EXCEPT ![h] = Idle]
  BY DEF Done
<1>2. Idle.token <= tokens /\ listing <= listing /\ listing \in 0 .. MaxListing
  BY IdleType, BoundsAssumption DEF Inv, TypeOK
<1>3. UNCHANGED <<listing, report>>
  BY DEF bucket
<1> QED
  BY <1>1, <1>2, <1>3, IdleType, MoveInv

\* The other steps away from the mutex, each with the record it leaves.
LEMMA BeginInv ==
  ASSUME Inv, NEW h \in Handler, NEW k \in Kinds, Begin(h, k)
  PROVE  Inv'
<1> DEFINE r == IF k = "finish" THEN [Idle EXCEPT !.pc = "work", !.kind = k]
                ELSE [Idle EXCEPT !.pc = "token", !.kind = k, !.seen = seen]
<1>1. k \in AllKinds /\ seen \in 0 .. MaxToken /\ 0 <= tokens
  BY HandlersAssumption, BoundsAssumption DEF Inv, TypeOK
<1>2. r \in Handlers /\ r.pc \in {"work", "token"} /\ r.token = 0
  <2>1. CASE k = "finish"
    BY <1>1, <2>1, IdleType DEF Idle, Handlers
  <2>2. CASE k # "finish"
    BY <1>1, <2>2, IdleType DEF Idle, Handlers
  <2> QED
    BY <2>1, <2>2
<1>3. /\ handler' = [handler EXCEPT ![h] = r] /\ handler[h].pc = "idle"
      /\ UNCHANGED <<listing, report, file, seen, tokens, theirs, list, stats, holder, collector,
                     dropped, silent, replaced>>
  BY DEF Begin, At, bucket, tokenVars, cacheVars
<1>4. /\ stats \in Entry /\ seen \in 0 .. tokens /\ listing \in 0 .. MaxListing
      /\ listing <= listing
  BY BoundsAssumption DEF Inv, TypeOK
<1> QED
  BY <1>1, <1>2, <1>3, <1>4, MoveInv

LEMMA ReadInv ==
  ASSUME Inv, NEW h \in Handler, ReadToken(h) \/ ReadTokenFails(h)
  PROVE  Inv'
<1> DEFINE r(new) == IF new THEN [handler[h] EXCEPT !.pc = "record", !.token = file, !.seen = 0]
                     ELSE [handler[h] EXCEPT !.pc = AfterSync(h), !.seen = 0]
<1>1. PICK new \in BOOLEAN : handler' = [handler EXCEPT ![h] = r(new)]
  BY DEF Inv, TypeOK, ReadToken, ReadTokenFails
<1>2. /\ file <= tokens /\ file \in 0 .. MaxToken /\ 0 \in 0 .. MaxToken
      /\ AfterSync(h) \in {"list", "work"} /\ handler[h] \in Handlers
      /\ handler[h].token <= tokens
  BY BoundsAssumption, HandlerType DEF Inv, TypeOK, TokensOK, AfterSync
<1>3. r(new) \in Handlers /\ r(new).pc \in {"record", "list", "work"} /\ r(new).token <= tokens
  <2>1. CASE new
    BY <1>2, <2>1 DEF Handlers
  <2>2. CASE ~new
    BY <1>2, <2>2 DEF Handlers
  <2> QED
    BY <2>1, <2>2
<1>4. /\ handler[h].pc = "token"
      /\ UNCHANGED <<listing, report, file, seen, tokens, theirs, list, stats, holder, collector,
                     dropped, silent, replaced>>
  BY DEF ReadToken, ReadTokenFails, At, bucket, tokenVars, cacheVars
<1>5. /\ stats \in Entry /\ seen \in 0 .. tokens /\ listing \in 0 .. MaxListing
      /\ listing <= listing
  BY BoundsAssumption DEF Inv, TypeOK
<1> QED
  BY <1>1, <1>3, <1>4, <1>5, MoveInv

LEMMA RecordInv ==
  ASSUME Inv, NEW h \in Handler, Record(h)
  PROVE  Inv'
<1> DEFINE r == [handler[h] EXCEPT !.pc = "list", !.token = 0]
<1>1. handler[h] \in Handlers /\ handler[h].token \in 0 .. tokens /\ 0 \in 0 .. MaxToken
  BY HandlerType, BoundsAssumption DEF Inv, TypeOK, TokensOK
<1>2. r \in Handlers /\ r.pc = "list" /\ r.token = 0
  BY <1>1 DEF Handlers
<1> HIDE DEF r
<1>3. /\ handler' = [handler EXCEPT ![h] = r] /\ handler[h].pc = "record"
      /\ seen' = handler[h].token
      /\ UNCHANGED <<listing, report, file, tokens, theirs, list, stats, holder, collector,
                     dropped, silent, replaced>>
  BY DEF Record, At, bucket, cacheVars, r
<1>4. /\ stats \in Entry /\ listing \in 0 .. MaxListing /\ listing <= listing /\ 0 <= tokens
  BY BoundsAssumption DEF Inv, TypeOK
<1> QED
  BY <1>1, <1>2, <1>3, <1>4, MoveInv

LEMMA DropStatsInv ==
  ASSUME Inv, NEW h \in Handler, DropStats(h)
  PROVE  Inv'
<1> DEFINE to == IF handler[h].last THEN "publish" ELSE "work"
           r == [handler[h] EXCEPT !.pc = to]
<1>1. handler[h] \in Handlers /\ handler[h].token <= tokens
  BY HandlerType DEF Inv, TokensOK
<1>2. r \in Handlers /\ r.pc \in {"publish", "work"} /\ r.token = handler[h].token
  BY <1>1 DEF Handlers
<1>3. /\ handler' = [handler EXCEPT ![h] = r] /\ handler[h].pc = "stats"
      /\ stats' = [stats EXCEPT !.valid = FALSE]
      /\ UNCHANGED <<listing, report, file, seen, tokens, theirs, list, holder, collector,
                     dropped, silent, replaced>>
  BY DEF DropStats, Goto, At, bucket, tokenVars
<1>4. stats' \in Entry
  BY <1>3 DEF Inv, TypeOK, Entry
<1>5. seen \in 0 .. tokens /\ listing \in 0 .. MaxListing /\ listing <= listing
  BY BoundsAssumption DEF Inv, TypeOK
<1> QED
  BY <1>1, <1>2, <1>3, <1>4, <1>5, MoveInv

\* Requests that change the bucket, or may have done so.
LEMMA ChangeInv ==
  ASSUME Inv, NEW h \in Handler, Change(h) \/ (ChangeFails(h) /\ handler[h].kind # "change")
  PROVE  Inv'
<1> DEFINE r == [handler[h] EXCEPT !.pc = "list", !.last = TRUE]
<1>1. handler[h] \in Handlers /\ handler[h].token <= tokens
  BY HandlerType DEF Inv, TokensOK
<1>2. r \in Handlers /\ r.pc = "list" /\ r.token = handler[h].token
  BY <1>1 DEF Handlers
<1>3. /\ handler' = [handler EXCEPT ![h] = r] /\ handler[h].pc = "work"
      /\ UNCHANGED <<report, file, seen, tokens, theirs, list, stats, holder, collector, dropped,
                     silent, replaced>>
  BY DEF Change, ChangeFails, Asked, At, bucket, tokenVars, cacheVars
<1>4. listing' \in 0 .. MaxListing /\ listing <= listing'
  BY BoundsAssumption DEF Inv, TypeOK, Change, ChangeFails, bucket
<1>5. stats \in Entry /\ seen \in 0 .. tokens
  BY DEF Inv, TypeOK
<1> QED
  BY <1>1, <1>2, <1>3, <1>4, <1>5, MoveInv

\* A change that was applied and reported as an error: it is announced to nobody.
LEMMA UnseenInv ==
  ASSUME Inv, NEW h \in Handler, ChangeAppliedUnseen(h)
  PROVE  Inv'
<1>1. /\ handler' = [handler EXCEPT ![h] = Idle] /\ handler[h].pc = "work" /\ silent' = TRUE
      /\ UNCHANGED <<report, file, seen, tokens, theirs, list, stats, holder, collector, dropped,
                     replaced>>
  BY DEF ChangeAppliedUnseen, Asked, At, Done, tokenVars, cacheVars
<1>2. listing' \in 0 .. MaxListing /\ listing <= listing'
  BY BoundsAssumption DEF Inv, TypeOK, ChangeAppliedUnseen
<1>3. stats \in Entry /\ seen \in 0 .. tokens /\ Idle.token <= tokens
  BY IdleType, BoundsAssumption DEF Inv, TypeOK
<1> QED
  BY <1>1, <1>2, <1>3, IdleType, MoveInv

LEMMA AnsweredInv ==
  ASSUME Inv, NEW h \in Handler,
         \/ ListHit(h) \/ ListFails(h) \/ ShowStats(h) \/ PublishFails(h)
         \/ (ChangeFails(h) /\ handler[h].kind = "change")
  PROVE  Inv'
<1>1. /\ Done(h) /\ handler[h].pc \in {"work", "publish"}
      /\ UNCHANGED <<bucket, tokenVars, list, holder, collector, dropped, silent, replaced>>
  BY DEF ListHit, ListFails, ServedOnError, ShowStats, PublishFails, ChangeFails, Asked, At,
         cacheVars
<1>2. stats \in Entry /\ report \in 0 .. MaxReport /\ seen \in 0 .. tokens
  BY DEF Inv, TypeOK
<1>3. StatsAfterGet \in Entry
  BY <1>2 DEF StatsAfterGet, Entry
<1>4. stats' \in Entry
  BY <1>2, <1>3 DEF ListHit, ListFails, ShowStats, PublishFails, ChangeFails, cacheVars
<1> QED
  BY <1>1, <1>2, <1>4, DoneInv DEF tokenVars

LEMMA RecordOwnInv ==
  ASSUME Inv, NEW h \in Handler, RecordOwn(h)
  PROVE  Inv'
<1>1. /\ handler[h].pc = "publish2" /\ seen' = handler[h].token /\ Done(h)
      /\ UNCHANGED <<bucket, file, tokens, theirs, list, stats, holder, collector, dropped,
                     silent, replaced>>
  BY DEF RecordOwn, OwnToken, At, cacheVars
<1>2. seen' \in 0 .. tokens /\ (theirs => file # seen')
  BY <1>1, HandlerType, BoundsAssumption DEF Inv, TypeOK, TokensOK, At
<1>3. stats \in Entry
  BY DEF Inv, TypeOK
<1> QED
  BY <1>1, <1>2, <1>3, DoneInv

-----------------------------------------------------------------------------
(* At the mutex of the list. *)

\* The list is dropped while nobody fetches it: nothing that is out of date is left.
LEMMA DropListInv ==
  ASSUME Inv, NEW h \in Handler, DropList(h)
  PROVE  Inv'
<1> DEFINE r == [handler[h] EXCEPT !.pc = "stats"]
<1>1. handler[h] \in Handlers /\ handler[h].token <= tokens
  BY HandlerType DEF Inv, TokensOK
<1>2. r \in Handlers /\ r.pc = "stats" /\ r.token = handler[h].token
  BY <1>1 DEF Handlers
<1>3. /\ handler' = [handler EXCEPT ![h] = r] /\ handler[h].pc = "list" /\ holder = Nobody
      /\ list' = [list EXCEPT !.valid = FALSE] /\ dropped' = listing
      /\ UNCHANGED <<listing, report, file, seen, tokens, theirs, stats, holder, collector,
                     silent, replaced>>
  BY DEF DropList, ListFree, Goto, At, bucket, tokenVars
<1>4. /\ handler' \in [Handler -> Handlers] /\ handler'[h] = r
      /\ \A g \in Handler \ {h} : handler'[g] = handler[g]
  BY <1>2, <1>3, Moved DEF Inv
<1>5. list' \in Entry /\ ~list'.valid
  BY <1>3 DEF Inv, TypeOK, Entry
<1>6. \A g \in Handler : handler[g].pc # "finish" /\ handler'[g].pc # "finish"
  BY <1>2, <1>3, <1>4, HandlersAssumption DEF Inv, TypeOK, At
<1>7. TypeOK'
  BY <1>3, <1>4, <1>5, <1>6 DEF Inv, TypeOK, At
<1>8. TokensOK'
  BY <1>1, <1>2, <1>3, <1>4 DEF Inv, TokensOK, At
<1>9. FetchOK'
  BY <1>3, <1>5, <1>6, BoundsAssumption DEF Inv, TypeOK, FetchOK, At
<1>10. NoticeOwed'
  BY <1>5, <1>6 DEF NoticeOwed, Stale, At
<1> QED
  BY <1>7, <1>8, <1>9, <1>10 DEF Inv

LEMMA ListFetchInv ==
  ASSUME Inv, NEW h \in Handler, ListFetch(h)
  PROVE  Inv'
<1> DEFINE r == [handler[h] EXCEPT !.pc = "finish", !.got = listing]
<1>1. handler[h] \in Handlers /\ handler[h].token <= tokens /\ listing \in 0 .. MaxListing
  BY HandlerType DEF Inv, TokensOK, TypeOK
<1>2. r \in Handlers /\ r.pc = "finish" /\ r.token = handler[h].token /\ r.got = listing
  BY <1>1 DEF Handlers
<1>3. /\ handler' = [handler EXCEPT ![h] = r] /\ handler[h].pc = "work" /\ holder = Nobody
      /\ holder' = h
      /\ UNCHANGED <<listing, report, file, seen, tokens, theirs, list, stats, collector,
                     dropped, silent, replaced>>
  BY DEF ListFetch, Asked, At, bucket, tokenVars
<1>4. /\ handler' \in [Handler -> Handlers] /\ handler'[h] = r
      /\ \A g \in Handler \ {h} : handler'[g] = handler[g]
  BY <1>2, <1>3, Moved DEF Inv
<1>5. \A g \in Handler : handler[g].pc # "finish"
  BY <1>3, HandlersAssumption DEF Inv, TypeOK, At
<1>6. \A g \in Handler : holder' = g <=> handler'[g].pc = "finish"
  BY <1>2, <1>3, <1>4, <1>5
<1>7. TypeOK'
  BY <1>3, <1>4, <1>6 DEF Inv, TypeOK, At
<1>8. TokensOK'
  BY <1>1, <1>2, <1>3, <1>4 DEF Inv, TokensOK, At
<1>9. FetchOK'
  BY <1>2, <1>3, <1>4, <1>5 DEF Inv, FetchOK, At
<1>10. NoticeOwed'
  <2>1. Stale' => Stale
    BY <1>2, <1>3, <1>4, <1>5 DEF Stale, At
  <2>2. Owing => Owing'
    BY <1>3, <1>4 DEF Owing, At
  <2> QED
    BY <1>3, <2>1, <2>2 DEF Inv, NoticeOwed
<1> QED
  BY <1>7, <1>8, <1>9, <1>10 DEF Inv

\* The fetched list is stored: it is out of date if and only if the fetch was.
LEMMA StoreListInv ==
  ASSUME Inv, NEW h \in Handler, At(h, "finish"), NEW s \in Entry, StoreList(h, s),
         stats' \in Entry
  PROVE  Inv'
<1>1. /\ handler' = [handler EXCEPT ![h] = Idle] /\ handler[h].pc = "finish"
      /\ holder' = Nobody
      /\ list' = [valid |-> TRUE, fresh |-> TRUE, listing |-> handler[h].got,
                  report |-> IF s.valid THEN s.report ELSE 0]
      /\ UNCHANGED <<listing, report, file, seen, tokens, theirs, collector, dropped, silent,
                     replaced>>
  BY DEF StoreList, Unlock, Done, At, bucket, tokenVars
<1>2. /\ handler' \in [Handler -> Handlers] /\ handler'[h] = Idle
      /\ \A g \in Handler \ {h} : handler'[g] = handler[g]
  BY <1>1, IdleType, Moved DEF Inv
<1>3. list' \in Entry /\ list'.listing = handler[h].got
  <2>1. handler[h].got \in 0 .. MaxListing /\ 0 \in 0 .. MaxReport /\ s.report \in 0 .. MaxReport
    BY HandlerType, BoundsAssumption DEF Inv, Entry
  <2> QED
    BY <1>1, <2>1 DEF Entry
<1>4. \A g \in Handler : handler'[g].pc # "finish"
  BY <1>1, <1>2, IdleType DEF Inv, TypeOK, At
<1>5. TypeOK'
  BY <1>1, <1>2, <1>3, <1>4, HandlersAssumption DEF Inv, TypeOK, At
<1>6. TokensOK'
  <2>1. 0 <= tokens
    BY BoundsAssumption DEF Inv, TypeOK
  <2> QED
    BY <1>1, <1>2, <2>1, IdleType DEF Inv, TokensOK, At
<1>7. FetchOK'
  BY <1>1, <1>3, <1>4 DEF Inv, FetchOK, At
<1>8. NoticeOwed'
  <2>1. Stale' => Stale
    BY <1>1, <1>3, <1>4 DEF Stale, At
  <2>2. Owing => Owing'
    BY <1>1, <1>2 DEF Owing, At
  <2> QED
    BY <1>1, <2>1, <2>2 DEF Inv, NoticeOwed
<1> QED
  BY <1>5, <1>6, <1>7, <1>8 DEF Inv

LEMMA ListStoreInv ==
  ASSUME Inv, NEW h \in Handler, ListStore(h) \/ ListStoreUnread(h)
  PROVE  Inv'
<1>1. stats \in Entry /\ report \in 0 .. MaxReport
  BY DEF Inv, TypeOK
<1>2. StatsAfterGet \in Entry
  BY <1>1 DEF StatsAfterGet, Entry
<1>3. PICK s \in Entry : stats' = s /\ StoreList(h, s) /\ At(h, "finish")
  BY <1>1, <1>2 DEF ListStore, ListStoreUnread
<1> QED
  BY <1>3, StoreListInv

-----------------------------------------------------------------------------
(* Tokens and time. *)

LEMMA PublishInv ==
  ASSUME Inv, NEW h \in Handler, Publish(h)
  PROVE  Inv'
<1> DEFINE r == [handler[h] EXCEPT !.pc = "publish2", !.token = tokens + 1]
<1>1. /\ handler' = [handler EXCEPT ![h] = r] /\ handler[h].pc = "publish"
      /\ tokens < MaxToken /\ tokens' = tokens + 1 /\ file' = tokens + 1
      /\ replaced' = (replaced \/ (theirs /\ file # seen)) /\ theirs' = FALSE
      /\ UNCHANGED <<listing, report, seen, list, stats, holder, collector, dropped, silent>>
  BY DEF Publish, At, bucket, cacheVars
<1>2. tokens \in Nat /\ tokens + 1 \in 0 .. MaxToken
  BY <1>1, BoundsAssumption DEF Inv, TypeOK
<1>3. r \in Handlers /\ r.pc = "publish2" /\ r.token = tokens + 1
  BY <1>2, HandlerType DEF Inv, Handlers
<1>4. /\ handler' \in [Handler -> Handlers] /\ handler'[h] = r
      /\ \A g \in Handler \ {h} : handler'[g] = handler[g]
  BY <1>1, <1>3, Moved DEF Inv
<1>5. TypeOK'
  <2>1. file' \in 0 .. tokens' /\ seen' \in 0 .. tokens' /\ tokens' \in 0 .. MaxToken
    BY <1>1, <1>2 DEF Inv, TypeOK
  <2>2. \A g \in Handler : holder' = g <=> handler'[g].pc = "finish"
    BY <1>1, <1>3, <1>4 DEF Inv, TypeOK, At
  <2>3. {theirs', silent', replaced'} \subseteq BOOLEAN
    BY <1>1 DEF Inv, TypeOK
  <2> QED
    BY <1>1, <1>4, <2>1, <2>2, <2>3 DEF Inv, TypeOK, At
<1>6. TokensOK'
  <2> SUFFICES ASSUME NEW g \in Handler PROVE handler'[g].token <= tokens + 1
    BY <1>1 DEF TokensOK
  <2>1. handler[g].token \in Nat /\ handler[g].token <= tokens
    BY HandlerType, BoundsAssumption DEF Inv, TokensOK
  <2>2. CASE g = h
    <3>1. handler'[g].token = tokens + 1
      BY <1>3, <1>4, <2>2 DEF r
    <3> QED
      BY <1>2, <3>1
  <2>3. CASE g # h
    <3>1. handler'[g].token = handler[g].token
      BY <1>4, <2>3
    <3> QED
      BY <1>2, <2>1, <3>1
  <2> QED
    BY <2>2, <2>3
<1>7. FetchOK'
  BY <1>1, <1>3, <1>4 DEF Inv, FetchOK, At
<1>8. NoticeOwed'
  <2>1. Stale' => Stale
    BY <1>1, <1>3, <1>4 DEF Stale, At
  <2>2. CASE theirs /\ file # seen
    BY <1>1, <2>2 DEF NoticeOwed
  <2>3. CASE ~(theirs /\ file # seen)
    <3>1. Owing => Owing'
      BY <1>1, <1>4, <2>3 DEF Owing, At
    <3>2. ~replaced' => ~replaced
      BY <1>1
    <3> QED
      BY <1>1, <2>1, <3>1, <3>2 DEF Inv, NoticeOwed
  <2> QED
    BY <2>2, <2>3
<1> QED
  BY <1>5, <1>6, <1>7, <1>8 DEF Inv

LEMMA AgeInv ==
  ASSUME Inv, AgeList \/ AgeStats
  PROVE  Inv'
<1>1. /\ UNCHANGED <<listing, report, file, seen, tokens, theirs, holder, handler, collector,
                     dropped, silent, replaced>>
      /\ list' \in Entry /\ stats' \in Entry
      /\ list'.valid = list.valid /\ list'.listing = list.listing
  BY DEF Inv, TypeOK, Entry, AgeList, AgeStats, bucket, tokenVars
<1>2. TypeOK'
  BY <1>1 DEF Inv, TypeOK, At
<1>3. TokensOK' /\ FetchOK' /\ NoticeOwed'
  BY <1>1 DEF Inv, TokensOK, FetchOK, NoticeOwed, Stale, Owing, At
<1> QED
  BY <1>2, <1>3 DEF Inv

-----------------------------------------------------------------------------
(* The collector. *)

\* A step that publishes nothing and leaves nothing that has to be announced.
LEMMA CollectorMoveInv ==
  ASSUME Inv,
         UNCHANGED <<file, seen, tokens, theirs, list, stats, holder, handler, dropped,
                     replaced>>,
         collector' \in {"idle", "mark", "marked", "plan", "sweep", "swept", "report", "last"},
         listing' \in 0 .. MaxListing, listing <= listing', report' \in 0 .. MaxReport,
         silent' \in BOOLEAN, silent => silent',
         \/ silent' \/ collector' \in {"marked", "swept"}
         \/ listing' = listing /\ collector \notin {"marked", "swept"}
  PROVE  Inv'
<1>1. TypeOK'
  <2>1. {theirs', silent', replaced'} \subseteq BOOLEAN
    BY DEF Inv, TypeOK
  <2> QED
    BY <2>1 DEF Inv, TypeOK, At
<1>2. TokensOK'
  BY DEF Inv, TokensOK, At
<1>3. FetchOK'
  <2>1. dropped' <= listing'
    BY BoundsAssumption DEF Inv, TypeOK, FetchOK
  <2> QED
    BY <2>1 DEF Inv, FetchOK, At
<1>4. NoticeOwed'
  <2>1. CASE silent' \/ collector' \in {"marked", "swept"}
    BY <2>1 DEF NoticeOwed, Owing
  <2>2. CASE ~(silent' \/ collector' \in {"marked", "swept"})
    <3>1. listing' = listing /\ collector \notin {"marked", "swept"} /\ ~silent
      BY <2>2
    <3>2. (Stale' => Stale) /\ (Owing => Owing')
      BY <3>1 DEF Stale, Owing, At
    <3> QED
      BY <3>1, <3>2 DEF Inv, NoticeOwed
  <2> QED
    BY <2>1, <2>2
<1> QED
  BY <1>1, <1>2, <1>3, <1>4 DEF Inv

LEMMA CollectorQuietInv ==
  ASSUME Inv, \/ CollectorStarts \/ CollectorChanges \/ CollectorFindsNothing
              \/ CollectorReports \/ CollectorReportFails
  PROVE  Inv'
<1>1. /\ UNCHANGED <<file, seen, tokens, theirs, list, stats, holder, handler, dropped, silent,
                     replaced>>
      /\ collector' \in {"idle", "mark", "marked", "plan", "sweep", "swept", "report", "last"}
      /\ \/ collector' \in {"marked", "swept"}
         \/ listing' = listing /\ collector \notin {"marked", "swept"}
  BY DEF CollectorStarts, CollectorChanges, CollectorFindsNothing, CollectorReports,
         CollectorReportFails, CollectorGoes, bucket, tokenVars, cacheVars
<1>2. listing \in Nat /\ report \in Nat /\ listing <= MaxListing /\ report <= MaxReport
  BY BoundsAssumption DEF Inv, TypeOK
<1>3. listing' \in 0 .. MaxListing /\ listing <= listing' /\ report' \in 0 .. MaxReport
  BY <1>2, BoundsAssumption
     DEF CollectorStarts, CollectorChanges, CollectorFindsNothing, CollectorReports,
         CollectorReportFails, bucket
<1>4. silent \in BOOLEAN
  BY DEF Inv, TypeOK
<1> QED
  BY <1>1, <1>3, <1>4, CollectorMoveInv

\* A collector that does not announce what it has done is remembered.
LEMMA CollectorSilentInv ==
  ASSUME Inv, CollectorPublishFails \/ CollectorStops
  PROVE  Inv'
<1>1. /\ UNCHANGED <<listing, report, file, seen, tokens, theirs, list, stats, holder, handler,
                     dropped, replaced>>
      /\ collector' \in {"idle", "mark", "marked", "plan", "sweep", "swept", "report", "last"}
  BY DEF CollectorPublishFails, CollectorStops, Announcing, CollectorGoes, bucket, tokenVars,
         cacheVars
<1>2. /\ silent' \in BOOLEAN /\ (silent => silent')
      /\ silent' \/ collector \notin {"marked", "swept"}
  BY DEF Inv, TypeOK, CollectorPublishFails, CollectorStops
<1>3. listing \in 0 .. MaxListing /\ listing <= listing /\ report \in 0 .. MaxReport
  BY BoundsAssumption DEF Inv, TypeOK
<1> QED
  BY <1>1, <1>2, <1>3, CollectorMoveInv

\* A new token is in the file, and the proxy has not recorded it.
LEMMA CollectorPublishesInv ==
  ASSUME Inv, CollectorPublishes
  PROVE  Inv'
<1>1. /\ tokens < MaxToken /\ tokens' = tokens + 1 /\ file' = tokens + 1 /\ theirs' = TRUE
      /\ collector' \in {"idle", "mark", "marked", "plan", "sweep", "swept", "report", "last"}
      /\ UNCHANGED <<listing, report, seen, list, stats, holder, handler, dropped, silent,
                     replaced>>
  BY DEF CollectorPublishes, Announcing, CollectorGoes, bucket, cacheVars
<1>2. tokens \in Nat /\ tokens + 1 \in 0 .. MaxToken /\ seen \in 0 .. tokens
  BY <1>1, BoundsAssumption DEF Inv, TypeOK
<1>3. file' \in 0 .. tokens' /\ seen' \in 0 .. tokens' /\ tokens' \in 0 .. MaxToken /\ file' # seen'
  BY <1>1, <1>2
<1>4. TypeOK'
  <2>1. {theirs', silent', replaced'} \subseteq BOOLEAN
    BY <1>1 DEF Inv, TypeOK
  <2> QED
    BY <1>1, <1>3, <2>1 DEF Inv, TypeOK, At
<1>5. TokensOK'
  <2> SUFFICES ASSUME NEW g \in Handler
               PROVE  handler[g].token <= tokens + 1 /\ handler[g].token # tokens + 1
    BY <1>1 DEF TokensOK, At
  <2>1. handler[g].token \in Nat /\ handler[g].token <= tokens
    BY HandlerType, BoundsAssumption DEF Inv, TokensOK
  <2> QED
    BY <1>2, <2>1
<1>6. FetchOK'
  BY <1>1 DEF Inv, FetchOK, At
<1>7. NoticeOwed'
  BY <1>1, <1>3 DEF NoticeOwed, Owing
<1> QED
  BY <1>4, <1>5, <1>6, <1>7 DEF Inv

LEMMA NextInv ==
  ASSUME Inv, [Next]_vars
  PROVE  Inv'
<1>1. CASE Collect
  BY <1>1, CollectorQuietInv, CollectorSilentInv, CollectorPublishesInv DEF Collect
<1>2. ASSUME NEW h \in Handler, Step(h) PROVE Inv'
  <2>1. CASE ChangeFails(h)
    BY <2>1, ChangeInv, AnsweredInv
  <2> QED
    BY <1>2, <2>1, BeginInv, ReadInv, RecordInv, DropListInv, DropStatsInv, AnsweredInv,
       ListFetchInv, ListStoreInv, ChangeInv, UnseenInv, PublishInv, RecordOwnInv DEF Step
<1>3. CASE UNCHANGED vars
  BY <1>3 DEF vars, Inv, TypeOK, TokensOK, FetchOK, NoticeOwed, Stale, Owing, At
<1> QED
  BY <1>1, <1>2, <1>3, AgeInv DEF Next

\* Whenever a list that does not show the bucket as it is can be served or is being made,
\* a handler is about to drop it, a collector is about to publish, or its token waits.
THEOREM Invariant == Spec => []Inv
BY InitInv, NextInv, PTL DEF Spec

\* Type correctness: the mutex of the list is held by the one that fetches it, and every
\* recorded token has been published.
THEOREM TypeCorrect == Spec => []TypeOK
<1>1. Inv => TypeOK
  BY DEF Inv
<1> QED
  BY <1>1, Invariant, PTL

\* Whatever the proxy has changed is in every list it serves after it has dropped the
\* list: a fetch holds the mutex, so none that began before the drop is stored after it.
THEOREM ChangesAreShown == Spec => []OwnChangesShown
<1>1. ASSUME Inv PROVE OwnChangesShown
  <2>1. list.listing \in Int /\ dropped \in Int
    BY <1>1, BoundsAssumption DEF Inv, TypeOK, Entry
  <2> QED
    BY <1>1, <2>1 DEF Inv, FetchOK, OwnChangesShown, Hit
<1> QED
  BY <1>1, Invariant, PTL

\* No order of publishing, reading and recording tokens loses a notice of a collector,
\* unless one that was not recorded is replaced or a collector has announced nothing.
THEOREM NoticesArrive == Spec => []TokensDelivered
<1>1. ASSUME Inv PROVE TokensDelivered
  <2> SUFFICES ASSUME Settled, ~silent, ~replaced, Hit(list), list.listing # listing
               PROVE  FALSE
    BY DEF TokensDelivered
  <2>1. Stale
    BY DEF Stale, Hit
  <2>2. Owing
    BY <1>1, <2>1 DEF Inv, NoticeOwed
  <2> QED
    BY <2>2 DEF Owing, Settled, At
<1> QED
  BY <1>1, Invariant, PTL

-----------------------------------------------------------------------------
(* The list of snapshots keeps the promise of CacheCell, as does every     *)
(* entry of a ttlCache, with the invalidations of requests, sessions and   *)
(* tokens for the explicit operations.                                     *)

\* The cache has one entry for the datastore.
Lists == {"snapshots"}

Cell == INSTANCE CacheCell
          WITH Key     <- Lists,
               version <- [k \in Lists |-> listing],
               cell    <- [k \in Lists |-> IF Hit(list) THEN list.listing ELSE -1],
               floor   <- [k \in Lists |-> dropped]
ListPromise == Cell!Spec

\* A fetch has not read what is not there yet.
NotAhead == \A h \in Handler : At(h, "finish") => handler[h].got <= listing

\* Only ListFetch begins a fetch.
LEMMA FetchBegins ==
  ASSUME TypeOK, NEW h \in Handler, Step(h)
  PROVE  /\ \A g \in Handler \ {h} : handler'[g] = handler[g]
         /\ handler'[h].pc = "finish" => handler'[h].got = listing /\ listing' = listing
<1> USE DEF TypeOK, Handlers
<1>1. CASE ListFetch(h)
  BY <1>1 DEF ListFetch, bucket
<1>2. ASSUME Done(h)
      PROVE  handler'[h].pc = "idle" /\ \A g \in Handler \ {h} : handler'[g] = handler[g]
  BY <1>2 DEF Done, Idle
<1>3. CASE \/ ListHit(h) \/ ListFails(h) \/ ListStore(h) \/ ListStoreUnread(h) \/ ShowStats(h)
           \/ ChangeAppliedUnseen(h) \/ PublishFails(h) \/ RecordOwn(h)
  <2>1. Done(h)
    BY <1>3 DEF ListHit, ListFails, ListStore, ListStoreUnread, StoreList, ShowStats,
                ChangeAppliedUnseen, PublishFails, RecordOwn
  <2> QED
    BY <1>2, <2>1
<1>4. CASE \E k \in Kinds : Begin(h, k)
  BY <1>4 DEF Begin, Idle
<1>5. CASE ReadToken(h) \/ ReadTokenFails(h) \/ Record(h)
  BY <1>5 DEF ReadToken, ReadTokenFails, Record, AfterSync
<1>6. CASE DropList(h) \/ DropStats(h)
  BY <1>6 DEF DropList, DropStats, Goto
<1>7. CASE Change(h) \/ Publish(h)
  BY <1>7 DEF Change, Publish
<1>8. CASE ChangeFails(h)
  BY <1>2, <1>8 DEF ChangeFails
<1> QED
  BY <1>1, <1>3, <1>4, <1>5, <1>6, <1>7, <1>8 DEF Step

LEMMA ListingGrows ==
  ASSUME TypeOK, Next
  PROVE  listing \in Nat /\ listing' \in Nat /\ listing <= listing'
<1>1. listing \in Nat
  BY BoundsAssumption DEF TypeOK
<1>2. listing' \in {listing, listing + 1}
  BY DEF Next, AgeList, AgeStats, Collect, CollectorStarts, CollectorChanges,
         CollectorFindsNothing, CollectorReports, CollectorReportFails, CollectorPublishes,
         CollectorPublishFails, CollectorStops, Step, Begin, ReadToken, ReadTokenFails, Record,
         DropList, DropStats, ListHit, ListFetch, ListFails, ListStore, ListStoreUnread,
         StoreList, ShowStats, Change, ChangeFails, ChangeAppliedUnseen, Publish, PublishFails,
         RecordOwn, bucket
<1> QED
  BY <1>1, <1>2

LEMMA NextNotAhead ==
  ASSUME TypeOK, NotAhead, [Next]_vars
  PROVE  NotAhead'
<1>1. CASE UNCHANGED vars
  BY <1>1 DEF vars, NotAhead, At
<1>2. ASSUME Next, handler' = handler PROVE NotAhead'
  BY <1>2, ListingGrows, HandlerType DEF NotAhead, At
<1>3. ASSUME NEW h \in Handler, Step(h) PROVE NotAhead'
  <2> SUFFICES ASSUME NEW g \in Handler, handler'[g].pc = "finish"
               PROVE  handler'[g].got <= listing'
    BY DEF NotAhead, At
  <2>1. listing \in Nat /\ listing' \in Nat /\ listing <= listing'
    BY <1>3, ListingGrows DEF Next
  <2>2. handler[g].got \in Nat
    BY HandlerType, BoundsAssumption
  <2>3. handler'[g] = handler[g] \/ handler'[g].got = listing
    BY <1>3, FetchBegins
  <2>4. CASE handler'[g] = handler[g]
    BY <2>1, <2>2, <2>4 DEF NotAhead, At
  <2> QED
    BY <2>1, <2>3, <2>4
<1>4. ASSUME AgeList \/ AgeStats \/ Collect PROVE handler' = handler
  BY <1>4 DEF AgeList, AgeStats, Collect, CollectorStarts, CollectorChanges,
              CollectorFindsNothing, CollectorReports, CollectorReportFails,
              CollectorPublishes, CollectorPublishFails, CollectorStops
<1> QED
  BY <1>1, <1>2, <1>3, <1>4 DEF Next

LEMMA InitPromise == Init => NotAhead /\ Cell!Init
<1> SUFFICES ASSUME Init PROVE NotAhead /\ Cell!Init
  OBVIOUS
<1>1. NotAhead
  BY DEF Init, NotAhead, At, Idle
<1>2. ~Hit(list) /\ listing = 0 /\ dropped = 0
  BY DEF Init, Hit
<1> QED
  BY <1>1, <1>2 DEF Cell!Init, Cell!Absent

\* Nothing that is served, and nothing in the bucket, has changed.
LEMMA Stutter ==
  ASSUME UNCHANGED <<listing, list, dropped>>
  PROVE  UNCHANGED Cell!vars
BY DEF Cell!vars, Hit

LEMMA MutatePromise ==
  ASSUME listing' = listing + 1, UNCHANGED <<list, dropped>>
  PROVE  Cell!Next
<1>1. Cell!Mutate("snapshots")
  BY DEF Cell!Mutate, Lists, Hit
<1> QED
  BY <1>1 DEF Cell!Next, Lists

LEMMA StorePromise ==
  ASSUME Inv, NotAhead, NEW h \in Handler, ListStore(h) \/ ListStoreUnread(h)
  PROVE  Cell!Next
<1>1. /\ At(h, "finish") /\ UNCHANGED <<listing, dropped>>
      /\ Hit(list)' /\ list'.listing = handler[h].got
  BY DEF ListStore, ListStoreUnread, StoreList, Hit, bucket
<1>2. handler[h].got \in Nat /\ dropped \in Nat /\ listing \in Nat
  BY HandlerType, BoundsAssumption DEF Inv, TypeOK
<1>3. handler[h].got \in dropped .. listing
  BY <1>1, <1>2 DEF Inv, FetchOK, NotAhead
<1>4. Cell!Fill("snapshots")
  BY <1>1, <1>3 DEF Cell!Fill, Lists
<1> QED
  BY <1>4 DEF Cell!Next, Lists

LEMMA AgePromise ==
  ASSUME TypeOK, AgeList
  PROVE  Cell!Next
<1>1. ~Hit(list)' /\ UNCHANGED <<listing, dropped>>
  BY DEF TypeOK, Entry, AgeList, Hit, bucket
<1>2. Cell!Forget("snapshots")
  BY <1>1 DEF Cell!Forget, Cell!Absent, Lists
<1> QED
  BY <1>2 DEF Cell!Next, Lists

LEMMA DropPromise ==
  ASSUME TypeOK, NEW h \in Handler, DropList(h)
  PROVE  Cell!Next
<1>1. ~Hit(list)' /\ listing' = listing /\ dropped' = listing
  BY DEF TypeOK, Entry, DropList, Hit, bucket
<1>2. Cell!Drop("snapshots")
  BY <1>1 DEF Cell!Drop, Cell!Absent, Lists
<1> QED
  BY <1>2 DEF Cell!Next, Lists

LEMMA NextPromise ==
  ASSUME Inv, NotAhead, [Next]_vars
  PROVE  [Cell!Next]_(Cell!vars)
<1>1. CASE UNCHANGED vars \/ AgeStats
  BY <1>1, Stutter DEF vars, AgeStats, bucket
<1>2. CASE AgeList
  BY <1>2, AgePromise DEF Inv
<1>3. CASE Collect
  <2>1. /\ UNCHANGED <<list, dropped>>
        /\ listing' = listing \/ listing' = listing + 1
    BY <1>3 DEF Collect, CollectorStarts, CollectorChanges, CollectorFindsNothing,
                CollectorReports, CollectorReportFails, CollectorPublishes,
                CollectorPublishFails, CollectorStops, bucket, cacheVars
  <2> QED
    BY <2>1, Stutter, MutatePromise
<1>4. ASSUME NEW h \in Handler, Step(h) PROVE Cell!Next \/ UNCHANGED Cell!vars
  <2>1. CASE DropList(h) \/ ListStore(h) \/ ListStoreUnread(h)
    BY <2>1, DropPromise, StorePromise DEF Inv
  <2>2. CASE Change(h) \/ ChangeAppliedUnseen(h)
    BY <2>2, MutatePromise DEF Change, ChangeAppliedUnseen, cacheVars
  <2>3. CASE ~(\/ DropList(h) \/ ListStore(h) \/ ListStoreUnread(h) \/ Change(h)
               \/ ChangeAppliedUnseen(h))
    <3>1. UNCHANGED <<listing, list, dropped>>
      BY <1>4, <2>3 DEF Step, Begin, ReadToken, ReadTokenFails, Record, DropStats, ListHit,
                        ListFetch, ListFails, ServedOnError, ShowStats, ChangeFails, Publish,
                        PublishFails, RecordOwn, bucket, cacheVars
    <3> QED
      BY <3>1, Stutter
  <2> QED
    BY <2>1, <2>2, <2>3
<1> QED
  BY <1>1, <1>2, <1>3, <1>4 DEF Next

\* snapshotListCache implements CacheCell under every interleaving of requests, sessions
\* and collectors: whoever changes the bucket, a list that is served was read from the
\* bucket, and not before the last invalidation, by the proxy itself or for a token.
THEOREM ListKeepsPromise == Spec => ListPromise
<1>1. Spec => []NotAhead
  <2>1. Inv => TypeOK
    BY DEF Inv
  <2> QED
    BY <2>1, InitPromise, NextNotAhead, Invariant, PTL DEF Spec
<1> QED
  BY <1>1, InitPromise, NextPromise, Invariant, PTL DEF Spec, ListPromise, Cell!Spec
=============================================================================
