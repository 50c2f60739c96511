------------------------- MODULE CacheInvalidation -------------------------
(***************************************************************************)
(* The caches of one datastore in a proxy, and the token file through      *)
(* which a collector in another process has them invalidated.              *)
(*                                                                         *)
(* Two caches matter: the list of snapshots, and the collector's usage     *)
(* report, which the fetch of the list reads through its own cache.  The   *)
(* entries of the other caches are keyed by objects that do not change, or *)
(* (the used space) depend on no other cache: TTLCache covers them.  An    *)
(* upstream state is a version number.                                     *)
(*                                                                         *)
(* A step ends where another goroutine could change what comes next.  A    *)
(* Get that holds the mutex of its entry and reads one upstream object is  *)
(* one step, for nobody sees the entry meanwhile; the fetch of the list    *)
(* reads two objects and is two.                                           *)
(***************************************************************************)
EXTENDS Integers, FiniteSets

CONSTANTS
  Handler,     \* goroutines of the proxy that serve requests and sessions
  Nobody,      \* holder of the list's mutex when it is free
  Kinds,       \* what the handlers are asked to do
  MaxListing,  \* bound: changes of the snapshots of the bucket
  MaxReport,   \* bound: reports written by collectors
  MaxToken     \* bound: tokens published

AllKinds == {"list", "stats", "change", "delete", "finish"}

ASSUME HandlersAssumption == Nobody \notin Handler /\ Kinds \subseteq AllKinds
ASSUME BoundsAssumption   == {MaxListing, MaxReport, MaxToken} \subseteq Nat

VARIABLES
  listing,    \* version of the snapshots in the bucket
  report,     \* version of usage-stats.json
  file,       \* token in the shared file; 0 is no file
  seen,       \* cacheInvalidations.seen
  list,       \* entry of snapshotListCache, with the versions it was made from
  stats,      \* entry of usageStatsCache
  holder,     \* who holds the mutex of the list entry
  handler,    \* handler[h]: where h is, and what it has read
  collector,  \* where the collector is
  tokens,     \* tokens published so far
  dropped,    \* history: listing when the list was last invalidated
  theirs,     \* history: the token in the file is a collector's
  silent,     \* history: somebody has changed the bucket and not announced it
  replaced    \* history: a collector's token was replaced before the proxy recorded it

vars == <<listing, report, file, seen, list, stats, holder, handler, collector, tokens,
          dropped, theirs, silent, replaced>>

bucket    == <<listing, report>>
tokenVars == <<file, seen, tokens, theirs>>
cacheVars == <<list, stats, holder>>

Idle == [pc |-> "idle", kind |-> "list", seen |-> 0, token |-> 0, got |-> 0, last |-> FALSE]

Handlers ==
  [pc : {"idle", "token", "record", "list", "stats", "work", "finish", "publish", "publish2"},
   kind : AllKinds, seen : 0 .. MaxToken, token : 0 .. MaxToken, got : 0 .. MaxListing,
   last : BOOLEAN]

Entry == [valid : BOOLEAN, fresh : BOOLEAN, listing : 0 .. MaxListing, report : 0 .. MaxReport]

Hit(e) == e.valid /\ e.fresh

\* Besides ranges: the mutex of the list is held by the one that is fetching it,
\* and a recorded token is one that was published.
TypeOK ==
  /\ listing \in 0 .. MaxListing /\ report \in 0 .. MaxReport
  /\ tokens \in 0 .. MaxToken /\ file \in 0 .. tokens /\ seen \in 0 .. tokens
  /\ list \in Entry /\ stats \in Entry
  /\ holder \in Handler \cup {Nobody}
  /\ handler \in [Handler -> Handlers]
  /\ collector \in {"idle", "mark", "marked", "plan", "sweep", "swept", "report", "last"}
  /\ dropped \in 0 .. MaxListing /\ {theirs, silent, replaced} \subseteq BOOLEAN
  /\ \A h \in Handler : holder = h <=> handler[h].pc = "finish"

Init ==
  /\ listing = 0 /\ report = 0 /\ file = 0 /\ seen = 0
  /\ list = [valid |-> FALSE, fresh |-> FALSE, listing |-> 0, report |-> 0]
  /\ stats = list
  /\ holder = Nobody
  /\ handler = [h \in Handler |-> Idle]
  /\ collector = "idle"
  /\ tokens = 0
  /\ dropped = 0 /\ theirs = FALSE /\ silent = FALSE /\ replaced = FALSE

Goto(h, pc)  == handler' = [handler EXCEPT ![h].pc = pc]
Done(h)      == handler' = [handler EXCEPT ![h] = Idle]
At(h, pc)    == handler[h].pc = pc
Asked(h, K)  == At(h, "work") /\ handler[h].kind \in K

-----------------------------------------------------------------------------
(* Time. *)

AgeList ==
  /\ list.fresh /\ list' = [list EXCEPT !.fresh = FALSE]
  /\ UNCHANGED <<bucket, tokenVars, stats, holder, handler, collector, dropped, silent, replaced>>

AgeStats ==
  /\ stats.fresh /\ stats' = [stats EXCEPT !.fresh = FALSE]
  /\ UNCHANGED <<bucket, tokenVars, list, holder, handler, collector, dropped, silent, replaced>>

-----------------------------------------------------------------------------
(* The beginning of a request: syncDataStoreCacheInvalidation. *)

\* The end of a backup session ("finish") is no API request and does not look at
\* the token.  The others read what was seen, then the file.
Begin(h, k) ==
  /\ At(h, "idle")
  /\ handler' = [handler EXCEPT ![h] =
       IF k = "finish" THEN [Idle EXCEPT !.pc = "work", !.kind = k]
                       ELSE [Idle EXCEPT !.pc = "token", !.kind = k, !.seen = seen]]
  /\ UNCHANGED <<bucket, tokenVars, cacheVars, collector, dropped, silent, replaced>>

\* A snapshot is removed after a first local invalidation.
AfterSync(h) == IF handler[h].kind = "delete" THEN "list" ELSE "work"

NewToken(h) == file # 0 /\ file # handler[h].seen

\* The file is read; the read may fail, and the request goes on.
ReadToken(h) ==
  /\ At(h, "token")
  /\ IF NewToken(h)
       THEN handler' = [handler EXCEPT ![h].pc = "record", ![h].token = file, ![h].seen = 0]
       ELSE handler' = [handler EXCEPT ![h].pc = AfterSync(h), ![h].seen = 0]
  /\ UNCHANGED <<bucket, tokenVars, cacheVars, collector, dropped, silent, replaced>>

ReadTokenFails(h) ==
  /\ At(h, "token")
  /\ handler' = [handler EXCEPT ![h].pc = AfterSync(h), ![h].seen = 0]
  /\ UNCHANGED <<bucket, tokenVars, cacheVars, collector, dropped, silent, replaced>>

Record(h) ==
  /\ At(h, "record")
  /\ seen' = handler[h].token
  /\ handler' = [handler EXCEPT ![h].pc = "list", ![h].token = 0]
  /\ UNCHANGED <<bucket, file, cacheVars, collector, tokens, dropped, theirs, silent, replaced>>

-----------------------------------------------------------------------------
(* invalidateDataStoreCachesLocal: the list first, then the report. *)

\* Mutant: the entry is dropped without its mutex, and then overwritten by a fetch.
AnyTime(h) == TRUE

ListFree(h) == holder = Nobody

DropList(h) ==
  /\ At(h, "list") /\ ListFree(h)
  /\ list' = [list EXCEPT !.valid = FALSE]
  /\ dropped' = listing
  /\ Goto(h, "stats")
  /\ UNCHANGED <<bucket, tokenVars, stats, holder, collector, silent, replaced>>

\* last: the change has been made, what follows is its announcement.
DropStats(h) ==
  /\ At(h, "stats")
  /\ stats' = [stats EXCEPT !.valid = FALSE]
  /\ Goto(h, IF handler[h].last THEN "publish" ELSE "work")
  /\ UNCHANGED <<bucket, tokenVars, list, holder, collector, dropped, silent, replaced>>

-----------------------------------------------------------------------------
(* Requests that read. *)

ListHit(h) ==
  /\ Asked(h, {"list"}) /\ holder = Nobody /\ Hit(list)
  /\ Done(h)
  /\ UNCHANGED <<bucket, tokenVars, cacheVars, collector, dropped, silent, replaced>>

\* listSnapshotsCached: the mutex is kept, the bucket is listed.
ListFetch(h) ==
  /\ Asked(h, {"list"}) /\ holder = Nobody /\ ~Hit(list)
  /\ holder' = h
  /\ handler' = [handler EXCEPT ![h].pc = "finish", ![h].got = listing]
  /\ UNCHANGED <<bucket, tokenVars, list, stats, collector, dropped, silent, replaced>>

\* Mutant: a failed fetch counts as a refresh of what is there.
RestartTTL == [list EXCEPT !.fresh = list.valid]

ServedOnError == list

\* Listing fails: the answer is the last list, or an error.
ListFails(h) ==
  /\ Asked(h, {"list"}) /\ holder = Nobody /\ ~Hit(list)
  /\ list' = ServedOnError
  /\ Done(h)
  /\ UNCHANGED <<bucket, tokenVars, stats, holder, collector, dropped, silent, replaced>>

\* usageStatsCache.Get, used by readUsageStats and s3stats: the entry after a read
\* of the object (version 0: there is none), if it is not a hit.
StatsAfterGet ==
  IF Hit(stats) THEN stats
  ELSE [stats EXCEPT !.valid = TRUE, !.fresh = TRUE, !.report = report]

\* Mutant: the mutex is not released.
KeepMutex(h) == holder' = holder

Unlock(h) == holder' = Nobody

\* The list is stored with the figures of the report, if there is one.
StoreList(h, s) ==
  /\ list' = [valid |-> TRUE, fresh |-> TRUE, listing |-> handler[h].got,
              report |-> IF s.valid THEN s.report ELSE 0]
  /\ Unlock(h)
  /\ Done(h)
  /\ UNCHANGED <<bucket, tokenVars, collector, dropped, silent, replaced>>

ListStore(h) ==
  /\ At(h, "finish") /\ (Hit(stats) \/ report > 0)
  /\ stats' = StatsAfterGet
  /\ StoreList(h, stats')

\* The report cannot be read: the last one is used, if it is valid.
ListStoreUnread(h) ==
  /\ At(h, "finish") /\ ~Hit(stats)
  /\ stats' = stats
  /\ StoreList(h, stats)

ShowStats(h) ==
  /\ Asked(h, {"stats"})
  /\ stats' \in {stats} \cup IF report > 0 THEN {StatsAfterGet} ELSE {}
  /\ Done(h)
  /\ UNCHANGED <<bucket, tokenVars, list, holder, collector, dropped, silent, replaced>>

-----------------------------------------------------------------------------
(* Requests and sessions that change the bucket. *)

\* A note, a protection, a log, a removed snapshot, or the objects of a session.
Change(h) ==
  /\ Asked(h, {"change", "delete", "finish"}) /\ listing < MaxListing
  /\ listing' = listing + 1
  /\ handler' = [handler EXCEPT ![h].pc = "list", ![h].last = TRUE]
  /\ UNCHANGED <<report, tokenVars, cacheVars, collector, dropped, silent, replaced>>

\* Tags and logs that cannot be written announce nothing; a removal and the end
\* of a session announce what may have happened.
ChangeFails(h) ==
  /\ Asked(h, {"change", "delete", "finish"})
  /\ IF handler[h].kind = "change" THEN Done(h)
     ELSE handler' = [handler EXCEPT ![h].pc = "list", ![h].last = TRUE]
  /\ UNCHANGED <<bucket, tokenVars, cacheVars, collector, dropped, silent, replaced>>

\* The write of a tag or a log came back as an error although S3 has applied it:
\* the handler returns all the same, and nobody learns of the change.
ChangeAppliedUnseen(h) ==
  /\ Asked(h, {"change"}) /\ listing < MaxListing
  /\ listing' = listing + 1 /\ silent' = TRUE
  /\ Done(h)
  /\ UNCHANGED <<report, tokenVars, cacheVars, collector, dropped, replaced>>

\* PublishCacheInvalidation: the token replaces the file.
Publish(h) ==
  /\ At(h, "publish") /\ tokens < MaxToken
  /\ tokens' = tokens + 1
  /\ file' = tokens + 1
  /\ replaced' = (replaced \/ (theirs /\ file # seen))
  /\ theirs' = FALSE
  /\ handler' = [handler EXCEPT ![h].pc = "publish2", ![h].token = tokens + 1]
  /\ UNCHANGED <<bucket, seen, cacheVars, collector, dropped, silent>>

PublishFails(h) ==
  /\ At(h, "publish")
  /\ Done(h)
  /\ UNCHANGED <<bucket, tokenVars, cacheVars, collector, dropped, silent, replaced>>

\* Mutant: the file is read again to learn the token.
TokenInFile(h) == file

OwnToken(h) == handler[h].token

RecordOwn(h) ==
  /\ At(h, "publish2")
  /\ seen' = OwnToken(h)
  /\ Done(h)
  /\ UNCHANGED <<bucket, file, cacheVars, collector, tokens, dropped, theirs, silent, replaced>>

-----------------------------------------------------------------------------
(* A collector: marks of corruption, or a sweep and a report. *)

CollectorGoes(from, to) == collector = from /\ collector' = to

CollectorStarts ==
  /\ \E to \in {"mark", "plan"} : CollectorGoes("idle", to)
  /\ UNCHANGED <<bucket, tokenVars, cacheVars, handler, dropped, silent, replaced>>

CollectorChanges ==
  /\ CollectorGoes("mark", "marked") \/ CollectorGoes("sweep", "swept")
  /\ listing < MaxListing /\ listing' = listing + 1
  /\ UNCHANGED <<report, tokenVars, cacheVars, handler, dropped, silent, replaced>>

CollectorFindsNothing ==
  /\ CollectorGoes("sweep", "swept")
  /\ UNCHANGED <<bucket, tokenVars, cacheVars, handler, dropped, silent, replaced>>

\* writeUsageStats; a report that cannot be written is not fatal.
CollectorReports ==
  /\ CollectorGoes("report", "last")
  /\ report < MaxReport /\ report' = report + 1
  /\ UNCHANGED <<listing, tokenVars, cacheVars, handler, dropped, silent, replaced>>

CollectorReportFails ==
  /\ CollectorGoes("report", "last")
  /\ UNCHANGED <<bucket, tokenVars, cacheVars, handler, dropped, silent, replaced>>

Announcing ==
  \/ CollectorGoes("marked", "mark")
  \/ CollectorGoes("mark", "idle") \* every reference is marked: once more, and stop
  \/ CollectorGoes("plan", "sweep") \/ CollectorGoes("swept", "report")
  \/ CollectorGoes("swept", "idle") \* the sweep has failed
  \/ CollectorGoes("last", "idle")

CollectorPublishes ==
  /\ Announcing /\ tokens < MaxToken
  /\ tokens' = tokens + 1
  /\ file' = tokens + 1
  /\ theirs' = TRUE
  /\ UNCHANGED <<bucket, seen, cacheVars, handler, dropped, silent, replaced>>

CollectorPublishFails ==
  /\ Announcing
  /\ silent' = TRUE
  /\ UNCHANGED <<bucket, tokenVars, cacheVars, handler, dropped, replaced>>

\* FatalPrint, or the process is killed.
CollectorStops ==
  /\ collector # "idle" /\ collector' = "idle"
  /\ silent' = (silent \/ collector \in {"marked", "swept", "last"})
  /\ UNCHANGED <<bucket, tokenVars, cacheVars, handler, dropped, replaced>>

-----------------------------------------------------------------------------
Step(h) ==
  \/ \E k \in Kinds : Begin(h, k)
  \/ ReadToken(h) \/ ReadTokenFails(h) \/ Record(h)
  \/ DropList(h) \/ DropStats(h)
  \/ ListHit(h) \/ ListFetch(h) \/ ListFails(h) \/ ListStore(h) \/ ListStoreUnread(h)
  \/ ShowStats(h)
  \/ Change(h) \/ ChangeFails(h) \/ ChangeAppliedUnseen(h)
  \/ Publish(h) \/ PublishFails(h) \/ RecordOwn(h)

Collect ==
  \/ CollectorStarts \/ CollectorChanges \/ CollectorFindsNothing
  \/ CollectorReports \/ CollectorReportFails
  \/ CollectorPublishes \/ CollectorPublishFails \/ CollectorStops

Next == AgeList \/ AgeStats \/ Collect \/ \E h \in Handler : Step(h)

Spec == Init /\ [][Next]_vars

\* Time passes, whatever the handlers and the collector do, and a report that is
\* read again and again is read with success again and again.
AgingSpec ==
  /\ Spec /\ WF_vars(AgeList) /\ WF_vars(AgeStats)
  /\ \A h \in Handler : SF_vars(ListStore(h))

-----------------------------------------------------------------------------
(* Properties. *)

\* A list that is served was read from the bucket after the last invalidation:
\* what the proxy itself has changed is in every list it answers from then on.
OwnChangesShown == Hit(list) => list.listing >= dropped

\* Nothing is going on, and the proxy has recorded the token in the file.
Settled ==
  /\ \A h \in Handler : At(h, "idle")
  /\ collector = "idle" /\ seen = file

\* When nothing goes on, no request is served a list from before a change that a
\* token has announced, whatever the order in which requests, sessions and the
\* collector published, read and recorded tokens; unless a change was announced
\* to nobody, or a token of the collector was replaced by one of the proxy before
\* the proxy had recorded it.
TokensDelivered == Settled /\ ~silent /\ ~replaced /\ Hit(list) => list.listing = listing

\* Once nothing changes any more, the list that is served within its TTL becomes
\* and stays current, in the snapshots and in the figures of the report, even if
\* no token told the proxy: neither an unannounced change nor an old report kept
\* in the other cache is handed on from refresh to refresh.  How long this takes
\* is not said (the TTL of the report and then that of the list), nor is anything
\* said of a list past its TTL, which is served as long as its refresh fails.
ListConverges == <>[](Hit(list) => list.listing = listing /\ list.report \in {0, report})
=============================================================================
