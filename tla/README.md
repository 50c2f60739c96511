# A TLA+ model of pmoxs3backuproxy

pmoxs3backuproxy lets Proxmox VE back up to an S3 bucket through the Proxmox
Backup Server protocol. This directory models the parts of it whose correctness
depends on interleaving, failure and order, checks them with TLC on small
instances and proves the main results with TLAPS for every value of the
constants. Source paths below are relative to `src/`.

## 1. Inventory

### Components

| Component | State | Operations | Status |
|---|---|---|---|
| Backup and restore sessions (`cmd/pmoxs3backuproxy/http2.go`, `main.go`) | snapshot, writers and their assignments, known chunk sizes, `Finished` | `/previous`, index create/assign/close, chunk upload, `/blob`, `/download`, `/chunk`, `/finish`, disconnection and clean-up | `Datastore`, `IndexAssembly` (partly) |
| Chunk upload coalescing (`chunk_upload.go`) | table of calls in progress | lead, follow, drain, stat, put, finish | `ChunkFlight`, `ChunkStore` |
| Datastore session lock, signals (`http2.go`, `signal.go`) | count per bucket, number of sessions, inter-process lock, ignored signals | begin, end, exit | `SessionLock`, `DatastoreLock` |
| Garbage collector (`cmd/garbagecollector/main.go`, `gc.go`) | listings, plan | lock, list, refresh protection, plan, mark corrupted, remove in three steps | `Datastore`, `Retention`, `Tags` |
| Snapshot helpers (`internal/s3pmoxcommon/s3pmoxcommon.go`) | none | list, latest, delete, tags | `Datastore`, `Tags` (partly) |
| Management API (`main.go`) | none beyond the bucket | delete, notes, protection, log, listings, status | `Datastore`, `Tags`, `CacheInvalidation` |
| TTL caches and invalidation token (`cache.go`, `cache_invalidation.go`) | entries with generations, seen tokens, token file | Get, GetAsync, Peek, Store, Invalidate, InvalidatePrefix, Expire, publish, sync | `TTLCache`, `CacheCell`, `CacheInvalidation` |
| Usage and sizes (`sizes.go`, `stats.go`, `indexsize.go`, `manifest.go`) | caches, report object | compute, look up, decorate | `UsageReport` (partly) |
| Index formats (`main.go`, `gc.go`, `indexsize.go`) | none | assemble, check, parse, size | `IndexAssembly` |
| Tickets (`main.go`) | tickets, clients per user | issue, expire | `Tickets` |
| Connection upgrade (`hijack.go`) | bytes read ahead | take over, replay | `Upgrade` |
| Storage classes, logging, test client | - | - | not modelled |

### How they interact

- Sessions, user requests and the collector share one bucket; S3 has no
  transactions, so every object write and removal is a step of its own.
- Sessions and the collector exclude each other with one inter-process lock per
  bucket. The proxy takes it with the first session and returns it with the last.
- User requests (delete, protect, notes, log) take no lock.
- Chunk uploads of all sessions meet in one table of calls in progress, and the
  requests of one connection share its HTTP/2 receive window.
- The collector tells the proxy to drop caches through a token file, into which
  the proxy writes too. The fetch of the cached list of snapshots reads through
  another cache, the one of the collector's report.
- The collector decides by tags that requests read, change and write back.
- A hijacked connection becomes a session; what the HTTP/1.1 server has read of it
  must reach the HTTP/2 server.

### What is hard

Handlers that outlive their connection, a collector that stops between two
removals, chunks whose age no longer protects them, incremental backups that
rely on data of a snapshot which is removed meanwhile, followers of a leader
that fails, a mutex held while polling, refreshes that arrive after an
invalidation, invalidations in the wrong order or overwritten, requests that
overlap on one tag set or one unsynchronised map, a byte read by the wrong
reader, machine words that wrap around. `PROJECT.json` lists every hazard at its
line, with the properties that would catch it.

### What makes each component correct

- *Bucket*: no index references a removed chunk; what a session was told is
  stored stays stored; a finished snapshot stays restorable, and usable for
  incremental backups, until its owner gives it up.
- *Lock*: any number of sessions or one collector per bucket; nobody waits for ever.
- *Chunk uploads*: success means stored; duplicates are coalesced; every request
  is answered.
- *Caches*: after an invalidation no older value is served; upstream is asked by
  one caller at a time; announced changes are seen, and others in the end.
- *Tags*: a note does not change the protection; an acknowledged protection counts.
- *Index formats*: what is assembled is the client's archive, and the sizes read from
  it are the archive's.
- *Retention*: the verdict is the one of unbounded arithmetic.
- *Report*: exclusive is what a deletion would free; the list shows the chosen figure,
  or what was looked up.
- *Tickets*: a failing login harms nobody else; tickets last their time, and end.
- *Upgrade*: no byte is lost or moved.

## 2. Modules

| Module | Content |
|---|---|
| `Datastore` | one bucket, its sessions, user requests and collector; properties and inductive invariants |
| `DatastoreProofs` | theorems about `Datastore` |
| `DatastoreLock` | abstract specification: a shared/exclusive lock per bucket |
| `SessionLock` | how proxy, collector and operating system implement it |
| `SessionLockProofs` | theorems about `SessionLock`, refinement included |
| `ChunkStore` | abstract specification: what an upload of a chunk promises |
| `ChunkFlight` | coalesced chunk uploads over HTTP/2 connections |
| `ChunkFlightProofs` | theorems about `ChunkFlight`, refinement of `ChunkStore` included |
| `CacheCell` | abstract specification: what a cache promises |
| `TTLCache` | `ttlCache`: Get, GetAsync, Peek, Store and the three invalidations, with their mutexes |
| `TTLCacheProofs` | theorems about `TTLCache`, refinement of `CacheCell` included |
| `CacheInvalidation` | the caches of one datastore, the token file, requests, sessions and a collector |
| `CacheInvalidationProofs` | theorems about `CacheInvalidation`, refinement of `CacheCell` included |
| `Tags` | notes and protection of one snapshot against a collector |
| `IndexAssembly` | assignments of one archive, the index made of them, its readers |
| `Retention` | retention and grace period on machine words |
| `KeepingProofs` | theorems about what keeps data from the collector: `Tags` and `Retention` |
| `Sums` | sums over sets |
| `UsageReport` | the collector's report, the pools and the sizes of the list |
| `Tickets` | logins, the table of clients, the sweep of tickets |
| `Upgrade` | the bytes of a hijacked connection |
| `AccessProofs` | theorems about the way into the proxy: `Upgrade` and `Tickets` |
| `SizesProofs` | theorems about `IndexAssembly` and `UsageReport`, and the lemmas about sums they share |
| `MC*` | instances for TLC |

### Datastore

State: `files[s]` and `idx[s]` are the objects under a snapshot's prefix and the
content of its index, `indexed` the copies under `indexed/`, `chunks` the
chunks (`fresh`: within the grace period), `tagged` the protected snapshots,
`expired` those past retention. `st`, `snap`, `known`, `sized`, `base`, `op`,
`acks`, `finished` are the sessions, `late` the writes that outlived theirs,
`gpc`, `inv`, `plan` the collector. The remaining variables are history.

| Action | Code |
|---|---|
| `OpenBackup`, `OpenRestore` | `backup`, `restore` after the upgrade, with the lock |
| `Previous` | `GET /previous`, through `GetLatestSnapshot` |
| `UploadChunk`, `UploadChunkUnacknowledged` | `storeChunk` as the client sees it |
| `FixedClose`, `FixedCloseReuse`, `DynamicClose`, `UploadManifest` | up to the first S3 write of the handler |
| `FinishWrite`, `FailWrite` | that write, then the copy to `indexed/` or the `.csjson` |
| `Finish`, `Disconnect`, `RemoveIncomplete`, `EndSession` | the end of a session |
| `LateWrite`, `LateFailure` | a handler still writing after it |
| `ProxyExit` | the process ends with sessions open |
| `UserDelete`, `UploadBackupLog`, `ToggleProtection` | management API |
| `Gc...` | the collector's `main`, `buildGCPlan`, `executeGCPlan` |
| `Expire`, `AgeChunk`, `LoseChunk` | time, and loss in the object store |

Abstractions:

- All snapshots are of one backup group and are named by their `BackupTime`;
  chunks are shared across groups, so one group already has every conflict
  between snapshots, while `GetLatestSnapshot` never crosses groups.
- An index is the set of digests it references, and stands for its checksum.
  Offsets, holes and sizes are the matter of `IndexAssembly`.
- A snapshot has one archive, fixed or dynamic, fixed by `Dynamic`.
- The client follows the protocol: it assigns only digests it uploaded or found
  in the previous index, waits for the answer to a close or a blob before the
  next request of that kind, and finishes when it has its answers. PVE locks a
  guest during its backup, so two backups never write one prefix at once.
- `Delete` and the collector's removals take away any subset of what was listed:
  this covers failed removals and objects written behind the listing.
- When the proxy exits, a write in flight has landed or never does.
- A chunk put whose request was cancelled may still be stored
  (`UploadChunkUnacknowledged`); one that lands after its session adds a chunk
  nothing references and that no plan contains, and is left out.
- Reading a previous index and its sizes is one step; so is one user request.

### DatastoreLock and SessionLock

`locks`, `sessions` are `SessionLocks[..].count` and `Sessions`; `oslock` is the
juju/mutex file lock, freed by the operating system with its holder. `at[x]` is
the goroutine of a session. `SessionsMutex` needs no variable: the only step at
which it stays locked is the poll for the inter-process lock (`at = "poll"`),
and every other holder acquires and releases it within one action. `Signal`,
`HandleSignal` and `Exit` are `handleSignal`; the value it read decides, the exit
is a later step. After an exit the service starts again with fresh counters.

### ChunkStore and ChunkFlight

One upload per request, with a body of `BodySize` units sent as the window of
its connection allows. `Lead`, `Follow`, `Drained`, `Woken`, `FollowerGivesUp`,
`Finish` are `chunkFlightGroup.Do`; `BodyBuffered`, `StatFound`, `Skimmed`,
`StatNotFound`, `PutDone`, `LeaderFails` are `storeBufferedChunk` and, for
requests in `Large`, `storeStreamedChunk`. A body may fail over a live connection too,
being shorter or longer than its request states (`BodyFails`).

`ChunkStore` says what this amounts to: a request is answered as if it had been
handled alone and at once. It finds its chunk, writes it, or fails, in which case it
may have written it. Datastore relies on this when it makes of an upload one
step (`UploadChunk`, `UploadChunkUnacknowledged`) and adds the digest to `known`.

### CacheCell and TTLCache

A cached value is the version of the upstream state it was computed from.
`value`, `valid`, `refreshing`, `gen` are the fields of an entry; `fresh` stands
for `time.Since(fetched) < ttl` and ends with `Age`. `holder[k]` is the mutex of an
entry, kept by `Get` from `GetMiss` to `GetStore`, `GetServeStale` or `GetError`;
`table` is the mutex of the map, kept across steps only by `InvalidatePrefix`.
`GetAnswer` and `BgAnswer` are the moment at which upstream computes its answer:
the state may change before it and after it. `Async` is GetAsync as
`readDataStoreUsageForStatus` uses it, `WaitTimeout` the end of the wait for a
first value. A Peek of that wait that finds nothing changes nothing; `WaitLastPeek` is
the last one, which takes both mutexes like any other and may so outlast the deadline. `bg[p]` is the background refresh `p` has started; a handler starts one
at a time. An entry that does not exist yet is one that is not valid.

`CacheCell` says what this is for: the value served without an upstream call is not
older than the last invalidation, or than the value stored last.

### CacheInvalidation

Two caches are enough to show what order does: the list of snapshots, and the report
its fetch reads. Their entries hold the versions they were made from. `Begin`,
`ReadToken`, `Record` are `syncDataStoreCacheInvalidation`; `DropList`, `DropStats`
`invalidateDataStoreCachesLocal`; `Publish`, `RecordOwn` the announcement of a
change; `ChangeAppliedUnseen` a write that S3 has applied and reported as failed, which
nobody announces; `Collector...` the collector's `main`, which announces each marker, the
sweep before and after, and the report. A read of one object with the entry's mutex
held is one step; the fetch of the list is two (`ListFetch`, `ListStore`). The file
is replaced by `rename`, so a reader sees the old token or the new one. The used
space and the caches of immutable objects depend on no other cache; dropping them
is part of `DropStats`.

### Tags

`ReadForNote` and `ReadForProtect` read the tag set and change the copy, `Written`,
`WriteTimed` and `WriteFails` are the outcomes of `PutObjectTagging`. `NilMap` is what
becomes of PUT notes when the tags cannot be read: the assignment to a nil map panics
and net/http ends the request. PUT protected toggles, whatever it is sent. The
collector's listing may or may not carry tags; `GcRefresh` reads them again.

### IndexAssembly

Chosen at the start: the kind of archive, its content, the index to reuse and which
blocks are sent. Requests store their assignments one at a time; `Clash` is the data
race of two on one map, with any loss, `ClashNoticed` the runtime's abort. A checksum
stands for the entries it was computed from. A reused index states its own size
(`baseSize`, one of `BaseSizes`), which the new index keeps (`main.go:1044`): the loop
runs to that size, so assignments beyond it are ignored and blocks that the archive no
longer has stay. The client is well-formed: its lists of digests and offsets are of one
length, offsets are on chunk boundaries (`main.go:1263-1276` refuses others) and digests
are valid hexadecimal (for another the loops answer 400 and store what was decoded).
Whether the `.csjson` or the copy
could be written after the index is in `Datastore`.

### Retention

`SnapshotExpired` and `ChunkVerdict` translate the code with `% 2^w`; `Half`, `Day`
and `Hour` are parameters, so that TLC can try every word of a small width and the
proofs speak of any. The properties compare with the integers. Chunks are written at
a time a word holds, and `time.Time` subtraction does not wrap in that range.

### UsageReport

`CountArchive`, `CountChunk` are the iterations of the loops of `computeUsageStats`, in any
order; `CryptModes`, `ArchiveSizes`, `Receive`, `LookUp`, `Waited`, `AddSizes` the two worker
pools, which have the same shape and are modelled once; `ApplyMode` and `KeepSizes` the choice
of the figure. `options` are the reports that are turned on, in a combination that `main`
accepts (`Accepted`).

### Tickets

A login looks up the table (`Lookup`), enters a client before it is tried
(`NewClient`), reads the table again to list the buckets (`ListBuckets`) and once more for
the ticket (`Attach`). The table is a plain map: another login may replace or remove
the client in between, and the runtime may abort the process (`Abort`). A login that finds
a client of its user in the table is given that client, whatever password it has sent
(`main.go:1650-1652`). The model does the same; no property says that a ticket's client
was made with the key of its own login, and in the code it need not be. Storing the
buckets in `bucketListCache` is `Store` of `TTLCache`.

### Upgrade

The client may send at any time. `ReadRequest` and `BackgroundRead` are net/http,
`Hijack` is `hijackWithBuffered`, `Read` the reads of the HTTP/2 server through
`prefixConn`, of any size.

## 3. Runs

| Run | Instance | Shows |
|---|---|---|
| `concurrent` | 2 sessions at once, 2 dynamic snapshots, 1 chunk, 1 loss | `TypeOK`, both inductive invariants, `LiveSessionsKeepData` |
| `incremental` | 2 snapshots; 2 sessions in turn with 2 chunks, 3 with 1 chunk; with 1 user request or 1 write that outlives its session, 2 sessions and 1 chunk | `NoDanglingIndex`, `SessionKnowledgeHolds`, `OwedIntact` |
| `incomplete` | 1 session | violates `IncompleteIsRemoved` |
| `missing` | 3 snapshots, 1 lost chunk | violates `MissingChunkIsRecreated` |
| `sessions` | the lock: 2 sessions, 2 buckets; or the uploads: 3 requests for one digest, 2 connections, window of one body; fair | `CountsRight`, refinement `KeepsPromise`, `EveryoneServed`; `SuccessMeansStored`, `NeverStuck`, refinement `AsIfAlone`, `AllAnswered` |
| `session_exit` | 2 sessions, 1 bucket | violates `CleanExitAbortsNothing` |
| `ttl_cache` | 1 key, 2 handlers with background refreshes, every operation, 1 change, 1 invalidation, fair | `SingleFlight`, refinement `Promise`, `AllAnswered`, `Converges` |
| `cache_shared` | 2 handlers, a collector, 2 changes, 2 tokens | `OwnChangesShown`, `TokensDelivered` |
| `cache_ttl` | 2 handlers, a collector, 2 reports, fair | `ListConverges` |
| `parts` | six parts, see below, fair | 14 properties of them |
| `protect_failed` | 1 request | violates `KeptThoughWriteFailed` |
| `size_fallback` | 2 snapshots of 1 archive, 1 worker | violates `FallsBackToLogical` |

`sessions` puts two modules into one run that share no state; a behaviour exercises one
of them, the other being over from the start.

`parts` is the run of the components that share no state with each other. Each of
its behaviours exercises one of them, the others being over from the start, so that
the states add up and do not multiply:

| Part | Instance | Shows |
|---|---|---|
| `Tags` | 2 requests, 2 notes, a collector that runs again and again | `SerialTags`, `ProtectionKept` |
| `IndexAssembly` | fixed archives of 3 blocks, the last partial; reused indexes of 2, 3 and 4 blocks; dynamic ones of up to 3 chunks; 2 requests | `StoredAsMeant`, `NoHoleStored` |
| `Retention` | words of 5 bits, every clock, time and flag | `RetentionExact`, `GraceExact` |
| `UsageReport` | 2 snapshots, 3 indexes, 2 chunks, 2 workers, every set of references (the second index of a snapshot holds at most one chunk), the options of the proxy | `ReportExact`, `SizesShown`, `ListEnds` |
| `Tickets` | 3 logins of 1 user, one with a wrong key | `FailureStaysLocal`, `NeverEarly`, `AllExpire` |
| `Upgrade` | 4 bytes | `InOrder`, `Arrives` |

The other passing runs that introduce a module also check its type invariant; those
of the parts are proved.

Bounds. `MaxOpens` sessions, `MaxUserOps` requests, `MaxLate` late writes and
`MaxLost` losses per behaviour; collector runs are unbounded. The smallest
conflicts need: two snapshots that share a chunk, of which one goes (two
snapshots, one chunk); a chunk known to one session and orphaned by another (two
sessions); an incremental backup that keeps part of the previous index (two
chunks); a third session that builds on the second (three sessions); a marked, an
unmarked and a new snapshot (three). The constraint `OneAtATime` of `incremental`
keeps these apart: two sessions with two chunks, three with one, and a user request
or a late write, one at a time, against two sessions, a collector and one chunk, each
explored in full. The proofs remove all of
these bounds.
In `sessions` `CanMove` states the guards of the steps a request has, and
`NeverStuck` speaks of these, since `ENABLED` is not for the prover. Two requests share a connection, one of them streamed, and the
window holds exactly one body, so an unread body stops the other request.
That run does not check deadlock: once every request is answered, or the sessions have
ended, nothing is left to do.

In `ttl_cache` one change and one invalidation suffice for a refresh from before them
to arrive after them. In `cache_shared` two tokens let one replace the other. Two
requests on the tags overlap or follow one another; the proofs are about any number.
Two digests of different size make every wrong order or offset visible. Five bits hold
every carry the guards are about, as `Day` and `Hour` divide no power of two. Two
indexes of one snapshot and one of another are what it takes to tell references from
owners. The parts end by themselves (requests answered, index closed, clock or bytes
at their bound), so `parts` does not check deadlock.

Symmetry is used on session slots, chunks and handlers, in runs without liveness.

### Findings

1. `incomplete`: `http2.go:91` removes the snapshot of a dead connection when
   `ServeConn` returns, which does not wait for handlers; their writes use
   `context.Background()` and land after the removal. The incomplete snapshot is
   back, although its removal was reported. If the write lands after the session
   returned its lock it may also race a collector. `NoDanglingIndex` and
   `SessionKnowledgeHolds` therefore exclude writes that land after a collector
   took the lock in between (`crossed = {}`); any other late write does no harm
   to them. `OwedIntact` excludes the snapshots that a late write belongs to
   (`stray`), since it may overwrite their objects, and no others: a write that
   outlives its session damages at most the snapshot it is for, as long as it does
   not land behind a collector.
2. `missing`: `README.md:388` says that after a missing chunk is found the next
   backup is not incremental and recreates it. Expired snapshots are not examined
   (`gc.go:301`), hence not marked; the sweep that would remove them does not
   happen; and `GetLatestSnapshot` offers the newest unmarked one. The chunk is
   not uploaded again.
3. `session_exit`: `signal.go:34` says a forced exit keeps a failure status. The
   number of sessions is read once; a session that begins before `os.Exit(0)` is
   aborted by a successful exit.
4. `protect_failed`: PUT protected answers 200 when the tag could not be written
   (`main.go:588`), and the collector removes a snapshot that
   `gc.go:161` wants to keep.
5. `size_fallback`: `README.md:116`, `sizes.go:223` and the message at `main.go:270` say
   that a snapshot missing from the report falls back to its logical size. The mode needs
   `-reportgcstats` (`main.go:267`) but not `-reportarchivesize`, without which no logical
   size is looked up: the snapshot is shown with 0.

The exceptions that properties make are behaviours the code has, too:

- `TokensDelivered` excepts a collector's token that the proxy's own announcement
  overwrites before it was read (`cmd/pmoxs3backuproxy/cache_invalidation.go:50`), although
  `s3pmoxcommon/cache_invalidation.go:22` says another process observes a token on its
  next request. The collector's change then stays unnoticed until the TTLs are over.
- `ListConverges`, and no stronger property, is what holds of the report's figures:
  the list is dropped before the report it is made from
  (`cmd/pmoxs3backuproxy/cache_invalidation.go:24`), and a request in between stores a
  list with the old figures. It says that what is served becomes current in the end, and
  bounds no time: a list made late in the TTL of the report is kept for a TTL of its own,
  and one whose refresh fails is served without limit (`cache.go:101`).
- `TokensDelivered` excepts changes that nobody announces (`silent`): a report the collector
  could not announce, or a write that S3 applied and answered with an error
  (`main.go:588`).
- `StoredAsMeant` excepts a reused index of another size than the archive (`main.go:1044`):
  the acknowledged index then has that size, and the client's chunks only in the blocks
  that both have.
- `ProtectionKept` excepts requests that overlap: notes and protection are
  read-modify-write of one tag set (`main.go:493`, `main.go:561`), two that overlap lose
  one, and with it maybe a protection.
- The comment at `cache.go:82` says that an error reaches the caller of `Get` only when
  nothing was ever cached. `Invalidate` clears `valid`, so that `GetError` is taken for a
  key that was cached once.

What the models show of races the code tolerates: two requests that write one
`Assignments` map at the same moment may lose entries, which a fixed index that reuses
none does not survive unnoticed (`NoHoleStored`), while another is stored; two logins of one user that
overlap may give a ticket a client that fails, until that ticket expires
(`FailureStaysLocal` bounds whom it can hit).

### Fairness

- `SessionLock`: strong fairness for a goroutine that waits for `SessionsMutex`,
  because Go's `sync.Mutex` hands over to a waiter that starves; weak fairness for
  the 30 second time-outs and for the exit. Nothing is assumed of clients (a session
  may last for ever) or collectors (one may never end).
- `ChunkFlight`: weak fairness for handlers, for S3 answering, and for a client
  sending while its connection lives; a handler notices a dead connection. No
  time-out is relied upon, since `ChunkS3Timeout` may be 0.
- `TTLCache`: strong fairness for each handler and each background refresh
  (`sync.Mutex` again; upstream calls end, and so does the 2 second wait). `Polling` is
  needed for `Converges` only: pvestatd polls for ever, TTLs elapse, and a refresh that is
  tried again and again succeeds again and again, for an object store that is down for
  good makes nothing current.
- `CacheInvalidation`: TTLs elapse, and a report that is read over and over is read
  with success over and over.
- `UsageReport`, `Upgrade`: goroutines run and S3 answers; in `Upgrade` nothing is
  assumed of the client.
- `Tickets`: time passes, S3 answers and the sweep, a `for` loop with a sleep, goes on.
- `Datastore`, `Tags`, `IndexAssembly`, `Retention` have safety properties only.

## 4. Proofs

Checked by TLAPS, for every value of the constants under the assumptions the
modules state (`Snap` a set of positive numbers, `Dynamic` a subset of it, bounds
natural numbers; `Session` finite in `SessionLock`; `conn`, `key` functions and a
positive window in `ChunkFlight`; `NoNote` not a note in `Tags`; `Day` and `Hour`
positive and smaller than half a word in `Retention`; finitely many snapshots, indexes
and chunks in `UsageReport`, as sums are over finite sets; chunks that are not empty in
`IndexAssembly`; `Nobody` not a handler in `CacheInvalidation`; nothing but a natural
bound in `Upgrade`). `TLC` evaluates the assumptions of every module.

| Theorem | States |
|---|---|
| `DatastoreProofs!TypeCorrect` | `Spec => []TypeOK` |
| `DatastoreProofs!Inductive` | `Spec => []IndInv` |
| `DatastoreProofs!NoDangling` | `Spec => []NoDanglingIndex` |
| `DatastoreProofs!KnowledgeHolds` | `Spec => []SessionKnowledgeHolds` |
| `DatastoreProofs!KeepData` | `Spec => LiveSessionsKeepData` |
| `DatastoreProofs!FinishedStayIntact` | `Spec => []OwedIntact` |
| `DatastoreProofs!RespectsLock` | `Spec => DatastoreLock's Spec`, for one bucket |
| `SessionLockProofs!Counting` | `LockSpec => [](LockTypeOK /\ CountsRight)` |
| `SessionLockProofs!ImplementsLock` | `LockSpec => DatastoreLock's Spec` |
| `DatastoreProofs!OwedInductive` | `Spec => []OwedInv` |
| `SessionLockProofs!TypeCorrect` | `LockSpec => []LockTypeOK` |
| `KeepingProofs!TagsTypeCorrect` | `TagsSpec => []TagsTypeOK` |
| `KeepingProofs!TagsAreSerial` | `TagsSpec => []SerialTags` |
| `KeepingProofs!ProtectionIsKept` | `TagsSpec => []ProtectionKept` |
| `KeepingProofs!RetentionTypeCorrect` | `RetentionSpec => []RetentionTypeOK` |
| `KeepingProofs!RetentionIsExact` | `RetentionSpec => []RetentionExact` |
| `KeepingProofs!GraceIsExact` | `RetentionSpec => []GraceExact` |
| `AccessProofs!UpgradeTypeCorrect` | `UpgradeSpec => []UpgradeTypeOK` |
| `AccessProofs!NothingLost` | `UpgradeSpec => []Conserved` |
| `AccessProofs!ReadInOrder` | `UpgradeSpec => []InOrder` |
| `AccessProofs!TicketsTypeCorrect` | `TicketsSpec => []TicketsTypeOK` |
| `AccessProofs!FailuresStayLocal` | `TicketsSpec => []FailureStaysLocal` |
| `AccessProofs!TicketsLast` | `TicketsSpec => NeverEarly` |
| `TTLCacheProofs!TypeCorrect` | `Spec => []TypeOK` |
| `TTLCacheProofs!AnswersCurrent` | `Spec => []CacheInv` |
| `TTLCacheProofs!FlightsAreSingle` | `Spec => []SingleFlight` |
| `TTLCacheProofs!CacheKeepsPromise` | `Spec => CacheCell's Spec` |
| `TTLCacheProofs!MutexesAreGivenBack` | `Spec => []ShortWaits` |
| `CacheInvalidationProofs!TypeCorrect` | `Spec => []TypeOK` |
| `CacheInvalidationProofs!Invariant` | `Spec => []Inv` |
| `CacheInvalidationProofs!ChangesAreShown` | `Spec => []OwnChangesShown` |
| `CacheInvalidationProofs!NoticesArrive` | `Spec => []TokensDelivered` |
| `CacheInvalidationProofs!ListKeepsPromise` | `Spec => CacheCell's Spec`, for the list of snapshots |
| `SizesProofs!UsageTypeCorrect` | `UsageSpec => []UsageTypeOK` |
| `SizesProofs!ReportIsExact` | `UsageSpec => []ReportExact` |
| `SizesProofs!SizesAreShown` | `UsageSpec => []SizesShown` |
| `SizesProofs!IndexTypeCorrect` | `IndexSpec => []IndexTypeOK` |
| `SizesProofs!IndexIsAsMeant` | `IndexSpec => []StoredAsMeant` |
| `SizesProofs!FixedHasNoHole` | `IndexSpec => []NoHoleStored` |
| `ChunkFlightProofs!TypeCorrect` | `Spec => []TypeOK` |
| `ChunkFlightProofs!SuccessIsStored` | `Spec => []SuccessMeansStored` |
| `ChunkFlightProofs!Coalesced` | `Spec => []UploadedOnce` |
| `ChunkFlightProofs!AnsweredAlone` | `Spec => ChunkStore's Spec` |
| `ChunkFlightProofs!NoDeadlock` | `Spec => []NeverStuck` |

*No dangling index.* `NoDanglingIndex` is not inductive: whether a removal of
chunks is safe depends on what was listed and planned before. `IndInv` adds
`Exclusion` (the collector runs only while every slot is idle, and an idle slot
knows nothing), `ListingsComplete` (until the plan is made, no index exists
that the listings lack) and `PlanSafe` (whatever references a chunk of the plan is
itself in the plan, in a step that comes first). `PlanSafe` shows why a failed step
must stop the run: leaving `sweepBackups` with a removal undone would falsify it.
`SessionKnowledgeHolds` belongs to the invariant, because an index written next is
made of what the session knows, and so does `LateSafe`, its counterpart for a
write whose session has ended: until a collector starts, the chunks of the pending
index are still accounted for.

*Finished snapshots.* `OwedInv` adds `WritersApart` (one writer per snapshot, none
of an owed one), `AcksTrue` (acknowledged parts are in the bucket unless a user
deleted them or a late write for the same snapshot followed) and `OwedSpared` (the
collector has seen every owed snapshot and plans to remove no part of it). Index,
manifest and copy (`Kept`) follow step by step; that the chunks of an owed snapshot
are there is what `NoDanglingIndex` then says of its index (`KeptIntact`).

*Lock.* `CountsRight` relates counts to the sets of sessions served, with the
cardinality theorems for finite sets; the refinement maps the sessions served and
the running collectors to the abstract state. `RespectsLock` maps the live sessions and
the collector of `Datastore` to the same specification, so both models speak of one lock:
the exclusion that `IndInv` starts from is the one `SessionLock` provides.

*Chunk uploads.* `FlightInv` adds that the table holds exactly the leaders, that a
follower's call is in progress or done, that a call done without error left its
digest stored, and that a leader writes only what is not there. Every answer is then a
step of `ChunkStore`, the failure of all requests of a connection one too.
`NeverStuck` needs `WindowInv`: a handler that waits has read its body, so whatever
uses up the window of a live connection belongs to a handler that is about to start,
reads, or waits for S3 only. It is a statement about single states, for any number of
requests and any window, where `AllAnswered` needs fairness and TLC.

*Tags.* `TagsInv` says, as long as no requests have overlapped: the copy of a
request is what it makes of the present tags (`CopyCurrent`), the last PUT protected
to read is the only one whose write may be outstanding (`LatestOK`), a promised
protection is in the tags (`PromiseTrue`), and so it was when the collector read them
(`CollectorSaw`, `RemovedUnkept`).

*Retention.* Three facts of arithmetic carry it: the guard written with a division is
the comparison of the product with the largest word (`Guard`), a number that fits a word
is not changed by the conversion (`Fits`), and a product with a positive factor is
positive exactly when the other factor is (`Products`).

*Upgrade.* `Conserved` is the invariant: what was read, what is to be replayed, what
is buffered, the byte of the background read and what is on the wire are, in this
order, what was sent. `InOrder` is a consequence, as what was read is a prefix.

*TTL cache.* `CacheInv` says why an answer on its way may be stored. One that `Get`
brings is not older than the last explicit operation (`FetchOK`), because the mutex of
the entry keeps invalidations out until it is stored. One of a background refresh is so
only as long as its generation is that of the entry (`RefreshOK`), which is what the
refresh compares. `OneRefresh` needs that the flag of an entry is set while its refresh
runs, and that no other refresh clears it. The refinement maps an entry to its value while
it is a hit, and to nothing otherwise; every step of the code is then one step of
`CacheCell` or none. `InvalidatePrefix` drops one entry at a time, hence one per step.
`ShortWaits` follows from `TypeOK`: the mutex of an entry is held by one that waits for
upstream only, and that of the table by `InvalidatePrefix`, which waits for entries.

*Invalidation.* `OwnChangesShown` follows from `FetchOK`: neither the list nor what a
fetch has read is older than the last drop. `TokensDelivered` follows from `NoticeOwed`:
while a list that is not current can be served or is being made, somebody owes an
invalidation (a handler about to drop, a collector about to publish, or its unrecorded
token), unless one of the two exceptions has happened. A request that records its own
token must not thereby hide a collector's, for which `TokensOK` says that they differ.
`ListKeepsPromise` maps the list to one cell of `CacheCell`, with `dropped` for its floor,
so this model of a cache and that of `TTLCache` keep one promise. It needs `FetchOK`, and
that no fetch is ahead of the bucket (`NotAhead`).

*Tickets.* `TicketsInv` says of logins under way at once that each has met the other
(`OverlapOK`), of a client in the table that cannot list buckets that its login is still
trying it (`TriedOK`), and of a login that finds no client, or a ticket without a working
one, that a login it has met is to blame (`AttachOK`, `IssuedOK`). `NeverEarly` needs the
time of a sweep not to be ahead of the clock, a part of `TicketsTypeOK`, and `ExpireOK`.

*Sums.* `SumOver` folds a finite set in an order that `CHOOSE` picks. That the sum of a set
is an element plus the sum of the rest, whichever element is taken, is `SumTake`; it and the
other lemmas on sums are proved by taking a smallest set, or number, for which the claim
fails (`Smallest`, `Least`), as the induction rules of the library are out of the prover's
reach.

*Report.* `ReportOK` says of each figure that it is the sum over what the loops have
counted so far. The exclusive shares together are at most the total, since a chunk adds to
the share of at most one snapshot. `PoolOK` follows a job of the pools until its result is
in `found`; the sizes are added when no job is left (`Waited`).

*Index.* `SentOK` says that, unless two requests wrote the map at once, an assignment of the
client is still to be sent, being handled, in the map, or one that the reused index has.
When the archive is closed nothing is left to be sent or handled, so the map is complete.
That the ascending offsets of a dynamic archive are the client's, in its order, uses that
`Start` grows (`StartGrows`, chunks are not empty) and that a finite set of numbers has one
ascending enumeration. A reusing index has the entries of its base's size (`Header`, `Kept`):
all of the client's when the sizes agree, and those of the common blocks otherwise. `ObjectOK`
relates the stored object to the entries, and a
fixed index is complete even after a race, because every block is looked up.

Only model-checked: liveness under fairness, which is out of the prover's reach
(`EveryoneServed`, both `AllAnswered`, `Converges`, `ListConverges`, `Arrives`,
`AllExpire`, `ListEnds`), and the five violations. Every other property of a run is proved.

## 5. Not modelled, and why

- Decoding of a manifest blob (`internal/s3pmoxcommon/manifest.go`), provider-specific
  bucket headers and the walk of a bucket (`sizes.go`): sequential parsing of input,
  without state; their results are inputs of `UsageReport` and `TTLCache`.
- Storage classes and S3 options: passed through.
- Logging, the test client, routing, parsing and rendering of HTTP requests.
- `/speedtest`, blobs other than the manifest, and the GETs that change nothing.
