----------------------------- MODULE Datastore -----------------------------
(***************************************************************************)
(* One S3 bucket shared by the proxy's backup and restore sessions and by  *)
(* the garbage collector.                                                  *)
(*                                                                         *)
(* The bucket holds snapshots (objects under backups/<id>|<time>|<type>/), *)
(* copied fixed indexes (indexed/<csum>.fidx) and content-addressed chunks *)
(* (chunks/..).  A session uploads chunks, writes an index that references *)
(* them, writes the manifest and finishes; a session that dies before it   *)
(* finishes has its snapshot removed.  The collector, a separate process,  *)
(* removes expired snapshots, then orphaned copies, then orphaned chunks.  *)
(* Sessions and collector exclude each other with one inter-process lock;  *)
(* module SessionLock models how that lock is reference counted, here it   *)
(* is the guard "no session is live" / "the collector is not running".     *)
(*                                                                         *)
(* Abstractions.  All snapshots belong to one backup group and are named   *)
(* by their BackupTime.  An index is the set of chunk digests it           *)
(* references and stands for its own checksum.  Each snapshot has one      *)
(* archive: a dynamic index (containers) if it is in Dynamic, a fixed      *)
(* index (virtual machines) otherwise.                                     *)
(***************************************************************************)
EXTENDS Naturals, FiniteSets

CONSTANTS
  Snap,      \* snapshots, named by their BackupTime
  Dynamic,   \* the ones whose archive is a .didx
  Chunk,     \* chunk digests
  Session,   \* slots for concurrent HTTP/2 sessions of the proxy
  MaxOpens,  \* bound: sessions opened in a behaviour
  MaxLate,   \* bound: S3 writes that outlive their session
  MaxUserOps,\* bound: requests of the management API in a behaviour
  MaxLost    \* bound: chunks lost by the object store and not yet re-uploaded

ASSUME SnapAssumption    == Snap \subseteq Nat \ {0}
ASSUME DynamicAssumption == Dynamic \subseteq Snap
ASSUME BoundsAssumption  == {MaxOpens, MaxLate, MaxUserOps, MaxLost} \subseteq Nat

VARIABLES
  \* The bucket.
  files,     \* files[s]: the objects under the prefix of snapshot s
  idx,       \* idx[s]: content of its index object, when it has one
  indexed,   \* contents of the copied fixed indexes
  chunks,    \* digests stored under chunks/
  fresh,     \* the ones younger than the collector's grace period
  tagged,    \* snapshots whose manifest carries protected=true
  expired,   \* snapshots older than the retention period
  \* Sessions of the proxy.
  st,        \* st[x]: phase of slot x
  snap,      \* snap[x]: its snapshot
  known,     \* known[x]: digests the client believes are stored
  sized,     \* sized[x]: digests whose size the proxy knows (KnownChunksSizes)
  base,      \* base[x]: previous index handed to the client, {} if none
  op,        \* op[x]: the S3 write a handler of x has in progress
  acks,      \* acks[x]: parts of the snapshot acknowledged to the client, and
             \*   whether a user deleted the snapshot meanwhile
  finished,  \* sessions whose Server.Finished is set
  late,      \* writes whose session has ended
  \* The collector.
  gpc,       \* its program counter
  inv,       \* its listings of the bucket, and the snapshots it will remove
  plan,      \* gcPlan
  \* History, for the properties only.
  opens,     \* sessions opened so far
  userOps,   \* requests of the management API so far
  owed,      \* snapshots a client was told are safe and nobody gave up since
  cleaned,   \* aborted snapshots whose removal reported success
  stray,     \* snapshots some write of which landed after its session ended
  crossed,   \* the ones among them where a collector had run in between
  lost,      \* chunks the object store lost, until they are uploaded again
  marked,    \* snapshots the collector marked corrupted
  noticed    \* lost chunks for which the collector marked every broken snapshot

bucketVars  == <<files, idx, indexed, chunks, fresh, tagged>>
sessionVars == <<st, snap, known, sized, base, op, acks, finished>>
gcVars      == <<gpc, inv, plan>>
historyVars == <<opens, userOps, owed, cleaned, stray, crossed, lost, marked, noticed>>
vars        == <<bucketVars, expired, sessionVars, late, gcVars, historyVars>>

File == {"idx", "csjson", "manifest", "corrupted", "log"}

NoOp   == [step |-> "none", index |-> {}]
Op     == [step : {"put", "copy", "csjson", "manifest"}, index : SUBSET Chunk]
LateOp == [snap : Snap, step : {"put", "copy", "csjson", "manifest"}, index : SUBSET Chunk,
           overrun : BOOLEAN]   \* overrun: a collector has run since the session ended

Phase  == {"idle", "backup", "restore", "closing", "cleaned"}
GcPc   == {"idle", "list", "inventory", "refresh", "plan", "corrupt",
           "sweepBackups", "sweepIndexed", "sweepChunks"}

Inventory == [files : [Snap -> SUBSET File], indexed : SUBSET SUBSET Chunk,
              chunks : SUBSET Chunk, old : SUBSET Chunk, doomed : SUBSET Snap]
Plan      == [backups : SUBSET (Snap \X File), indexed : SUBSET SUBSET Chunk,
              chunks : SUBSET Chunk, missing : SUBSET Chunk, broken : SUBSET Snap]

NoInventory == [files |-> [s \in Snap |-> {}], indexed |-> {}, chunks |-> {},
                old |-> {}, doomed |-> {}]
NoPlan      == [backups |-> {}, indexed |-> {}, chunks |-> {}, missing |-> {}, broken |-> {}]

(***************************************************************************)
(* TypeOK says more than the range of each variable: a tag sits on an      *)
(* existing manifest, only a stored chunk has an age, only fixed archives  *)
(* are copied to indexed/ and only dynamic ones get a .csjson.             *)
(***************************************************************************)
BucketOK ==
  /\ files \in [Snap -> SUBSET File]
  /\ idx \in [Snap -> SUBSET Chunk]
  /\ indexed \subseteq SUBSET Chunk
  /\ chunks \subseteq Chunk
  /\ fresh \subseteq chunks
  /\ tagged \subseteq Snap
  /\ \A s \in tagged : "manifest" \in files[s]
  /\ \A s \in Snap : "csjson" \in files[s] => s \in Dynamic
  /\ expired \subseteq Snap

SessionOK ==
  /\ st \in [Session -> Phase]
  /\ snap \in [Session -> Snap \cup {0}]
  /\ known \in [Session -> SUBSET Chunk]
  /\ sized \in [Session -> SUBSET Chunk]
  /\ base \in [Session -> SUBSET Chunk]
  /\ acks \in [Session -> SUBSET {"idx", "manifest", "deleted"}]
  /\ finished \subseteq Session
  /\ \A x \in Session : st[x] # "idle" => snap[x] \in Snap

WritesOK ==
  /\ op \in [Session -> Op \cup {NoOp}]
  /\ \A x \in Session : op[x] # NoOp => st[x] \in {"backup", "closing", "cleaned"}
  /\ \A x \in Session : op[x].step = "copy" => snap[x] \notin Dynamic
  /\ \A x \in Session : op[x].step = "csjson" => snap[x] \in Dynamic
  /\ late \subseteq LateOp
  /\ \A l \in late : l.step = "csjson" => l.snap \in Dynamic

CollectorOK ==
  /\ gpc \in GcPc
  /\ inv \in Inventory
  /\ plan \in Plan

HistoryOK ==
  /\ opens \in 0 .. MaxOpens
  /\ userOps \in 0 .. MaxUserOps
  /\ owed \subseteq Snap
  /\ cleaned \subseteq Snap
  /\ stray \subseteq Snap
  /\ crossed \subseteq stray
  /\ lost \subseteq Chunk \ chunks
  /\ marked \subseteq Snap
  /\ noticed \subseteq lost

TypeOK == BucketOK /\ SessionOK /\ WritesOK /\ CollectorOK /\ HistoryOK

Init ==
  /\ files = [s \in Snap |-> {}]
  /\ idx = [s \in Snap |-> {}]
  /\ indexed = {} /\ chunks = {} /\ fresh = {} /\ tagged = {} /\ expired = {}
  /\ st = [x \in Session |-> "idle"]
  /\ snap = [x \in Session |-> 0]
  /\ known = [x \in Session |-> {}]
  /\ sized = [x \in Session |-> {}]
  /\ base = [x \in Session |-> {}]
  /\ op = [x \in Session |-> NoOp]
  /\ acks = [x \in Session |-> {}]
  /\ finished = {}
  /\ late = {}
  /\ gpc = "idle" /\ inv = NoInventory /\ plan = NoPlan
  /\ opens = 0 /\ userOps = 0 /\ owed = {} /\ cleaned = {} /\ stray = {} /\ crossed = {}
  /\ lost = {}
  /\ marked = {} /\ noticed = {}

-----------------------------------------------------------------------------
(***************************************************************************)
(* Sessions: opening, and what a client may ask before it writes.          *)
(***************************************************************************)

\* Mutants: a proxy that takes no lock, a collector that runs beside restores.
ProxyNeverWaits == TRUE
RestoresIgnored == \A x \in Session : st[x] \notin {"backup", "closing", "cleaned"}

\* beginDataStoreSession: the lock is free for the proxy, or it holds it.
ProxyMayLock == gpc = "idle"

\* mutex.Acquire in the collector's main: no session of the proxy holds the lock.
CollectorMayLock == \A x \in Session : st[x] = "idle"

\* A new session in phase p on snapshot s.  Two backups of one guest at one
\* BackupTime never run together: PVE locks the guest while it is backed up.
Begin(x, s, p) ==
  /\ st[x] = "idle"
  /\ ProxyMayLock
  /\ opens < MaxOpens
  /\ st' = [st EXCEPT ![x] = p]
  /\ snap' = [snap EXCEPT ![x] = s]
  /\ opens' = opens + 1
  /\ UNCHANGED <<bucketVars, expired, known, sized, base, op, acks, finished, late, gcVars,
                 userOps, stray, crossed, lost, marked, noticed>>

OpenBackup(x, s) ==
  /\ \A y \in Session : st[y] # "idle" => snap[y] # s
  /\ Begin(x, s, "backup")
  /\ owed' = owed \ {s}
  /\ cleaned' = cleaned \ {s}

OpenRestore(x, s) ==
  /\ Begin(x, s, "restore")
  /\ UNCHANGED <<owed, cleaned>>

\* GetLatestSnapshot: the most recent listed snapshot of the group that is not
\* marked corrupted and is not the one being written, if there is one.  Neither
\* the manifest nor the archive's kind is looked at.
Candidates(s) == {t \in Snap \ {s} : files[t] # {} /\ "corrupted" \notin files[t]}
GetLatestSnapshot(s) == {t \in Candidates(s) : \A u \in Candidates(s) : u <= t}

\* GET /previous: the client learns the digests of the previous index, and will
\* not upload them again; the sizes of a dynamic index come from its .csjson.
Previous(x) ==
  \E t \in GetLatestSnapshot(snap[x]) :
    /\ st[x] = "backup" /\ op[x] = NoOp
    /\ "idx" \in files[t]
    /\ t \in Dynamic <=> snap[x] \in Dynamic
    /\ base' = [base EXCEPT ![x] = idx[t]]
    /\ known' = [known EXCEPT ![x] = @ \cup idx[t]]
    /\ sized' = [sized EXCEPT ![x] = @ \cup IF "csjson" \in files[t] THEN idx[t] ELSE {}]
    /\ UNCHANGED <<bucketVars, expired, st, snap, op, acks, finished, late, gcVars, historyVars>>

\* GET /download of an index in a restore session: its digests are fetched next.
Download(x) ==
  /\ st[x] = "restore"
  /\ "idx" \in files[snap[x]]
  /\ known' = [known EXCEPT ![x] = idx[snap[x]]]
  /\ UNCHANGED <<bucketVars, expired, st, snap, sized, base, op, acks, finished, late, gcVars,
                 historyVars>>

-----------------------------------------------------------------------------
(***************************************************************************)
(* Sessions: writes.                                                       *)
(***************************************************************************)

\* storeChunk: a digest that StatObject finds is reported known and left as it
\* is, its age included; any other is written.
StoreChunk(c) ==
  /\ chunks' = chunks \cup {c}
  /\ fresh' = IF c \in chunks THEN fresh ELSE fresh \cup {c}
  /\ lost' = lost \ {c}
  /\ noticed' = noticed \ {c}

UploadChunk(x, c) ==
  /\ st[x] = "backup"
  /\ StoreChunk(c)
  /\ known' = [known EXCEPT ![x] = @ \cup {c}]
  /\ sized' = [sized EXCEPT ![x] = IF snap[x] \in Dynamic THEN @ \cup {c} ELSE @]
  /\ UNCHANGED <<files, idx, indexed, tagged, expired, st, snap, base, op, acks, finished, late,
                 gcVars, opens, userOps, owed, cleaned, stray, crossed, marked>>

\* The object is written but the client is told otherwise (timeout, cancelled
\* context, lost response).
UploadChunkUnacknowledged(x, c) ==
  /\ st[x] = "backup"
  /\ c \notin chunks
  /\ StoreChunk(c)
  /\ UNCHANGED <<files, idx, indexed, tagged, expired, sessionVars, late, gcVars,
                 opens, userOps, owed, cleaned, stray, crossed, marked>>

\* A handler of x starts the S3 write o.  The client waits for each answer
\* before it goes on.
StartWrite(x, o) ==
  /\ st[x] = "backup" /\ x \notin finished
  /\ op[x] = NoOp
  /\ op' = [op EXCEPT ![x] = o]
  /\ UNCHANGED <<bucketVars, expired, st, snap, known, sized, base, acks, finished, late, gcVars,
                 historyVars>>

\* PUT /fixed_index and /dynamic_index: what the client may have assigned to the
\* entries of an index, always digests it believes are stored.
Assignments(x) == SUBSET known[x] \ {{}}

\* POST /fixed_close without reuse-csum: every entry was assigned by the client, a
\* hole is refused.
FixedClose(x) ==
  /\ snap[x] \notin Dynamic
  /\ "idx" \notin acks[x]
  /\ \E d \in Assignments(x) : StartWrite(x, [step |-> "put", index |-> d])

\* POST /fixed_close with reuse-csum: unassigned entries come from the copied
\* index; the request fails when that copy does not exist.
FixedCloseReuse(x) ==
  /\ snap[x] \notin Dynamic
  /\ "idx" \notin acks[x]
  /\ base[x] \in indexed
  /\ \E d \in SUBSET (base[x] \cup known[x]) \ {{}} : StartWrite(x, [step |-> "put", index |-> d])

\* POST /dynamic_close: panics, and writes nothing, on a digest of unknown size.
DynamicClose(x) ==
  /\ snap[x] \in Dynamic
  /\ "idx" \notin acks[x]
  /\ \E d \in Assignments(x) :
       d \subseteq sized[x] /\ StartWrite(x, [step |-> "put", index |-> d])

\* POST /blob: only the manifest matters here, it carries the tags.
UploadManifest(x) ==
  /\ "manifest" \notin acks[x]
  /\ StartWrite(x, [step |-> "manifest", index |-> {}])

\* What an S3 write of a handler does to the objects of snapshot s.
PutFile(s, f) == files' = [files EXCEPT ![s] = @ \cup {f}]
WriteLands(s, o) ==
  \/ /\ o.step = "put"
     /\ PutFile(s, "idx")
     /\ idx' = [idx EXCEPT ![s] = o.index]
     /\ UNCHANGED <<indexed, tagged>>
  \/ /\ o.step = "copy"
     /\ "idx" \in files[s]
     /\ indexed' = indexed \cup {idx[s]}
     /\ UNCHANGED <<files, idx, tagged>>
  \/ /\ o.step = "csjson"
     /\ PutFile(s, "csjson")
     /\ UNCHANGED <<idx, indexed, tagged>>
  \/ /\ o.step = "manifest"
     /\ PutFile(s, "manifest")
     /\ tagged' = tagged \ {s}
     /\ UNCHANGED <<idx, indexed>>

\* Mutant: dynamic indexes are copied like fixed ones.
CopiesEverything(s) == "copy"

\* fixed_close copies the index it has put, dynamic_close puts the chunk sizes.
FollowUp(s) == IF s \in Dynamic THEN "csjson" ELSE "copy"

\* The handler's write is done: it goes on to its next write, or answers the
\* client, if the connection is still there.
FinishWrite(x) ==
  /\ op[x] # NoOp
  /\ WriteLands(snap[x], op[x])
  /\ IF op[x].step = "put"
       THEN /\ op' = [op EXCEPT ![x] = [step |-> FollowUp(snap[x]), index |-> @.index]]
            /\ UNCHANGED acks
       ELSE /\ op' = [op EXCEPT ![x] = NoOp]
            /\ acks' = [acks EXCEPT ![x] =
                 IF st[x] # "backup" THEN @
                 ELSE @ \cup {IF op[x].step = "manifest" THEN "manifest" ELSE "idx"}]
  /\ UNCHANGED <<chunks, fresh, expired, st, snap, known, sized, base, finished, late, gcVars,
                 historyVars>>

\* The write fails (CopyObject also when its source is gone) and so does the request.
FailWrite(x) ==
  /\ op[x] # NoOp
  /\ op' = [op EXCEPT ![x] = NoOp]
  /\ UNCHANGED <<bucketVars, expired, st, snap, known, sized, base, acks, finished, late, gcVars,
                 historyVars>>

-----------------------------------------------------------------------------
(***************************************************************************)
(* Sessions: the end.                                                      *)
(***************************************************************************)

\* POST /finish checks nothing.  The snapshot is owed to the client from here
\* on if every part of it was acknowledged and no user deleted it meanwhile.
Finish(x) ==
  /\ st[x] = "backup" /\ op[x] = NoOp /\ x \notin finished
  /\ finished' = finished \cup {x}
  /\ owed' = IF acks[x] = {"idx", "manifest"} THEN owed \cup {snap[x]} ELSE owed
  /\ UNCHANGED <<bucketVars, expired, st, snap, known, sized, base, op, acks, late, gcVars,
                 opens, userOps, cleaned, stray, crossed, lost, marked, noticed>>

\* Mutant: the snapshot of a finished session is removed too.
DisconnectRemoves(x) ==
  /\ st[x] \in {"backup", "restore"}
  /\ st' = [st EXCEPT ![x] = IF st[x] = "backup" THEN "closing" ELSE "cleaned"]
  /\ UNCHANGED <<bucketVars, expired, snap, known, sized, base, op, acks, finished, late, gcVars,
                 historyVars>>

\* The connection ends and ServeConn returns, whether or not a handler is still
\* writing to S3: handlers run in goroutines nobody waits for.
Disconnect(x) ==
  /\ st[x] \in {"backup", "restore"}
  /\ st' = [st EXCEPT ![x] = IF st[x] = "backup" /\ x \notin finished THEN "closing" ELSE "cleaned"]
  /\ UNCHANGED <<bucketVars, expired, snap, known, sized, base, op, acks, finished, late, gcVars,
                 historyVars>>

\* Snapshot.Delete: lists the objects of s and removes them; some removals may
\* fail, and what is written after the listing stays.
RemoveFiles(s, r) ==
  /\ files' = [files EXCEPT ![s] = @ \ r]
  /\ idx' = IF "idx" \in r THEN [idx EXCEPT ![s] = {}] ELSE idx
  /\ tagged' = IF "manifest" \in r THEN tagged \ {s} ELSE tagged

\* backup() removes the snapshot of a session that did not finish.
RemoveIncomplete(x) ==
  /\ st[x] = "closing"
  /\ \E r \in SUBSET files[snap[x]] :
       /\ RemoveFiles(snap[x], r)
       /\ cleaned' = IF r = files[snap[x]] THEN cleaned \cup {snap[x]} ELSE cleaned
  /\ st' = [st EXCEPT ![x] = "cleaned"]
  /\ UNCHANGED <<indexed, chunks, fresh, expired, snap, known, sized, base, op, acks, finished,
                 late, gcVars, opens, userOps, owed, stray, crossed, lost, marked, noticed>>

\* A slot as endDataStoreSession leaves it.
ResetSlots(X) ==
  /\ st' = [x \in Session |-> IF x \in X THEN "idle" ELSE st[x]]
  /\ snap' = [x \in Session |-> IF x \in X THEN 0 ELSE snap[x]]
  /\ known' = [x \in Session |-> IF x \in X THEN {} ELSE known[x]]
  /\ sized' = [x \in Session |-> IF x \in X THEN {} ELSE sized[x]]
  /\ base' = [x \in Session |-> IF x \in X THEN {} ELSE base[x]]
  /\ op' = [x \in Session |-> IF x \in X THEN NoOp ELSE op[x]]
  /\ acks' = [x \in Session |-> IF x \in X THEN {} ELSE acks[x]]
  /\ finished' = finished \ X

\* endDataStoreSession.  A write still in progress outlives the session.
EndSession(x) ==
  /\ st[x] = "cleaned"
  /\ late' = IF op[x] = NoOp THEN late
             ELSE late \cup {[snap |-> snap[x], step |-> op[x].step, index |-> op[x].index,
                               overrun |-> FALSE]}
  /\ late' # late => Cardinality(late') <= MaxLate
  /\ ResetSlots({x})
  /\ UNCHANGED <<bucketVars, expired, gcVars, historyVars>>

LateWrite(l) ==
  /\ WriteLands(l.snap, l)
  /\ late' = IF l.step = "put"
               THEN (late \ {l}) \cup {[l EXCEPT !.step = FollowUp(l.snap)]}
               ELSE late \ {l}
  /\ stray' = stray \cup {l.snap}
  /\ crossed' = IF l.overrun THEN crossed \cup {l.snap} ELSE crossed
  /\ UNCHANGED <<chunks, fresh, expired, sessionVars, gcVars, opens, userOps, owed, cleaned,
                 lost, marked, noticed>>

LateFailure(l) ==
  /\ late' = late \ {l}
  /\ UNCHANGED <<bucketVars, expired, sessionVars, gcVars, historyVars>>

\* The proxy exits, killed or forced by a second signal.  Its lock is freed by
\* the operating system; nothing is cleaned up.
ProxyExit ==
  /\ \E x \in Session : st[x] # "idle"
  /\ ResetSlots(Session)
  /\ late' = {}
  /\ UNCHANGED <<bucketVars, expired, gcVars, historyVars>>

-----------------------------------------------------------------------------
(***************************************************************************)
(* Requests of the management API, which take no lock, and the passing of  *)
(* time.                                                                   *)
(***************************************************************************)

UserRequest == userOps < MaxUserOps /\ userOps' = userOps + 1

\* DELETE snapshots.
UserDelete(s) ==
  /\ UserRequest
  /\ files[s] # {}
  /\ \E r \in SUBSET files[s] : RemoveFiles(s, r)
  /\ owed' = owed \ {s}
  /\ acks' = [x \in Session |->
       IF st[x] # "idle" /\ snap[x] = s THEN acks[x] \cup {"deleted"} ELSE acks[x]]
  /\ UNCHANGED <<indexed, chunks, fresh, expired, st, snap, known, sized, base, op, finished,
                 late, gcVars, opens, cleaned, stray, crossed, lost, marked, noticed>>

\* POST upload-backup-log.
UploadBackupLog(s) ==
  /\ UserRequest
  /\ "log" \notin files[s]
  /\ PutFile(s, "log")
  /\ cleaned' = cleaned \ {s}
  /\ UNCHANGED <<idx, indexed, chunks, fresh, tagged, expired, sessionVars, late, gcVars,
                 opens, owed, stray, crossed, lost, marked, noticed>>

\* PUT protected toggles the tag, whatever value the request carries.
ToggleProtection(s) ==
  /\ UserRequest
  /\ "manifest" \in files[s]
  /\ tagged' = IF s \in tagged THEN tagged \ {s} ELSE tagged \cup {s}
  /\ UNCHANGED <<files, idx, indexed, chunks, fresh, expired, sessionVars, late, gcVars,
                 opens, owed, cleaned, stray, crossed, lost, marked, noticed>>

\* A snapshot passes the retention period, a chunk the grace period.
Expire(s) ==
  /\ expired' = expired \cup {s}
  /\ UNCHANGED <<bucketVars, sessionVars, late, gcVars, historyVars>>

AgeChunk(c) ==
  /\ c \in fresh
  /\ fresh' = fresh \ {c}
  /\ UNCHANGED <<files, idx, indexed, chunks, tagged, expired, sessionVars, late, gcVars,
                 historyVars>>

\* The object store loses a chunk: what the collector's integrity check is for.
LoseChunk(c) ==
  /\ c \in chunks
  /\ Cardinality(lost) < MaxLost
  /\ chunks' = chunks \ {c}
  /\ fresh' = fresh \ {c}
  /\ lost' = lost \cup {c}
  /\ UNCHANGED <<files, idx, indexed, tagged, expired, sessionVars, late, gcVars,
                 opens, userOps, owed, cleaned, stray, crossed, marked, noticed>>

-----------------------------------------------------------------------------
(***************************************************************************)
(* The collector, which holds the lock from GcLock until it goes idle.     *)
(***************************************************************************)

GcLock ==
  /\ gpc = "idle"
  /\ CollectorMayLock
  /\ gpc' = "list"
  /\ late' = {[l EXCEPT !.overrun = TRUE] : l \in late}
  /\ UNCHANGED <<bucketVars, expired, sessionVars, inv, plan, historyVars>>

\* Listing of backups/.  An empty one ends the run: it is no proof that every
\* chunk is an orphan.
GcListBackups ==
  /\ gpc = "list"
  /\ IF \A s \in Snap : files[s] = {}
       THEN gpc' = "idle" /\ inv' = inv
       ELSE gpc' = "inventory" /\ inv' = [NoInventory EXCEPT !.files = files]
  /\ UNCHANGED <<bucketVars, expired, sessionVars, late, plan, historyVars>>

\* Listings of indexed/ and chunks/, then markTime: it decides which snapshots
\* are past retention (snapshotExpired) and which chunks are past the grace
\* period (withinGracePeriod).
GcInventory ==
  /\ gpc = "inventory"
  /\ gpc' = "refresh"
  /\ inv' = [files |-> inv.files, indexed |-> indexed, chunks |-> chunks,
             old |-> chunks \ fresh, doomed |-> {s \in expired : inv.files[s] # {}}]
  /\ UNCHANGED <<bucketVars, expired, sessionVars, late, plan, historyVars>>

\* Mutant: protection is not read again before removal.
DoomedAnyway == inv.doomed

\* refreshExpiredSnapshotProtection asks for the tags of every complete expired
\* snapshot; one that cannot be read (deleted meanwhile) ends the run.
Complete(s) == "manifest" \in inv.files[s]
StillDoomed == {s \in inv.doomed : ~(Complete(s) /\ s \in tagged)}

GcRefreshProtection ==
  /\ gpc = "refresh"
  /\ \A s \in inv.doomed : Complete(s) => "manifest" \in files[s]
  /\ gpc' = "plan"
  /\ inv' = [inv EXCEPT !.doomed = StillDoomed]
  /\ owed' = owed \ {s \in expired : s \notin tagged}
  /\ UNCHANGED <<bucketVars, expired, sessionVars, late, plan, opens, userOps, cleaned,
                 stray, crossed, lost, marked, noticed>>

\* buildGCPlan: every index that stays is loaded (a failure ends the run), and
\* what it references is kept.
Retained     == {s \in Snap \ inv.doomed : "idx" \in inv.files[s]}
KnownChunks  == UNION {idx[s] : s \in Retained}
KnownHashes  == {idx[s] : s \in Retained \ Dynamic}
BuildGCPlan ==
  [backups |-> {p \in inv.doomed \X File : p[2] \in inv.files[p[1]]},
   indexed |-> inv.indexed \ KnownHashes,
   chunks  |-> inv.old \ KnownChunks,
   missing |-> KnownChunks \ inv.chunks,
   broken  |-> {s \in Retained : idx[s] \cap (KnownChunks \ inv.chunks) # {}}]

GcPlan ==
  /\ gpc = "plan"
  /\ \A s \in Retained : "idx" \in files[s]
  /\ plan' = BuildGCPlan
  /\ inv' = NoInventory
  /\ gpc' = IF BuildGCPlan.missing # {} THEN "corrupt" ELSE "sweepBackups"
  /\ UNCHANGED <<bucketVars, expired, sessionVars, late, historyVars>>

GcExit == gpc' = "idle" /\ inv' = NoInventory /\ plan' = NoPlan

\* A missing chunk: the snapshots that reference it get a corrupted marker and
\* the run ends, nothing removed.  Writing a marker may fail halfway.
GcMarkCorrupted ==
  /\ gpc = "corrupt"
  /\ \E b \in SUBSET plan.broken :
       /\ files' = [s \in Snap |-> IF s \in b THEN files[s] \cup {"corrupted"} ELSE files[s]]
       /\ marked' = marked \cup b
       /\ noticed' = IF b = plan.broken THEN noticed \cup (plan.missing \cap lost) ELSE noticed
  /\ GcExit
  /\ UNCHANGED <<idx, indexed, chunks, fresh, tagged, expired, sessionVars, late,
                 opens, userOps, owed, cleaned, stray, crossed, lost>>

\* Mutant: failed removals are logged and the next step starts.
RemoveAndGoOn(r, planned, next) == gpc' = next /\ UNCHANGED <<inv, plan>>

\* removeObjectsFully: r was removed out of what was planned.  executeGCPlan
\* goes on only when nothing failed.
AfterRemoving(r, planned, next) ==
  IF r = planned THEN gpc' = next /\ UNCHANGED <<inv, plan>> ELSE GcExit

GcSweepBackups ==
  /\ gpc = "sweepBackups"
  /\ \E r \in SUBSET plan.backups :
       /\ files' = [s \in Snap |-> files[s] \ {f \in File : <<s, f>> \in r}]
       /\ idx' = [s \in Snap |-> IF <<s, "idx">> \in r THEN {} ELSE idx[s]]
       /\ tagged' = tagged \ {s \in Snap : <<s, "manifest">> \in r}
       /\ AfterRemoving(r, plan.backups, "sweepIndexed")
  /\ UNCHANGED <<indexed, chunks, fresh, expired, sessionVars, late, historyVars>>

GcSweepIndexed ==
  /\ gpc = "sweepIndexed"
  /\ \E r \in SUBSET plan.indexed :
       /\ indexed' = indexed \ r
       /\ AfterRemoving(r, plan.indexed, "sweepChunks")
  /\ UNCHANGED <<files, idx, chunks, fresh, tagged, expired, sessionVars, late, historyVars>>

GcSweepChunks ==
  /\ gpc = "sweepChunks"
  /\ \E r \in SUBSET plan.chunks :
       /\ chunks' = chunks \ r
       /\ fresh' = fresh \ r
  /\ GcExit
  /\ UNCHANGED <<files, idx, indexed, tagged, expired, sessionVars, late, historyVars>>

\* FatalPrint on any failed request, or the process is killed.
GcFatal ==
  /\ gpc # "idle"
  /\ GcExit
  /\ UNCHANGED <<bucketVars, expired, sessionVars, late, historyVars>>

-----------------------------------------------------------------------------
SessionStep(x) ==
  \/ \E s \in Snap : OpenBackup(x, s) \/ OpenRestore(x, s)
  \/ Previous(x) \/ Download(x)
  \/ \E c \in Chunk : UploadChunk(x, c) \/ UploadChunkUnacknowledged(x, c)
  \/ FixedClose(x) \/ FixedCloseReuse(x) \/ DynamicClose(x) \/ UploadManifest(x)
  \/ FinishWrite(x) \/ FailWrite(x)
  \/ Finish(x) \/ Disconnect(x) \/ RemoveIncomplete(x) \/ EndSession(x)

Collector ==
  \/ GcLock \/ GcListBackups \/ GcInventory \/ GcRefreshProtection \/ GcPlan
  \/ GcMarkCorrupted \/ GcSweepBackups \/ GcSweepIndexed \/ GcSweepChunks \/ GcFatal

Environment ==
  \/ \E l \in late : LateWrite(l) \/ LateFailure(l)
  \/ ProxyExit
  \/ \E s \in Snap : UserDelete(s) \/ UploadBackupLog(s) \/ ToggleProtection(s) \/ Expire(s)
  \/ \E c \in Chunk : AgeChunk(c) \/ LoseChunk(c)

Next == (\E x \in Session : SessionStep(x)) \/ Collector \/ Environment

Spec == Init /\ [][Next]_vars

-----------------------------------------------------------------------------
(***************************************************************************)
(* Properties.                                                             *)
(***************************************************************************)

\* What may be relied upon: stored, or lost by the object store itself.
Accounted == chunks \cup lost

\* No index object, of a finished, running, aborted or expired snapshot,
\* references a chunk the collector removed, at any point of a run that stops,
\* fails or is killed between two removals; and the same holds of every copied
\* index a later reuse-csum may start from.  A write that lands after its session
\* released the lock does no harm either, unless a collector ran in between:
\* behaviours with such a write are excluded.
NoDanglingIndex ==
  crossed = {} =>
    /\ \A s \in Snap : "idx" \in files[s] => idx[s] \subseteq Accounted
    /\ \A d \in indexed : d \subseteq Accounted

\* What a live session was told is stored stays stored until it ends: chunks
\* found by StatObject however old they are, chunks of the previous index even
\* if its snapshot is deleted meanwhile, chunks of an index being restored.
SessionKnowledgeHolds ==
  crossed = {} => \A x \in Session : known[x] \cup base[x] \cup op[x].index \subseteq Accounted

\* A snapshot a client finished after all its parts were acknowledged keeps its
\* index, its manifest, its chunks and the copy (or the sizes) incremental
\* backups need, until the client's side gives it up: by writing it again,
\* deleting it, or letting it expire unprotected.  A write that lands after its
\* session harms only the snapshot it belongs to, whose objects it may replace;
\* chunks may be missing elsewhere only if a collector ran before it landed, and
\* a later backup reused what it wrote.
Intact(s) ==
  /\ {"idx", "manifest"} \subseteq files[s]
  /\ IF s \in Dynamic THEN "csjson" \in files[s] ELSE idx[s] \in indexed
  /\ crossed = {} => idx[s] \subseteq Accounted

OwedIntact == \A s \in owed \ stray : Intact(s)

\* While any session is live, whoever takes the steps, no chunk and no copied
\* index disappears (other than by loss in the object store).
KeepsData ==
  (\E x \in Session : st[x] # "idle") =>
    chunks \ lost' \subseteq chunks' /\ indexed \subseteq indexed'
LiveSessionsKeepData == [][KeepsData]_vars

\* "Incomplete backup because connection died pve side, remove from S3"
\* (http2.go): once the removal reported success, nothing is left of it.
IncompleteIsRemoved == \A s \in cleaned : files[s] = {}

\* "it will be marked corrupted, so next backup from PVE will be non incremental
\* and will recreate missing chunk if needed" (README.md): once the collector has
\* marked the snapshots broken by a missing chunk, and while those markers are
\* there, no backup session is told that it need not upload that chunk.
MissingChunkIsRecreated ==
  (\A s \in marked : "corrupted" \in files[s]) =>
    \A x \in Session : st[x] = "backup" => known[x] \cap noticed = {}

-----------------------------------------------------------------------------
(***************************************************************************)
(* The inductive invariant behind NoDanglingIndex, SessionKnowledgeHolds   *)
(* and LiveSessionsKeepData; DatastoreProofs proves it.                    *)
(***************************************************************************)

\* The lock: the collector runs only while every slot is idle, and an idle slot
\* remembers nothing.
Exclusion ==
  /\ gpc # "idle" => \A x \in Session : st[x] = "idle"
  /\ \A x \in Session : st[x] = "idle" => known[x] = {} /\ base[x] = {} /\ op[x] = NoOp

\* Until the plan is made nothing appears that the listings do not have.
ListingsComplete ==
  /\ gpc \in {"inventory", "refresh", "plan"} =>
       \A s \in Snap : "idx" \in files[s] => "idx" \in inv.files[s]
  /\ gpc \in {"refresh", "plan"} => indexed \subseteq inv.indexed

\* What references a chunk about to be removed is removed before it.
PlanSafe ==
  /\ gpc \in {"sweepBackups", "sweepIndexed", "sweepChunks"} =>
       /\ \A s \in Snap : "idx" \in files[s] =>
            (gpc = "sweepBackups" /\ <<s, "idx">> \in plan.backups) \/ idx[s] \cap plan.chunks = {}
       /\ \A d \in indexed :
            (gpc # "sweepChunks" /\ d \in plan.indexed) \/ d \cap plan.chunks = {}

\* Writes that outlived their session, until a collector takes the lock.
LateSafe ==
  /\ gpc # "idle" => \A l \in late : l.overrun
  /\ crossed = {} => \A l \in late : l.overrun \/ l.index \subseteq Accounted

\* Conditioned, like the properties, on no write having crossed a collector's run.
IndInv ==
  /\ Exclusion
  /\ LateSafe
  /\ crossed = {} => ListingsComplete /\ PlanSafe
  /\ NoDanglingIndex
  /\ SessionKnowledgeHolds

(***************************************************************************)
(* And the one behind OwedIntact.                                          *)
(***************************************************************************)

\* Stored as a client that was acknowledged expects it.
ArchiveStored(s) ==
  /\ "idx" \in files[s]
  /\ IF s \in Dynamic THEN "csjson" \in files[s] ELSE idx[s] \in indexed

\* Sessions that may still write to, or remove, their snapshot: one per snapshot,
\* and none of an owed snapshot.
Writer(x) == st[x] \in {"backup", "closing"} \/ op[x] # NoOp
WritersApart ==
  /\ \A x, y \in Session : x # y /\ Writer(x) /\ Writer(y) => snap[x] # snap[y]
  /\ \A x \in Session : x \in finished => op[x] = NoOp /\ st[x] \notin {"idle", "closing"}
  /\ \A x \in Session : Writer(x) /\ snap[x] \in owed => x \in finished
  /\ \A x \in Session : st[x] = "idle" => acks[x] = {}

\* Acknowledged parts are there, unless a user deleted them or a write of an earlier
\* session of the snapshot came after them.
Undisturbed(x) == st[x] = "backup" /\ "deleted" \notin acks[x] /\ snap[x] \notin stray
AcksTrue ==
  \A x \in Session : Undisturbed(x) =>
    /\ op[x].step \in {"put", "copy", "csjson"} => "idx" \notin acks[x]
    /\ op[x].step \in {"copy", "csjson"} => "idx" \in files[snap[x]]
    /\ "idx" \in acks[x] => ArchiveStored(snap[x])
    /\ "manifest" \in acks[x] => "manifest" \in files[snap[x]]

\* The collector has seen every owed snapshot and plans to remove no part of it.
OwedSpared ==
  /\ gpc \in {"inventory", "refresh", "plan"} =>
       \A s \in owed \ stray : {"idx", "manifest"} \subseteq inv.files[s]
  /\ gpc = "refresh" => inv.doomed \subseteq expired
  /\ gpc = "plan" => inv.doomed \cap (owed \ stray) = {}
  /\ gpc \in {"sweepBackups", "sweepIndexed", "sweepChunks"} =>
       \A s \in owed \ stray : /\ \A f \in File : <<s, f>> \notin plan.backups
                               /\ s \in Dynamic \/ idx[s] \notin plan.indexed

OwedInv == WritersApart /\ AcksTrue /\ OwedSpared /\ OwedIntact
=============================================================================
